------------------------- MODULE ChannelWakes_proofs -------------------------
(***************************************************************************)
(* Proofs that nobody waits for a channel in vain, for any number of       *)
(* blocks, senders, receivers, pollers and messages.                       *)
(*                                                                         *)
(* A process sleeps, or a poller waits, only while its counter is at its   *)
(* limit or somebody else is under way who will wake it (Served): each     *)
(* step either moves no counter towards the limit's end, or leaves its     *)
(* process at a location from which it notifies.                           *)
(***************************************************************************)
EXTENDS Channel_proofs

USE ZenonT(20), SMTT(30)

Notifying == {"event", "flag", "notify"}

\* For every poller that waits, its event is not there, or somebody will notify it:
\* the processes ps, which count up n, notify those that wait for some item, and
\* those that wait for the whole Capacity.
Served(ps, some, whole, n) ==
  \A q \in Poller :
    /\ poll[q] \in {some, "POLLINOUT"} => n = 0 \/ \E p \in ps : At(p) \in Notifying
    /\ poll[q] = whole => n < Capacity \/ \E p \in ps : At(p) \in Notifying /\ loc[p].saw

PollerServed == /\ Served(Sender, "POLLIN", "POLLFULL", available_msgs)
                /\ Served(Receiver, "POLLOUT", "POLLEMPTY", available_blocks)

\* And for a channel set that waits.
SetServed(ps, whole, n) ==
  rec.mask = whole => n < Capacity \/ \E p \in ps : At(p) = "event" /\ loc[p].saw

WatchServed ==
  set_poll = "waiting" => /\ SetServed(Sender, "POLLFULL", available_msgs)
                          /\ SetServed(Receiver, "POLLEMPTY", available_blocks)

\* No block is given back in silence.
NothingGone == leaked = {} /\ \A s \in Sender : At(s) # "return"

WokenInv == PlaceInv /\ (NothingLost => NothingGone) /\ BlockedWoken
NotifyInv == PlaceInv /\ (NothingLost => NothingGone /\ PollerServed /\ WatchServed)

-----------------------------------------------------------------------------
(* The local variables in some of the steps                                *)

\* A sender takes a block.
LEMMA TakeMoves ==
  ASSUME TypeLoc, NEW p \in Process, NEW c \in Block,
         loc' = [loc EXCEPT ![p].at = "wake", ![p].blk = c]
  PROVE  Moves(p, {"wake"}, c, loc[p].msg)
BY ZenonT(60) DEF TypeLoc, LocalOf, Local, Locations, Moves

\* A receiver takes a message.
LEMMA PopMoves ==
  ASSUME TypeLoc, NEW p \in Process \ Sender, NEW c \in Block, NEW n \in Message,
         loc' = [loc EXCEPT ![p].at = "wake", ![p].blk = c, ![p].msg = n]
  PROVE  Moves(p, {"wake"}, c, n)
BY ZenonT(60) DEF TypeLoc, LocalOf, Local, Locations, Moves

\* The channel set is notified.
LEMMA EventMoves ==
  ASSUME TypeLoc, NEW p \in Process, NEW fires \in BOOLEAN, notify_set(p, fires)
  PROVE  Moves(p, {"flag"}, loc[p].blk, loc[p].msg) /\ loc'[p].saw = loc[p].saw
BY ZenonT(60) DEF TypeLoc, LocalOf, Local, Locations, Moves, notify_set

\* The flags of the channel set are up to date.
LEMMA FlagMoves ==
  ASSUME TypeLoc, NEW p \in Process, loc' = [loc EXCEPT ![p].at = "notify", ![p].hit = FALSE]
  PROVE  Moves(p, {"notify"}, loc[p].blk, loc[p].msg) /\ loc'[p].saw = loc[p].saw
BY ZenonT(60) DEF TypeLoc, LocalOf, Local, Locations, Moves

\* A send that has put its message in order, and a receive that has given its block
\* back; n: the counter before.
Posted(s, n) == [loc[s] EXCEPT !.at = "event", !.blk = Nobody, !.saw = fills_table(n)]
Released(r, n) ==
  [loc[r] EXCEPT !.at = "event", !.blk = Nobody, !.msg = Nobody, !.saw = fills_table(n)]

\* The local variables of a send that has put its message in order.
LEMMA PostedTyped ==
  ASSUME TypeLoc, NEW s \in Process, NEW n
  PROVE  /\ Posted(s, n) \in LocalOf(s)
         /\ Posted(s, n).at = "event" /\ Posted(s, n).saw = fills_table(n)
BY ZenonT(60) DEF TypeLoc, LocalOf, Local, Locations, Posted, fills_table

\* The local variables of a receive that has given its block back.
LEMMA ReleasedTyped ==
  ASSUME TypeLoc, NEW r \in Process \ Sender, NEW n
  PROVE  /\ Released(r, n) \in LocalOf(r)
         /\ Released(r, n).at = "event" /\ Released(r, n).saw = fills_table(n)
BY ZenonT(60) DEF TypeLoc, LocalOf, Local, Locations, Released, fills_table

-----------------------------------------------------------------------------
(* Processes that wait for a block or a message                            *)

Calmly(ps) ==
  \A p \in ps : /\ loc'[p].at = "blocked" => At(p) = "blocked"
                /\ At(p) \in {"take", "wake"} => loc'[p].at \in {"take", "wake"}

Roused(ps) ==
  \/ \A p \in ps : loc'[p].at # "blocked"
  \/ \E p \in ps : loc'[p].at \in {"take", "wake"}

\* What becomes of the processes ps and their counter, n before the step and k after:
\* nothing to the point, or one of them is on its way, or there is nothing for them.
Woken(ps, n, k) == (Calmly(ps) /\ k = n) \/ Roused(ps) \/ k = 0

\* A step of p leaves the others alone, or wakes them.
LEMMA MovesCalmly ==
  ASSUME NEW p \in Process, NEW to, NEW c, NEW n, Moves(p, to, c, n), NEW ps \in SUBSET Process,
         p \notin ps \/ ("blocked" \notin to /\ At(p) \notin {"take", "wake"})
  PROVE  Calmly(ps)
BY DEF Moves, Woke, Calmly, At

\* A trigger leaves nobody asleep, or wakes somebody.
LEMMA TriggerRouses ==
  ASSUME TypeLoc, NEW ps \in SUBSET Process, NEW p \in Process, NEW e \in LocalOf(p),
         e.at # "blocked", At(p) # "blocked", trigger_one(ps, [loc EXCEPT ![p] = e])
  PROVE  Roused(ps)
BY DEF trigger_one, TypeLoc, LocalOf, Local, Locations, Roused, At

\* A step of a send that may wait for a block passes on the wake-up it had.
LEMMA SendWakes ==
  ASSUME Base, NEW s \in Sender, SendCall(s), At(s) # "return"
  PROVE  /\ Woken(Sender, available_blocks, available_blocks')
         /\ Woken(Receiver, available_msgs, available_msgs')
<1> DEFINE Calls(to) == \E c, n : Moves(s, to, c, n)
<1>0. /\ s \in Process /\ Sender \in SUBSET Process /\ Receiver \in SUBSET Process
      /\ s \notin Receiver /\ TypeLoc /\ Fits /\ TypeOK /\ loc[s].msg \in 0 .. MaxSends
  BY DEF Process, Base, Fits, PlaceInv, TypeOK, Local
<1>1. ASSUME NEW to, Calls(to), UNCHANGED <<available_blocks, available_msgs>>,
             At(s) \notin {"take", "wake"}, "blocked" \notin to
      PROVE  /\ Woken(Sender, available_blocks, available_blocks')
             /\ Woken(Receiver, available_msgs, available_msgs')
  BY <1>0, <1>1, MovesCalmly DEF Woken
<1>2. ASSUME NEW to, Calls(to), UNCHANGED available_msgs
      PROVE  Woken(Receiver, available_msgs, available_msgs')
  BY <1>0, <1>2, MovesCalmly DEF Woken
<1>3. CASE send_start(s)
  <2>1. Calls({"try"})
    <3>1. Moves(s, {"try"}, Nobody, loc[s].msg + 1)
      BY <1>0, <1>3 DEF send_start, Calling, Moves, TypeLoc, LocalOf, Local, Locations, Fits
    <3> QED
      BY <3>1
  <2> QED
    BY <1>1, <1>3, <2>1 DEF send_start, usage, order
<1>4. CASE send_try(s)
  <2>1. \E l \in {"idle", "check", "take"} : Calls({l})
    BY <1>0, <1>4, AgainMoves, GotoMoves DEF send_try, Locations
  <2> HIDE DEF Calls
  <2> QED
    BY <1>1, <1>4, <2>1 DEF send_try, usage, order
<1>5. CASE send_check(s)
  <2>1. Calls({"blocked", "take"})
    <3>1. \E l \in {"blocked", "take"} : Moves(s, {l}, loc[s].blk, loc[s].msg)
      BY <1>0, <1>5, GotoMoves DEF send_check, Locations
    <3> QED
      BY <3>1 DEF Moves
  <2>2. available_blocks' = 0 \/ loc'[s].at = "take"
    BY <1>0, <1>5 DEF send_check, Goto, usage, TypeLoc
  <2>3. Woken(Sender, available_blocks, available_blocks')
    BY <2>2 DEF Woken, Roused
  <2> HIDE DEF Calls
  <2> QED
    BY <1>2, <1>5, <2>1, <2>3 DEF send_check, order
<1>6. CASE timeout(s)
  <2>1. Calls({"idle"})
    BY <1>0, <1>6, ReturnMoves DEF timeout
  <2> HIDE DEF Calls
  <2> QED
    BY <1>1, <1>6, <2>1 DEF timeout, usage, order
<1>7. CASE send_take(s)
  <2>1. UNCHANGED available_msgs
    BY <1>7 DEF send_take, order
  <2>2. CASE available_blocks' = 0 /\ again(s)
    <3>1. Calls({"idle"}) \/ Calls({"check"})
      BY <1>0, <2>2, AgainMoves
    <3> HIDE DEF Calls
    <3> QED
      BY <1>2, <2>1, <2>2, <3>1 DEF Woken
  <2>3. ASSUME NEW c \in ut, loc' = [loc EXCEPT ![s].at = "wake", ![s].blk = c]
        PROVE  Woken(Sender, available_blocks, available_blocks') /\ Calls({"wake"})
    <3>1. Moves(s, {"wake"}, c, loc[s].msg)
      BY <1>0, <2>3, BlockTypes, TakeMoves
    <3>2. loc'[s].at = "wake"
      BY <3>1 DEF Moves
    <3> QED
      BY <3>1, <3>2 DEF Woken, Roused
  <2> HIDE DEF Calls
  <2> QED
    BY <1>2, <1>7, <2>1, <2>2, <2>3 DEF send_take
<1>8. CASE send_wake(s)
  <2> DEFINE e == [loc[s] EXCEPT !.at = "copy"]
  <2>1. At(s) = "wake" /\ UNCHANGED <<available_blocks, available_msgs>>
    BY <1>8 DEF send_wake, usage, order
  <2>2. e \in LocalOf(s) /\ e.at = "copy"
    BY <1>0 DEF TypeLoc, LocalOf, Local, Locations
  <2>3. \/ trigger_one(Sender, [loc EXCEPT ![s] = e])
        \/ loc' = [loc EXCEPT ![s] = e] /\ ~(available_blocks > 0)
    BY <1>8 DEF send_wake
  <2> HIDE DEF e
  <2>4. CASE trigger_one(Sender, [loc EXCEPT ![s] = e])
    <3>1. Roused(Sender) /\ Calls({"copy"})
      BY <1>0, <2>1, <2>2, <2>4, TriggerMoves, TriggerRouses
    <3> HIDE DEF Calls
    <3> QED
      BY <1>2, <2>1, <3>1 DEF Woken
  <2>5. CASE loc' = [loc EXCEPT ![s] = e] /\ ~(available_blocks > 0)
    <3>1. Moves(s, {"copy"}, e.blk, e.msg)
      BY <1>0, <2>2, <2>5 DEF Moves, TypeLoc
    <3>2. Calls({"copy"})
      BY <3>1
    <3>3. available_blocks' = 0
      BY <2>1, <2>5 DEF Base, PlaceInv, TypeOK
    <3> HIDE DEF Calls
    <3> QED
      BY <1>2, <2>1, <3>2, <3>3 DEF Woken
  <2> QED
    BY <2>3, <2>4, <2>5
<1>9. CASE send_copy(s)
  <2>1. \E l \in {"post", "return", "idle"} : Calls({l})
    BY <1>0, <1>9, GotoMoves, ReturnMoves DEF send_copy, send_fail, Locations
  <2> HIDE DEF Calls
  <2> QED
    BY <1>1, <1>9, <2>1 DEF send_copy, usage, order
<1>10. CASE send_post(s)
  <2> DEFINE e == Posted(s, available_msgs)
  <2>1. At(s) = "post" /\ UNCHANGED available_blocks
    BY <1>10 DEF send_post, usage
  <2>2. e \in LocalOf(s) /\ e.at = "event"
    BY <1>0, PostedTyped
  <2>3. trigger_one(Receiver, [loc EXCEPT ![s] = e])
    BY <1>10 DEF send_post, Posted
  <2> HIDE DEF e
  <2>4. Roused(Receiver)
    BY <1>0, <2>1, <2>2, <2>3, TriggerRouses
  <2>5. Moves(s, {"event"}, e.blk, e.msg)
    BY <1>0, <2>1, <2>2, <2>3, TriggerMoves
  <2>6. Calmly(Sender)
    BY <1>0, <2>1, <2>5, MovesCalmly
  <2> QED
    BY <2>1, <2>4, <2>6 DEF Woken
<1>11. CASE send_event(s)
  <2>1. Moves(s, {"flag"}, loc[s].blk, loc[s].msg)
    BY <1>0, <1>11, EventMoves DEF send_event
  <2>2. Calls({"flag"})
    BY <2>1
  <2> HIDE DEF Calls
  <2> QED
    BY <1>1, <1>11, <2>2 DEF send_event, notify_set, usage, order
<1>12. CASE send_flag(s)
  <2>1. Moves(s, {"notify"}, loc[s].blk, loc[s].msg)
    BY <1>0, <1>12, FlagMoves DEF send_flag
  <2>2. Calls({"notify"})
    BY <2>1
  <2> HIDE DEF Calls
  <2> QED
    BY <1>1, <1>12, <2>2 DEF send_flag, usage
<1>13. CASE send_notify(s)
  <2>1. Calls({"idle"})
    BY <1>0, <1>13, ReturnMoves DEF send_notify
  <2> HIDE DEF Calls
  <2> QED
    BY <1>1, <1>13, <2>1 DEF send_notify, usage, order
<1> HIDE DEF Calls
<1> QED
  BY <1>3, <1>4, <1>5, <1>6, <1>7, <1>8, <1>9, <1>10, <1>11, <1>12, <1>13
     DEF SendCall, SendStep, _return_msgblk_to_ut

\* And a step of a receive that may wait for a message, if it is not refused.
LEMMA ReceiveWakes ==
  ASSUME Base, NEW r \in Receiver, RecvCall(r), "refuse" \notin RecvErrors
  PROVE  /\ Woken(Sender, available_blocks, available_blocks')
         /\ Woken(Receiver, available_msgs, available_msgs')
<1> DEFINE Calls(to) == \E c, n : Moves(r, to, c, n)
<1>0. /\ r \in Process \ Sender /\ Sender \in SUBSET Process /\ Receiver \in SUBSET Process
      /\ TypeLoc /\ Fits /\ TypeOK
  BY DEF Process, Base, Fits, PlaceInv
<1>1. ASSUME NEW to, Calls(to), UNCHANGED <<available_blocks, available_msgs>>,
             At(r) \notin {"take", "wake"}, "blocked" \notin to
      PROVE  /\ Woken(Sender, available_blocks, available_blocks')
             /\ Woken(Receiver, available_msgs, available_msgs')
  BY <1>0, <1>1, MovesCalmly DEF Woken
<1>2. ASSUME NEW to, Calls(to), UNCHANGED available_blocks
      PROVE  Woken(Sender, available_blocks, available_blocks')
  BY <1>0, <1>2, MovesCalmly DEF Woken
<1>3. CASE get_start(r) \/ pop_start(r)
  <2>1. ASSUME NEW l \in {"try", "take"}, NEW k \in {"nowait", "timed", "forever"},
               loc' = [loc EXCEPT ![r] = Calling(l, k, Nobody)]
        PROVE  Moves(r, {l}, Nobody, Nobody)
    BY <1>0, <2>1 DEF Calling, Moves, TypeLoc, LocalOf, Local, Locations
  <2>2. \E l \in {"try", "take"}, k \in {"nowait", "timed", "forever"} :
          loc' = [loc EXCEPT ![r] = Calling(l, k, Nobody)]
    BY <1>0, <1>3 DEF get_start, pop_start, Fits
  <2>3. \E l \in {"try", "take"} : Calls({l})
    BY <2>1, <2>2
  <2> HIDE DEF Calls
  <2> QED
    BY <1>1, <1>3, <2>3 DEF get_start, pop_start, usage, order
<1>4. CASE get_try(r)
  <2>1. \E l \in {"idle", "check", "take"} : Calls({l})
    BY <1>0, <1>4, AgainMoves, GotoMoves DEF get_try, Locations
  <2> HIDE DEF Calls
  <2> QED
    BY <1>1, <1>4, <2>1 DEF get_try, usage, order
<1>5. CASE get_check(r)
  <2>1. Calls({"blocked", "take"})
    <3>1. \E l \in {"blocked", "take"} : Moves(r, {l}, loc[r].blk, loc[r].msg)
      BY <1>0, <1>5, GotoMoves DEF get_check, Locations
    <3> QED
      BY <3>1 DEF Moves
  <2>2. available_msgs' = 0 \/ loc'[r].at = "take"
    BY <1>0, <1>5 DEF get_check, Goto, order, TypeLoc
  <2>3. Woken(Receiver, available_msgs, available_msgs')
    BY <2>2 DEF Woken, Roused
  <2> HIDE DEF Calls
  <2> QED
    BY <1>2, <1>5, <2>1, <2>3 DEF get_check, usage
<1>6. CASE timeout(r)
  <2>1. Calls({"idle"})
    BY <1>0, <1>6, ReturnMoves DEF timeout
  <2> HIDE DEF Calls
  <2> QED
    BY <1>1, <1>6, <2>1 DEF timeout, usage, order
<1>7. CASE get_take(r)
  <2>1. UNCHANGED available_blocks
    BY <1>7 DEF get_take, usage
  <2>2. CASE available_msgs' = 0 /\ again(r)
    <3>1. Calls({"idle"}) \/ Calls({"check"})
      BY <1>0, <2>2, AgainMoves
    <3> HIDE DEF Calls
    <3> QED
      BY <1>2, <2>1, <2>2, <3>1 DEF Woken
  <2>3. CASE /\ ot # <<>>
             /\ loc' = [loc EXCEPT ![r].at = "wake", ![r].blk = Head(ot).blk,
                                   ![r].msg = Head(ot).msg]
    <3>1. Head(ot).blk \in Block /\ Head(ot).msg \in Message
      <4>1. Head(ot) \in [blk : Block, msg : Message]
        BY <1>0, <2>3, HeadTailProperties DEF TypeOK
      <4> QED
        BY <4>1
    <3>2. Moves(r, {"wake"}, Head(ot).blk, Head(ot).msg)
      BY <1>0, <2>3, <3>1, PopMoves
    <3>3. loc'[r].at = "wake" /\ Calls({"wake"})
      BY <3>2 DEF Moves
    <3> HIDE DEF Calls
    <3> QED
      BY <1>2, <2>1, <3>3 DEF Woken, Roused
  <2> QED
    BY <1>7, <2>2, <2>3 DEF get_take
<1>8. CASE get_wake(r)
  <2> DEFINE e == [loc[r] EXCEPT !.at = "copy"]
  <2>1. At(r) = "wake" /\ UNCHANGED <<available_blocks, available_msgs>>
    BY <1>8 DEF get_wake, usage, order
  <2>2. e \in LocalOf(r) /\ e.at = "copy"
    BY <1>0 DEF TypeLoc, LocalOf, Local, Locations
  <2>3. \/ trigger_one(Receiver, [loc EXCEPT ![r] = e])
        \/ loc' = [loc EXCEPT ![r] = e] /\ ~(available_msgs > 0)
    BY <1>8 DEF get_wake
  <2> HIDE DEF e
  <2>4. CASE trigger_one(Receiver, [loc EXCEPT ![r] = e])
    <3>1. Roused(Receiver) /\ Calls({"copy"})
      BY <1>0, <2>1, <2>2, <2>4, TriggerMoves, TriggerRouses
    <3> HIDE DEF Calls
    <3> QED
      BY <1>2, <2>1, <3>1 DEF Woken
  <2>5. CASE loc' = [loc EXCEPT ![r] = e] /\ ~(available_msgs > 0)
    <3>1. Moves(r, {"copy"}, e.blk, e.msg)
      BY <1>0, <2>2, <2>5 DEF Moves, TypeLoc
    <3>2. Calls({"copy"})
      BY <3>1
    <3>3. available_msgs' = 0
      BY <1>0, <2>1, <2>5 DEF TypeOK
    <3> HIDE DEF Calls
    <3> QED
      BY <1>2, <2>1, <3>2, <3>3 DEF Woken
  <2> QED
    BY <2>3, <2>4, <2>5
<1>9. CASE get_copy(r)
  <2>1. Calls({"release"}) \/ Calls({"idle"})
    BY <1>0, <1>9, GotoMoves, ReturnMoves DEF get_copy, Locations
  <2> HIDE DEF Calls
  <2> QED
    BY <1>1, <1>9, <2>1 DEF get_copy, usage, order
<1>10. CASE _release_message_block(r)
  <2> DEFINE e == Released(r, available_blocks)
  <2>1. At(r) = "release" /\ UNCHANGED available_msgs
    BY <1>10 DEF _release_message_block, order
  <2>2. e \in LocalOf(r) /\ e.at = "event"
    BY <1>0, ReleasedTyped
  <2>3. trigger_one(Sender, [loc EXCEPT ![r] = e])
    BY <1>10 DEF _release_message_block, Released
  <2> HIDE DEF e
  <2>4. Roused(Sender)
    BY <1>0, <2>1, <2>2, <2>3, TriggerRouses
  <2>5. Moves(r, {"event"}, e.blk, e.msg)
    BY <1>0, <2>1, <2>2, <2>3, TriggerMoves
  <2>6. Calmly(Receiver)
    BY <1>0, <2>1, <2>5, MovesCalmly
  <2> QED
    BY <2>1, <2>4, <2>6 DEF Woken
<1>11. CASE release_event(r)
  <2>1. Moves(r, {"flag"}, loc[r].blk, loc[r].msg)
    BY <1>0, <1>11, EventMoves DEF release_event
  <2>2. Calls({"flag"})
    BY <2>1
  <2> HIDE DEF Calls
  <2> QED
    BY <1>1, <1>11, <2>2 DEF release_event, notify_set, usage, order
<1>12. CASE release_flag(r)
  <2>1. Moves(r, {"notify"}, loc[r].blk, loc[r].msg)
    BY <1>0, <1>12, FlagMoves DEF release_flag
  <2>2. Calls({"notify"})
    BY <2>1
  <2> HIDE DEF Calls
  <2> QED
    BY <1>1, <1>12, <2>2 DEF release_flag, order
<1>13. CASE release_notify(r)
  <2>1. Calls({"idle"}) \/ Calls({"check", "try"})
    BY <1>0, <1>13, ReturnMoves, AttemptMoves DEF release_notify
  <2> HIDE DEF Calls
  <2> QED
    BY <1>1, <1>13, <2>1 DEF release_notify, usage, order
<1> HIDE DEF Calls
<1> QED
  BY <1>3, <1>4, <1>5, <1>6, <1>7, <1>8, <1>9, <1>10, <1>11, <1>12, <1>13
     DEF RecvCall, RecvStep


-----------------------------------------------------------------------------
(* What a step tells pollers                                               *)

\* A step of p, one of those that count up n, which is k after the step.
Tells(p, some, whole, n, k) ==
  \/ /\ k <= n /\ UNCHANGED <<poll, set_poll>>
     /\ \/ At(p) \notin Notifying
        \/ At(p) = "flag" /\ loc'[p].at = "notify" /\ loc'[p].saw = loc[p].saw
  \/ /\ k = n + 1 /\ UNCHANGED <<poll, set_poll>>
     /\ loc'[p].at = "event" /\ loc'[p].saw = fills_table(n)
  \/ /\ k = n /\ UNCHANGED poll /\ set_poll' \in {set_poll, "idle"}
     /\ At(p) = "event" /\ loc'[p].at = "flag" /\ loc'[p].saw = loc[p].saw
     /\ rec.mask = whole /\ loc[p].saw => set_poll' = "idle"
  \/ /\ k = n /\ UNCHANGED set_poll /\ At(p) = "notify"
     /\ trigger_all({some, "POLLINOUT"} \cup IF loc[p].saw THEN {whole} ELSE {})

\* What a step of a send tells, if no send fails.
LEMMA SendTells ==
  ASSUME Base, NEW s \in Sender, SendCall(s), SendErrors = {}, At(s) # "return"
  PROVE  /\ rec'.mask = rec.mask /\ UNCHANGED leaked /\ loc'[s].at # "return"
         /\ available_blocks' <= available_blocks
         /\ Tells(s, "POLLIN", "POLLFULL", available_msgs, available_msgs')
<1>0. /\ s \in Process /\ TypeLoc /\ Fits /\ available_blocks \in Nat /\ available_msgs \in Nat
      /\ rec \in [mask : Masks \cup {"none"},
                  triggered_since_last_recv : BOOLEAN, triggered_since_last_send : BOOLEAN]
  BY DEF Process, Base, PlaceInv, TypeOK
<1> DEFINE P == /\ rec'.mask = rec.mask /\ UNCHANGED leaked /\ loc'[s].at # "return"
                /\ available_blocks' <= available_blocks
                /\ Tells(s, "POLLIN", "POLLFULL", available_msgs, available_msgs')
<1>1. ASSUME At(s) \notin Notifying, UNCHANGED <<poll, events, leaked, available_msgs>>,
             available_blocks' <= available_blocks,
             NEW to, NEW c, NEW n, Moves(s, to, c, n), "return" \notin to
      PROVE  P
  BY <1>0, <1>1 DEF Tells, Moves, events
<1>2. CASE send_start(s)
  <2>1. Moves(s, {"try"}, Nobody, loc[s].msg + 1)
    BY <1>0, <1>2 DEF send_start, Calling, Moves, TypeLoc, LocalOf, Local, Locations, Fits
  <2> QED
    BY <1>0, <1>1, <1>2, <2>1 DEF send_start, usage, order, history, Notifying
<1>3. CASE send_try(s)
  <2>1. \E l \in {"idle", "check", "take"} : \E c, n : Moves(s, {l}, c, n)
    BY <1>0, <1>3, AgainMoves, GotoMoves DEF send_try, Locations
  <2> QED
    BY <1>0, <1>1, <1>3, <2>1 DEF send_try, usage, order, history, Notifying
<1>4. CASE send_check(s)
  <2>1. \E l \in {"blocked", "take"} : Moves(s, {l}, loc[s].blk, loc[s].msg)
    BY <1>0, <1>4, GotoMoves DEF send_check, Locations
  <2> QED
    BY <1>0, <1>1, <1>4, <2>1 DEF send_check, usage, order, history, Notifying
<1>5. CASE timeout(s)
  <2>1. \E n : Moves(s, {"idle"}, Nobody, n)
    BY <1>0, <1>5, ReturnMoves DEF timeout
  <2> QED
    BY <1>0, <1>1, <1>5, <2>1 DEF timeout, usage, order, history, Notifying
<1>6. CASE send_take(s)
  <2>1. \E l \in {"idle", "check", "wake"} : \E c, n : Moves(s, {l}, c, n)
    <3>1. CASE again(s)
      BY <1>0, <3>1, AgainMoves
    <3>2. ASSUME NEW b \in ut, loc' = [loc EXCEPT ![s].at = "wake", ![s].blk = b]
          PROVE  Moves(s, {"wake"}, b, loc[s].msg)
      BY <1>0, <3>2, BlockTypes, TakeMoves DEF Base, PlaceInv
    <3> QED
      BY <1>6, <3>1, <3>2 DEF send_take
  <2> QED
    BY <1>0, <1>1, <1>6, <2>1 DEF send_take, order, history, Notifying
<1>7. CASE send_wake(s)
  <2>1. At(s) = "wake" /\ \E c, n : Moves(s, {"copy"}, c, n)
    <3> DEFINE e == [loc[s] EXCEPT !.at = "copy"]
    <3>1. At(s) = "wake" /\ e \in LocalOf(s) /\ e.at = "copy"
      BY <1>0, <1>7 DEF send_wake, TypeLoc, LocalOf, Local, Locations
    <3>2. trigger_one(Sender, [loc EXCEPT ![s] = e]) \/ loc' = [loc EXCEPT ![s] = e]
      BY <1>7 DEF send_wake
    <3> HIDE DEF e
    <3>3. loc' = [loc EXCEPT ![s] = e] => Moves(s, {"copy"}, e.blk, e.msg)
      BY <1>0, <3>1 DEF Moves, TypeLoc
    <3>4. trigger_one(Sender, [loc EXCEPT ![s] = e]) => Moves(s, {"copy"}, e.blk, e.msg)
      BY <1>0, <3>1, TriggerMoves DEF Process
    <3> QED
      BY <3>1, <3>2, <3>3, <3>4
  <2> QED
    BY <1>0, <1>1, <1>7, <2>1 DEF send_wake, usage, order, history, Notifying
<1>8. CASE send_copy(s)
  <2>1. Goto(s, "post") /\ UNCHANGED leaked
    BY <1>8 DEF send_copy
  <2>2. Moves(s, {"post"}, loc[s].blk, loc[s].msg)
    BY <1>0, <2>1, GotoMoves DEF Locations
  <2> QED
    BY <1>0, <1>1, <1>8, <2>1, <2>2 DEF send_copy, usage, order, history, Notifying
<1>9. CASE send_post(s)
  <2>1. /\ UNCHANGED <<available_blocks, poll, rec, set_poll, leaked>>
        /\ available_msgs' = available_msgs + 1
        /\ trigger_one(Receiver, [loc EXCEPT ![s] = Posted(s, available_msgs)])
        /\ At(s) = "post"
    BY <1>9 DEF send_post, usage, events, history, Posted
  <2>2. loc'[s] = Posted(s, available_msgs)
    <3> DEFINE e == Posted(s, available_msgs)
    <3>1. e \in LocalOf(s) /\ trigger_one(Receiver, [loc EXCEPT ![s] = e])
      BY <1>0, <2>1, PostedTyped
    <3> HIDE DEF e
    <3>2. loc'[s] = e
      BY <1>0, <2>1, <3>1, TriggerMoves DEF Process
    <3> QED
      BY <3>2 DEF e
  <2>3. loc'[s].at = "event" /\ loc'[s].saw = fills_table(available_msgs)
    BY <1>0, <2>2, PostedTyped
  <2> QED
    BY <1>0, <2>1, <2>3 DEF Tells
<1>10. CASE send_event(s)
  <2>1. Moves(s, {"flag"}, loc[s].blk, loc[s].msg) /\ loc'[s].saw = loc[s].saw
    BY <1>0, <1>10, EventMoves DEF send_event
  <2>2. loc'[s].at = "flag"
    BY <2>1 DEF Moves
  <2>3. /\ UNCHANGED <<available_blocks, available_msgs, poll, rec, leaked>>
        /\ At(s) = "event" /\ set_poll' \in {set_poll, "idle"}
        /\ rec.mask = "POLLFULL" /\ loc[s].saw => set_poll' = "idle"
    BY <1>10 DEF send_event, notify_set, usage, order, history
  <2> QED
    BY <1>0, <2>1, <2>2, <2>3 DEF Tells
<1>11. CASE send_flag(s)
  <2>1. Moves(s, {"notify"}, loc[s].blk, loc[s].msg) /\ loc'[s].saw = loc[s].saw
    BY <1>0, <1>11, FlagMoves DEF send_flag
  <2>2. loc'[s].at = "notify"
    BY <2>1 DEF Moves
  <2>3. /\ UNCHANGED <<available_blocks, available_msgs, poll, set_poll, leaked>>
        /\ At(s) = "flag" /\ rec'.mask = rec.mask
    BY <1>0, <1>11 DEF send_flag, usage, history
  <2> QED
    BY <1>0, <2>1, <2>2, <2>3 DEF Tells
<1>12. CASE send_notify(s)
  <2>1. Moves(s, {"idle"}, Nobody, loc[s].msg)
    BY <1>0, <1>12, ReturnMoves DEF send_notify
  <2>2. loc'[s].at = "idle"
    BY <2>1 DEF Moves
  <2>3. /\ UNCHANGED <<available_blocks, available_msgs, rec, set_poll, leaked>>
        /\ At(s) = "notify" /\ trigger_all(SendEvents(s))
    BY <1>12 DEF send_notify, usage, order, events, history
  <2> QED
    BY <1>0, <2>2, <2>3 DEF Tells, SendEvents
<1> QED
  BY <1>2, <1>3, <1>4, <1>5, <1>6, <1>7, <1>8, <1>9, <1>10, <1>11, <1>12
     DEF SendCall, SendStep, _return_msgblk_to_ut

\* What a step of a receive tells.
LEMMA ReceiveTells ==
  ASSUME Base, NEW r \in Receiver, RecvCall(r), "lose" \notin RecvErrors
  PROVE  /\ rec'.mask = rec.mask /\ UNCHANGED leaked
         /\ available_msgs' <= available_msgs
         /\ Tells(r, "POLLOUT", "POLLEMPTY", available_blocks, available_blocks')
<1>0. /\ r \in Process \ Sender /\ TypeLoc /\ Fits
      /\ available_blocks \in Nat /\ available_msgs \in Nat
      /\ rec \in [mask : Masks \cup {"none"},
                  triggered_since_last_recv : BOOLEAN, triggered_since_last_send : BOOLEAN]
  BY DEF Process, Base, PlaceInv, TypeOK, Fits
<1> DEFINE P == /\ rec'.mask = rec.mask /\ UNCHANGED leaked
                /\ available_msgs' <= available_msgs
                /\ Tells(r, "POLLOUT", "POLLEMPTY", available_blocks, available_blocks')
<1>1. ASSUME At(r) \notin Notifying, UNCHANGED <<poll, events, leaked, available_blocks>>,
             available_msgs' <= available_msgs
      PROVE  P
  BY <1>0, <1>1 DEF Tells, events
<1> HIDE DEF P
<1>2. CASE get_start(r) \/ pop_start(r) \/ get_try(r) \/ get_check(r) \/ timeout(r) \/ get_wake(r)
  BY <1>0, <1>1, <1>2 DEF get_start, pop_start, get_try, get_check, timeout, get_wake,
                          usage, order, history, Notifying, P
<1>3. CASE get_take(r)
  BY <1>0, <1>1, <1>3 DEF get_take, usage, Notifying, P
<1>4. CASE get_copy(r)
  BY <1>0, <1>1, <1>4 DEF get_copy, usage, order, Notifying, P
<1>5. CASE _release_message_block(r)
  <2>1. /\ UNCHANGED <<available_msgs, poll, rec, set_poll, leaked>>
        /\ available_blocks' = available_blocks + 1
        /\ trigger_one(Sender, [loc EXCEPT ![r] = Released(r, available_blocks)])
        /\ At(r) = "release"
    BY <1>5 DEF _release_message_block, insert_ut, order, events, history, Released
  <2>2. loc'[r] = Released(r, available_blocks)
    <3> DEFINE e == Released(r, available_blocks)
    <3>1. e \in LocalOf(r) /\ trigger_one(Sender, [loc EXCEPT ![r] = e])
      BY <1>0, <2>1, ReleasedTyped
    <3> HIDE DEF e
    <3>2. loc'[r] = e
      BY <1>0, <2>1, <3>1, TriggerMoves DEF Process
    <3> QED
      BY <3>2 DEF e
  <2>3. loc'[r].at = "event" /\ loc'[r].saw = fills_table(available_blocks)
    BY <1>0, <2>2, ReleasedTyped
  <2> QED
    BY <1>0, <2>1, <2>3 DEF P, Tells
<1>6. CASE release_event(r)
  <2>1. Moves(r, {"flag"}, loc[r].blk, loc[r].msg) /\ loc'[r].saw = loc[r].saw
    BY <1>0, <1>6, EventMoves DEF release_event
  <2>2. loc'[r].at = "flag"
    BY <2>1 DEF Moves
  <2>3. /\ UNCHANGED <<available_blocks, available_msgs, poll, rec, leaked>>
        /\ At(r) = "event" /\ set_poll' \in {set_poll, "idle"}
        /\ rec.mask = "POLLEMPTY" /\ loc[r].saw => set_poll' = "idle"
    BY <1>6 DEF release_event, notify_set, usage, order, history
  <2> QED
    BY <1>0, <2>1, <2>2, <2>3 DEF P, Tells
<1>7. CASE release_flag(r)
  <2>1. Moves(r, {"notify"}, loc[r].blk, loc[r].msg) /\ loc'[r].saw = loc[r].saw
    BY <1>0, <1>7, FlagMoves DEF release_flag
  <2>2. loc'[r].at = "notify"
    BY <2>1 DEF Moves
  <2>3. /\ UNCHANGED <<available_blocks, available_msgs, poll, set_poll, leaked>>
        /\ At(r) = "flag" /\ rec'.mask = rec.mask
    BY <1>0, <1>7 DEF release_flag, order, history
  <2> QED
    BY <1>0, <2>1, <2>2, <2>3 DEF P, Tells
<1>8. CASE release_notify(r)
  <2>1. /\ UNCHANGED <<available_blocks, available_msgs, rec, set_poll, leaked>>
        /\ At(r) = "notify" /\ trigger_all(ReleaseEvents(r))
    BY <1>8 DEF release_notify, usage, order, events, history
  <2> QED
    BY <1>0, <2>1 DEF P, Tells, ReleaseEvents
<1> QED
  BY <1>2, <1>3, <1>4, <1>5, <1>6, <1>7, <1>8 DEF P, RecvCall, RecvStep

\* Served and SetServed after a step, for the counter k it leaves.
ServedNext(ps, some, whole, k) ==
  \A q \in Poller :
    /\ poll'[q] \in {some, "POLLINOUT"} => k = 0 \/ \E p \in ps : loc'[p].at \in Notifying
    /\ poll'[q] = whole => k < Capacity \/ \E p \in ps : loc'[p].at \in Notifying /\ loc'[p].saw

SetServedNext(ps, whole, k) ==
  rec'.mask = whole => k < Capacity \/ \E p \in ps : loc'[p].at = "event" /\ loc'[p].saw

\* What a step of p tells keeps those served who wait for what its side counts.
LEMMA OwnServed ==
  ASSUME Base, NEW ps \in SUBSET Process, NEW p \in ps, NEW to, NEW c, NEW m, Moves(p, to, c, m),
         NEW some, NEW whole, whole \notin {some, "POLLINOUT", "idle"}, some # "idle",
         NEW n \in Nat, NEW k \in Nat, k <= Capacity, Tells(p, some, whole, n, k),
         rec'.mask = rec.mask
  PROVE  /\ Served(ps, some, whole, n) => ServedNext(ps, some, whole, k)
         /\ (set_poll = "waiting" => SetServed(ps, whole, n)) =>
              (set_poll' = "waiting" => SetServedNext(ps, whole, k))
<1>0. /\ \A x \in ps \ {p} : At(x) \in Notifying => loc'[x] = loc[x]
      /\ Capacity \in Nat
  BY ChannelAssumption, FS_CardinalityType DEF Moves, Woke, Notifying, Capacity
<1>1. CASE /\ k <= n /\ UNCHANGED <<poll, set_poll>> /\ At(p) \notin Notifying
  BY <1>0, <1>1 DEF Served, SetServed, ServedNext, SetServedNext, Notifying, At
<1>2. CASE /\ k <= n /\ UNCHANGED <<poll, set_poll>>
           /\ At(p) = "flag" /\ loc'[p].at = "notify" /\ loc'[p].saw = loc[p].saw
  BY <1>0, <1>2 DEF Served, SetServed, ServedNext, SetServedNext, Notifying, At
<1>3. CASE /\ k = n + 1 /\ UNCHANGED <<poll, set_poll>>
           /\ loc'[p].at = "event" /\ loc'[p].saw = fills_table(n)
  <2>1. k < Capacity \/ loc'[p].saw
    <3>1. CASE n + 1 = Capacity
      <4>1. fills_table(n)
        BY <3>1 DEF fills_table
      <4> QED
        BY <1>3, <4>1
    <3>2. CASE n + 1 # Capacity
      BY <1>0, <1>3, <3>2
    <3> QED
      BY <3>1, <3>2
  <2> QED
    BY <1>3, <2>1 DEF ServedNext, SetServedNext, Notifying
<1>4. CASE /\ k = n /\ UNCHANGED poll /\ set_poll' \in {set_poll, "idle"}
           /\ At(p) = "event" /\ loc'[p].at = "flag" /\ loc'[p].saw = loc[p].saw
           /\ rec.mask = whole /\ loc[p].saw => set_poll' = "idle"
  <2>1. Served(ps, some, whole, n) => ServedNext(ps, some, whole, k)
    BY <1>0, <1>4 DEF Served, ServedNext, Notifying, At
  <2>2. (set_poll = "waiting" => SetServed(ps, whole, n)) =>
           (set_poll' = "waiting" => SetServedNext(ps, whole, k))
    BY <1>0, <1>4 DEF SetServed, SetServedNext, Notifying, At
  <2> QED
    BY <2>1, <2>2
<1>5. CASE /\ k = n /\ UNCHANGED set_poll /\ At(p) = "notify"
           /\ trigger_all({some, "POLLINOUT"} \cup IF loc[p].saw THEN {whole} ELSE {})
  <2>1. \A q \in Poller : /\ poll'[q] \notin {some, "POLLINOUT"}
                          /\ poll'[q] = whole => poll[q] = whole /\ ~loc[p].saw
    BY <1>5 DEF trigger_all
  <2>2. Served(ps, some, whole, n) => ServedNext(ps, some, whole, k)
    BY <1>0, <1>5, <2>1 DEF Served, ServedNext, Notifying, At
  <2>3. (set_poll = "waiting" => SetServed(ps, whole, n)) =>
           (set_poll' = "waiting" => SetServedNext(ps, whole, k))
    BY <1>0, <1>5 DEF SetServed, SetServedNext, Notifying, At
  <2> QED
    BY <2>2, <2>3
<1> QED
  BY <1>1, <1>2, <1>3, <1>4, <1>5 DEF Tells

\* And nobody else's: p takes from what the processes ps of the other side count.
LEMMA OtherServed ==
  ASSUME Base, NEW ps \in SUBSET Process, NEW p \in Process \ ps,
         NEW to, NEW c, NEW m, Moves(p, to, c, m),
         NEW some, NEW whole, whole # "idle", some # "idle",
         NEW n \in Nat, NEW k \in Nat, k <= n,
         \A q \in Poller : poll'[q] \in {poll[q], "idle"},
         set_poll' \in {set_poll, "idle"}, rec'.mask = rec.mask
  PROVE  /\ Served(ps, some, whole, n) => ServedNext(ps, some, whole, k)
         /\ (set_poll = "waiting" => SetServed(ps, whole, n)) =>
              (set_poll' = "waiting" => SetServedNext(ps, whole, k))
<1>0. /\ \A x \in ps : At(x) \in Notifying => loc'[x] = loc[x]
      /\ Capacity \in Nat
  BY ChannelAssumption, FS_CardinalityType DEF Moves, Woke, Notifying, Capacity
<1>1. Served(ps, some, whole, n) => ServedNext(ps, some, whole, k)
  BY <1>0 DEF Served, ServedNext, At
<1>2. (set_poll = "waiting" => SetServed(ps, whole, n)) =>
        (set_poll' = "waiting" => SetServedNext(ps, whole, k))
  BY <1>0 DEF SetServed, SetServedNext, Notifying, At
<1> QED
  BY <1>1, <1>2

\* A step tells a poller to return, or nothing.
LEMMA TellsAll ==
  ASSUME Base, NEW p, NEW some, NEW whole, NEW n, NEW k, Tells(p, some, whole, n, k)
  PROVE  /\ \A q \in Poller : poll'[q] \in {poll[q], "idle"}
         /\ set_poll' \in {set_poll, "idle"}
BY DEF Tells, trigger_all

-----------------------------------------------------------------------------
(* Wake-ups and notifications                                              *)

\* What the counters tell of the channel.
LEMMA CountersTell ==
  ASSUME PlaceInv
  PROVE  /\ available_msgs # 0 => available_blocks < Capacity
         /\ available_blocks # 0 => available_msgs < Capacity
         /\ Quiet /\ leaked = {} /\ available_msgs = 0 => available_blocks = Capacity
         /\ Quiet /\ leaked = {} /\ available_blocks = 0 => available_msgs = Capacity
<1>0. /\ ut \subseteq Block /\ Queued \subseteq Block /\ IsFiniteSet(Block)
      /\ IsFiniteSet(ut) /\ IsFiniteSet(Queued) /\ Capacity \in Nat
      /\ available_blocks = Cardinality(ut) /\ available_msgs = Cardinality(Queued)
  <2>1. Fits /\ TypeOK
    BY UseFits DEF PlaceInv
  <2>2. ut \subseteq Block /\ Queued \subseteq Block
    BY <2>1, BlockTypes DEF Queued
  <2>3. available_blocks = Cardinality(ut) /\ available_msgs = Cardinality(Queued)
    BY PlacesCounted DEF BlocksConserved
  <2> QED
    BY <2>2, <2>3, ChannelAssumption, FS_Subset, FS_CardinalityType DEF Capacity
<1>1. ut \cap Queued = {}
  BY DEF PlaceInv, OnePlace, Queued
<1>2. available_msgs # 0 => Queued # {}
  BY <1>0, FS_EmptySet
<1>3. available_blocks # 0 => ut # {}
  BY <1>0, FS_EmptySet
<1>4. available_msgs # 0 => available_blocks < Capacity
  BY <1>0, <1>1, <1>2, FS_Subset, FS_CardinalityType DEF Capacity
<1>5. available_blocks # 0 => available_msgs < Capacity
  BY <1>0, <1>1, <1>3, FS_Subset, FS_CardinalityType DEF Capacity
<1>6. ASSUME Quiet, leaked = {} PROVE Block = ut \cup Queued
  <2>1. \A p \in Process : loc[p].blk = Nobody
    BY <1>6 DEF PlaceInv, HandsFull, Quiet, Process, Holding
  <2>2. Nobody \notin Block
    BY ChannelAssumption
  <2> QED
    BY <1>0, <1>6, <2>1, <2>2 DEF PlaceInv, SomePlace, Queued
<1>7. available_msgs = 0 => Queued = {}
  BY <1>0, FS_EmptySet
<1>8. available_blocks = 0 => ut = {}
  BY <1>0, FS_EmptySet
<1> QED
  BY <1>0, <1>4, <1>5, <1>6, <1>7, <1>8 DEF Capacity

\* A step loses no block, and gives none back in silence.
LEMMA StepGone ==
  ASSUME PlaceInv, [Next]_vars, NothingLost => NothingGone
  PROVE  (NothingLost => NothingGone)'
<1>0. Base
  BY NextCases, BaseFacts
<1> SUFFICES ASSUME NothingLost, NothingGone PROVE NothingGone'
  BY <1>0 DEF NothingLost, Base, Same
<1>1. /\ Sender' = Sender /\ Sender \subseteq Process
      /\ Receiver \subseteq Process /\ Sender \cap Receiver = {}
  BY <1>0 DEF Base, Same, Process, Fits
<1>2. CASE UNCHANGED <<leaked, loc>>
  BY <1>1, <1>2 DEF NothingGone, At
<1>3. ASSUME NEW s \in Sender, SendCall(s) PROVE NothingGone'
  <2>1. PICK to, c, n : Moves(s, to, c, n)
    BY <1>0, <1>3, SendSteps DEF SendsOn, Writes, Posts
  <2>2. UNCHANGED leaked /\ loc'[s].at # "return"
    BY <1>0, <1>3, SendTells DEF NothingLost, NothingGone
  <2> QED
    BY <1>1, <2>1, <2>2 DEF NothingGone, Moves, Woke, At
<1>4. ASSUME NEW r \in Receiver, RecvCall(r) PROVE NothingGone'
  <2>1. PICK to, c, n : Moves(r, to, c, n)
    BY <1>0, <1>4, ReceiveSteps DEF ReceivesOn, Pops, Releases
  <2>2. UNCHANGED leaked
    BY <1>0, <1>4, ReceiveTells DEF NothingLost
  <2> QED
    BY <1>1, <2>1, <2>2 DEF NothingGone, Moves, Woke, At
<1> QED
  BY <1>2, <1>3, <1>4, NextCases DEF vars, history

\* No sender sleeps while a block is free and no receiver while there is a message,
\* unless another of them is on its way.
THEOREM NobodySleeps == Spec => []BlockedWoken
<1>1. Init => WokenInv
  BY InitPlaced DEF Init, WokenInv, NothingGone, BlockedWoken, Stuck, At, NotCalling, Calling
<1>2. WokenInv /\ [Next]_vars => WokenInv'
  <2> SUFFICES ASSUME WokenInv, [Next]_vars, NoErrors PROVE BlockedWoken'
    BY StepPlaced, StepGone, NextCases, BaseFacts
       DEF WokenInv, BlockedWoken, Base, Same, NoErrors
  <2>1. Base /\ BlockedWoken /\ NothingGone
    BY NextCases, BaseFacts DEF WokenInv, NoErrors, NothingLost
  <2>2. Sender' = Sender /\ Receiver' = Receiver
    BY <2>1 DEF Base, Same
  <2>3. ASSUME Woken(Sender, available_blocks, available_blocks'),
               Woken(Receiver, available_msgs, available_msgs')
        PROVE  BlockedWoken'
    <3>1. Stuck(Sender)' => available_blocks' = 0
      BY <2>1, <2>2, <2>3 DEF Woken, Calmly, Roused, BlockedWoken, Stuck, At
    <3>2. Stuck(Receiver)' => available_msgs' = 0
      BY <2>1, <2>2, <2>3 DEF Woken, Calmly, Roused, BlockedWoken, Stuck, At
    <3> QED
      BY <3>1, <3>2 DEF BlockedWoken
  <2>4. CASE UNCHANGED <<available_blocks, available_msgs, loc>>
    BY <2>3, <2>4 DEF Woken, Calmly, At
  <2>5. ASSUME NEW s \in Sender, SendCall(s) PROVE BlockedWoken'
    BY <2>1, <2>3, <2>5, SendWakes DEF NothingGone
  <2>6. ASSUME NEW r \in Receiver, RecvCall(r) PROVE BlockedWoken'
    BY <2>1, <2>3, <2>6, ReceiveWakes DEF NoErrors
  <2> QED
    BY <2>4, <2>5, <2>6, NextCases DEF vars, usage, order
<1> QED
  BY <1>1, <1>2, PTL DEF Spec, WokenInv

\* A call keeps pollers and the channel set served.
LEMMA CallServes ==
  ASSUME PlaceInv, PlaceInv', Base, NothingLost, NothingGone, PollerServed, WatchServed,
         \/ \E s \in Sender : SendCall(s)
         \/ \E r \in Receiver : RecvCall(r)
  PROVE  PollerServed' /\ WatchServed'
<1>0. /\ Sender \in SUBSET Process /\ Receiver \in SUBSET Process /\ Sender \cap Receiver = {}
      /\ Sender' = Sender /\ Receiver' = Receiver /\ Poller' = Poller
      /\ available_blocks \in Nat /\ available_msgs \in Nat
      /\ available_blocks' \in Nat /\ available_msgs' \in Nat
      /\ available_blocks' <= Capacity /\ available_msgs' <= Capacity
  <2>1. Capacity \in Nat
    BY ChannelAssumption, FS_CardinalityType DEF Capacity
  <2>2. /\ available_blocks \in 0 .. Capacity /\ available_msgs \in 0 .. Capacity
        /\ available_blocks' \in 0 .. Capacity /\ available_msgs' \in 0 .. Capacity
    BY DEF PlaceInv, TypeOK, Capacity
  <2> QED
    BY <2>1, <2>2 DEF Base, Fits, Same, Process
<1>1. ASSUME ServedNext(Sender, "POLLIN", "POLLFULL", available_msgs'),
             ServedNext(Receiver, "POLLOUT", "POLLEMPTY", available_blocks'),
             set_poll' = "waiting" => SetServedNext(Sender, "POLLFULL", available_msgs'),
             set_poll' = "waiting" => SetServedNext(Receiver, "POLLEMPTY", available_blocks')
      PROVE  PollerServed' /\ WatchServed'
  BY <1>0, <1>1 DEF ServedNext, SetServedNext, PollerServed, WatchServed, Served, SetServed, At,
                    Capacity
<1>2. ASSUME NEW s \in Sender, SendCall(s) PROVE PollerServed' /\ WatchServed'
  <2>1. PICK to, c, n : Moves(s, to, c, n)
    BY <1>2, SendSteps DEF SendsOn, Writes, Posts
  <2>2. /\ rec'.mask = rec.mask /\ available_blocks' <= available_blocks
        /\ Tells(s, "POLLIN", "POLLFULL", available_msgs, available_msgs')
    BY <1>2, SendTells DEF NothingLost, NothingGone
  <2>3. /\ \A q \in Poller : poll'[q] \in {poll[q], "idle"}
        /\ set_poll' \in {set_poll, "idle"}
    BY <2>2, TellsAll
  <2>4. /\ ServedNext(Sender, "POLLIN", "POLLFULL", available_msgs')
        /\ set_poll' = "waiting" => SetServedNext(Sender, "POLLFULL", available_msgs')
    BY <1>0, <2>1, <2>2, OwnServed DEF PollerServed, WatchServed
  <2>5. /\ ServedNext(Receiver, "POLLOUT", "POLLEMPTY", available_blocks')
        /\ set_poll' = "waiting" => SetServedNext(Receiver, "POLLEMPTY", available_blocks')
    BY <1>0, <2>1, <2>2, <2>3, OtherServed DEF PollerServed, WatchServed
  <2> QED
    BY <1>1, <2>4, <2>5
<1>3. ASSUME NEW r \in Receiver, RecvCall(r) PROVE PollerServed' /\ WatchServed'
  <2>1. PICK to, c, n : Moves(r, to, c, n)
    BY <1>3, ReceiveSteps DEF ReceivesOn, Pops, Releases
  <2>2. /\ rec'.mask = rec.mask /\ available_msgs' <= available_msgs
        /\ Tells(r, "POLLOUT", "POLLEMPTY", available_blocks, available_blocks')
    BY <1>3, ReceiveTells DEF NothingLost
  <2>3. /\ \A q \in Poller : poll'[q] \in {poll[q], "idle"}
        /\ set_poll' \in {set_poll, "idle"}
    BY <2>2, TellsAll
  <2>4. /\ ServedNext(Receiver, "POLLOUT", "POLLEMPTY", available_blocks')
        /\ set_poll' = "waiting" => SetServedNext(Receiver, "POLLEMPTY", available_blocks')
    BY <1>0, <2>1, <2>2, OwnServed DEF PollerServed, WatchServed
  <2>5. /\ ServedNext(Sender, "POLLIN", "POLLFULL", available_msgs')
        /\ set_poll' = "waiting" => SetServedNext(Sender, "POLLFULL", available_msgs')
    BY <1>0, <2>1, <2>2, <2>3, OtherServed DEF PollerServed, WatchServed
  <2> QED
    BY <1>1, <2>4, <2>5
<1> QED
  BY <1>2, <1>3

\* So does a poll, which waits only if its event is not there.
LEMMA PollServes ==
  ASSUME PlaceInv, Base, PollerServed, WatchServed,
         PollStep, UNCHANGED <<usage, order, content, loc, history>>
  PROVE  PollerServed' /\ WatchServed'
<1>0. /\ UNCHANGED <<available_blocks, available_msgs, loc>>
      /\ Sender' = Sender /\ Receiver' = Receiver /\ Poller' = Poller /\ Capacity' = Capacity
  BY DEF usage, order, Base, Same, Capacity
<1>1. /\ available_msgs # 0 => available_blocks < Capacity
      /\ available_blocks # 0 => available_msgs < Capacity
  BY CountersTell
<1>2. CASE UNCHANGED poll
  <2>1. PollerServed'
    BY <1>0, <1>2 DEF PollerServed, Served, At
  <2>2. WatchServed'
    <3>1. CASE set_poll' = "idle"
      BY <3>1 DEF WatchServed
    <3>2. CASE set_poll' = set_poll /\ rec' = rec
      BY <1>0, <3>2 DEF WatchServed, SetServed, At
    <3>3. CASE channelset_wait
      <4>1. rec' = rec /\ (set_poll' = "waiting" => ~Satisfied(rec.mask))
        BY <3>3 DEF channelset_wait
      <4> QED
        BY <1>0, <1>1, <4>1 DEF WatchServed, SetServed, Satisfied, At
    <3> QED
      BY <3>1, <3>2, <3>3 DEF PollStep, dragon_channel_poll, poll_timeout, events,
           dragon_channelset_poll, channelset_timeout, _channelset_sync, change_event_bcast
  <2> QED
    BY <2>1, <2>2
<1>3. ASSUME NEW q \in Poller, dragon_channel_poll(q) \/ poll_timeout(q)
      PROVE  PollerServed' /\ WatchServed'
  <2>0. poll \in [Poller -> PollMasks \cup {"idle"}]
    BY DEF PlaceInv, TypeOK
  <2>1. /\ UNCHANGED <<rec, set_poll>>
        /\ \E m : poll' = [poll EXCEPT ![q] = m] /\ (m = "idle" \/ ~Satisfied(m))
    BY <1>3 DEF dragon_channel_poll, poll_timeout, events
  <2>2. PICK m : poll' = [poll EXCEPT ![q] = m] /\ (m = "idle" \/ ~Satisfied(m))
    BY <2>1
  <2>3. \A x \in Poller \ {q} : poll'[x] = poll[x]
    BY <2>0, <2>2
  <2>4. poll'[q] = m
    BY <2>0, <2>2
  <2>5. PollerServed'
    BY <1>0, <1>1, <2>2, <2>3, <2>4 DEF PollerServed, Served, Satisfied, At
  <2>6. WatchServed'
    BY <1>0, <2>1 DEF WatchServed, SetServed, At
  <2> QED
    BY <2>5, <2>6
<1> QED
  BY <1>2, <1>3 DEF PollStep, dragon_channelset_poll, channelset_wait, channelset_timeout,
                    _channelset_sync, change_event_bcast

\* Everybody who waits for an event is served, if no block is lost.
LEMMA AllServed == Spec => []NotifyInv
<1>1. Init => NotifyInv
  BY InitPlaced DEF Init, NotifyInv, NothingGone, PollerServed, Served, WatchServed, At,
                    NotCalling, Calling
<1>2. NotifyInv /\ [Next]_vars => NotifyInv'
  <2> SUFFICES ASSUME NotifyInv, [Next]_vars, NothingLost
               PROVE  PollerServed' /\ WatchServed'
    BY StepPlaced, StepGone, NextCases, BaseFacts DEF NotifyInv, Base, Same, NothingLost
  <2>1. Base /\ PlaceInv /\ PlaceInv' /\ NothingGone /\ PollerServed /\ WatchServed
    BY StepPlaced, NextCases, BaseFacts DEF NotifyInv
  <2>2. CASE UNCHANGED vars
    BY <2>1, <2>2 DEF vars, usage, order, events, Base, Same, PollerServed, Served,
                      WatchServed, SetServed, At, Capacity
  <2> QED
    BY <2>1, <2>2, NextCases, CallServes, PollServes
<1> QED
  BY <1>1, <1>2, PTL DEF Spec

\* When no send or receive is under way, no poller waits for what is there.
THEOREM PollersWoken == Spec => []PollerWoken
<1>1. NotifyInv => PollerWoken
  <2> SUFFICES ASSUME NotifyInv, NothingLost, Quiet, NEW q \in Poller PROVE ~Satisfied(poll[q])
    BY DEF PollerWoken
  <2>1. \A p \in Process : At(p) \notin Notifying
    BY DEF Quiet, Process, Notifying
  <2>2. /\ available_msgs = 0 => available_blocks = Capacity
        /\ available_blocks = 0 => available_msgs = Capacity
    BY CountersTell DEF NotifyInv, NothingGone
  <2>3. /\ poll[q] \in {"POLLIN", "POLLINOUT"} => available_msgs = 0
        /\ poll[q] \in {"POLLOUT", "POLLINOUT"} => available_blocks = 0
        /\ poll[q] = "POLLEMPTY" => available_blocks < Capacity
        /\ poll[q] = "POLLFULL" => available_msgs < Capacity
    BY <2>1 DEF NotifyInv, PollerServed, Served, Process
  <2>4. Capacity \in Nat
    BY ChannelAssumption, FS_CardinalityType DEF Capacity
  <2> QED
    BY <2>2, <2>3, <2>4 DEF Satisfied
<1> QED
  BY <1>1, AllServed, PTL

\* Nor does a channel set that watches for the channel to be full or empty.
THEOREM SetsWoken == Spec => []SetWoken
<1>1. NotifyInv => SetWoken
  <2> SUFFICES ASSUME NotifyInv, NothingLost, Quiet, set_poll = "waiting",
                      rec.mask \in {"POLLFULL", "POLLEMPTY"}
               PROVE  ~Satisfied(rec.mask)
    BY DEF SetWoken
  <2>1. \A p \in Process : At(p) # "event"
    BY DEF Quiet, Process
  <2>2. /\ available_msgs = 0 => available_blocks = Capacity
        /\ available_blocks = 0 => available_msgs = Capacity
    BY CountersTell DEF NotifyInv, NothingGone
  <2>3. /\ rec.mask = "POLLEMPTY" => available_blocks < Capacity
        /\ rec.mask = "POLLFULL" => available_msgs < Capacity
    BY <2>1 DEF NotifyInv, WatchServed, SetServed, Process
  <2>4. Capacity \in Nat
    BY ChannelAssumption, FS_CardinalityType DEF Capacity
  <2> QED
    BY <2>2, <2>3, <2>4 DEF Satisfied
<1> QED
  BY <1>1, AllServed, PTL
=============================================================================
