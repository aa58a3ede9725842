------------------------------- MODULE Channel -------------------------------
(***************************************************************************)
(* A channel of src/lib/channels.c on one node: senders, receivers, pollers *)
(* and one channel set that watches it.                                     *)
(*                                                                         *)
(* A message block is free (in the usage table, ut), holds a message (in   *)
(* the ordering table, ot), or is in the hands of a call.  The tables have *)
(* a lock each, and a counter that is also read without it.  What a call   *)
(* does under one lock is one step, except that the records of channel     *)
(* sets are used under either lock, and so in steps of their own.          *)
(*                                                                         *)
(* The broadcast objects of the channel are what BCast promises: a trigger *)
(* releases one, or all, of the processes that wait at that moment.        *)
(***************************************************************************)
EXTENDS Integers, Sequences, FiniteSets

CONSTANTS
  Block,
  Nobody,       \* not a process, nor a block
  Uses          \* the uses checked: records with the fields below

VARIABLE use    \* the use this behaviour is an instance of: never changes

Sender == use.sender
Receiver == use.receiver
Poller == use.poller
MaxSends == use.sends            \* bound: the messages of a sender
Kinds == use.kinds               \* the timeouts: "nowait", "timed", "forever"
PollMasks == use.poll_masks      \* the events polled for
SetMasks == use.set_masks        \* the events the channel set may watch
SendErrors == use.send_errors    \* errors of a send that has a block: "fail", "leak"
RecvErrors == use.recv_errors    \* errors of a receive: "refuse", "lose", "discard"

Masks == {"POLLIN", "POLLOUT", "POLLINOUT", "POLLEMPTY", "POLLFULL"}
Capacity == Cardinality(Block)

ASSUME ChannelAssumption ==
  /\ IsFiniteSet(Block) /\ Nobody \notin Block
  /\ \A u \in Uses :
       /\ u.sends \in Nat
       /\ u.sender \cap u.receiver = {} /\ Nobody \notin u.sender \cup u.receiver
       /\ u.poll_masks \subseteq Masks /\ u.set_masks \subseteq Masks
       /\ u.kinds \subseteq {"nowait", "timed", "forever"}

VARIABLES
  ut, available_blocks, ut_lock,
  ot, available_msgs, ot_lock,
  content,   \* content[b]: the message written into block b
  rec,       \* the event record of the channel set; mask "none": there is none
  set_poll,  \* its poller: "idle", "waiting", or "late": the event came before the wait
  set_sync,  \* the thread its first poll starts: "none", "started", "found", "over"
  poll,      \* poll[q]: "idle", or the event q waits for
  loc,       \* loc[p]: where sender or receiver p is, and its local variables
  received,  \* history: the messages that left the channel
  leaked     \* history: the blocks that no call gives back

usage == <<ut, available_blocks, ut_lock>>
order == <<ot, available_msgs, ot_lock>>
events == <<rec, set_poll, set_sync>>
history == <<received, leaked>>
vars == <<use, usage, order, content, events, poll, loc, history>>

Message == Sender \X (1 .. MaxSends)
Locations == {"idle", "try", "take", "check", "blocked", "wake", "copy", "return",
              "post", "release", "event", "flag", "notify"}

\* spin: still in the attempts made before the call blocks.  msg: the number of
\* the message sent, or the message received.  saw: the channel was full, or empty.
\* hit: the channel set was notified.
Calling(at, kind, msg) == [at |-> at, kind |-> kind, spin |-> TRUE, blk |-> Nobody,
                           msg |-> msg, saw |-> FALSE, hit |-> FALSE]
NotCalling(msg) == Calling("idle", "nowait", msg)

At(p) == loc[p].at
Goto(p, l) == loc' = [loc EXCEPT ![p].at = l]
Return(p) == loc' = [loc EXCEPT ![p] = NotCalling(IF p \in Sender THEN @.msg ELSE Nobody)]

Local(msgs) == [at : Locations, kind : {"nowait", "timed", "forever"}, spin : BOOLEAN,
                blk : Block \cup {Nobody}, msg : msgs, saw : BOOLEAN, hit : BOOLEAN]

TypeOK ==
  /\ ut \subseteq Block /\ available_blocks \in 0 .. Capacity
  /\ ot \in Seq([blk : Block, msg : Message]) /\ available_msgs \in 0 .. Capacity
  /\ ut_lock \in Receiver \cup {Nobody} /\ ot_lock \in Sender \cup {Nobody}
  /\ content \in [Block -> Message \cup {Nobody}]
  /\ rec \in [mask : Masks \cup {"none"},
              triggered_since_last_recv : BOOLEAN, triggered_since_last_send : BOOLEAN]
  /\ set_poll \in {"idle", "waiting", "late"}
  /\ set_sync \in {"none", "started", "found", "over"}
  /\ poll \in [Poller -> PollMasks \cup {"idle"}]
  /\ DOMAIN loc = Sender \cup Receiver
  /\ \A s \in Sender : loc[s] \in Local(0 .. MaxSends)
  /\ \A r \in Receiver : loc[r] \in Local(Message \cup {Nobody})
  /\ received \subseteq Message /\ leaked \subseteq Block

EventRecord(m) == [mask |-> m, triggered_since_last_recv |-> FALSE,
                   triggered_since_last_send |-> FALSE]

Init ==
  /\ use \in Uses
  /\ ut = Block /\ available_blocks = Capacity /\ ut_lock = Nobody
  /\ ot = <<>> /\ available_msgs = 0 /\ ot_lock = Nobody
  /\ content = [b \in Block |-> Nobody]
  /\ rec = EventRecord("none") /\ set_poll = "idle" /\ set_sync = "none"
  /\ poll = [q \in Poller |-> "idle"]
  /\ loc = [p \in Sender \cup Receiver |-> NotCalling(IF p \in Sender THEN 0 ELSE Nobody)]
  /\ received = {} /\ leaked = {}

-----------------------------------------------------------------------------
(* Broadcast objects                                                       *)

\* Mutant: nobody is released.
trigger_one_lost(ps, l) == loc' = l

\* One of the processes ps that are blocked goes on, if there is one.  l: the other
\* changes to loc.
trigger_one(ps, l) ==
  LET blocked == {x \in ps : At(x) = "blocked"} IN
  IF blocked = {} THEN loc' = l
  ELSE \E x \in blocked : loc' = [l EXCEPT ![x].at = "take"]

trigger_all(masks) ==
  poll' = [q \in Poller |-> IF poll[q] \in masks THEN "idle" ELSE poll[q]]

-----------------------------------------------------------------------------
(* dragon_chsend_send_msg and _send_msg                                    *)

\* The channel was full, or empty: a call that may wait goes on to do so.
again(p) ==
  IF loc[p].kind = "nowait" THEN Return(p)
  ELSE loc' = [loc EXCEPT ![p].at = "check", ![p].spin = FALSE]

send_start(s) ==
  /\ At(s) = "idle" /\ loc[s].msg < MaxSends
  /\ \E k \in Kinds :
       loc' = [loc EXCEPT ![s] = Calling("try", k, @.msg + 1)]
  /\ UNCHANGED <<usage, order, content, events, poll, history>>

\* The look at available_blocks without the lock.  Attempts that find the channel
\* full change nothing: one stands for all DRAGON_CHANNEL_PRE_SPINS.
send_try(s) ==
  /\ At(s) = "try"
  /\ IF available_blocks = 0 THEN again(s) ELSE Goto(s, "take")
  /\ UNCHANGED <<usage, order, content, events, poll, history>>

\* Waiting begins under the UT lock, which the wait releases.
send_check(s) ==
  /\ At(s) = "check" /\ ut_lock = Nobody
  /\ Goto(s, IF available_blocks = 0 THEN "blocked" ELSE "take")
  /\ UNCHANGED <<usage, order, content, events, poll, history>>

timeout(p) ==
  /\ At(p) \in {"check", "blocked"} /\ loc[p].kind = "timed"
  /\ Return(p)
  /\ UNCHANGED <<usage, order, content, events, poll, history>>

send_take(s) ==
  /\ At(s) = "take" /\ ut_lock = Nobody
  /\ \/ /\ ut = {}
        /\ available_blocks' = 0
        /\ again(s)
        /\ UNCHANGED ut
     \/ \E b \in ut :
        /\ ut' = ut \ {b}
        /\ available_blocks' = available_blocks - 1
        /\ loc' = [loc EXCEPT ![s].at = "wake", ![s].blk = b]
  /\ UNCHANGED <<ut_lock, order, content, events, poll, history>>

\* available_blocks is read without the lock.
send_wake(s) ==
  LET next == [loc EXCEPT ![s].at = "copy"] IN
  /\ At(s) = "wake"
  /\ IF available_blocks > 0 THEN trigger_one(Sender, next) ELSE loc' = next
  /\ UNCHANGED <<usage, order, content, events, poll, history>>

\* Mutant: the error is overlooked.
send_fail_posts == "post"

send_fail == "return"

\* The payload, or a descriptor of the memory it is in, is written into the block.
send_copy(s) ==
  LET b == loc[s].blk IN
  /\ At(s) = "copy"
  /\ \/ /\ content' = [content EXCEPT ![b] = <<s, loc[s].msg>>]
        /\ Goto(s, "post")
        /\ UNCHANGED leaked
     \/ /\ "fail" \in SendErrors
        /\ Goto(s, send_fail)
        /\ UNCHANGED <<content, leaked>>
     \/ /\ "leak" \in SendErrors
        /\ leaked' = leaked \cup {b}
        /\ Return(s)
        /\ UNCHANGED content
  /\ UNCHANGED <<usage, order, events, poll, received>>

\* Mutant: the block is not counted.
insert_ut_uncounted(b) == ut' = ut \cup {b} /\ UNCHANGED available_blocks

insert_ut(b) == ut' = ut \cup {b} /\ available_blocks' = available_blocks + 1

\* An attempt made before the call blocks found no memory: there is another attempt,
\* or, after the last, the call goes on as if the channel had been full, or empty.
attempt_again(p) ==
  /\ loc[p].spin
  /\ \E last \in BOOLEAN :
       /\ last => loc[p].kind # "nowait"
       /\ loc' = [loc EXCEPT ![p] = [@ EXCEPT !.at = IF last THEN "check" ELSE "try",
                                            !.spin = ~last, !.blk = Nobody, !.saw = FALSE]]

\* ch_send_fail.
_return_msgblk_to_ut(s) ==
  /\ At(s) = "return" /\ ut_lock = Nobody
  /\ insert_ut(loc[s].blk)
  /\ Return(s) \/ attempt_again(s)
  /\ UNCHANGED <<ut_lock, order, content, events, poll, history>>

\* Mutant: the count from before the insertion is compared.
fills_table_stale(n) == n = Capacity

\* With one more item than n the table is full: of messages, so that the channel is
\* full, or of blocks, so that it is empty.
fills_table(n) == n + 1 = Capacity

\* Mutant: the last message is the first to leave.
insert_ot_first(item) == <<item>> \o ot

\* The ordering table is a priority heap, in which a message inserted later has the
\* larger priority value and leaves later.
insert_ot(item) == Append(ot, item)

send_post(s) ==
  /\ At(s) = "post" /\ ot_lock = Nobody
  /\ ot_lock' = s
  /\ ot' = insert_ot([blk |-> loc[s].blk, msg |-> <<s, loc[s].msg>>])
  /\ available_msgs' = available_msgs + 1
  /\ trigger_one(Receiver, [loc EXCEPT ![s].at = "event", ![s].blk = Nobody,
                                       ![s].saw = fills_table(available_msgs)])
  /\ UNCHANGED <<usage, content, events, poll, history>>

\* The loop over event_records: what the channel set is notified of, and the flags.
notify_set(p, fires) ==
  /\ set_poll' = IF fires THEN "idle" ELSE set_poll
  /\ loc' = [loc EXCEPT ![p].at = "flag", ![p].hit = fires /\ set_poll # "idle"]
  /\ UNCHANGED <<usage, order, content, rec, set_sync, poll, history>>

send_event(s) ==
  /\ At(s) = "event"
  /\ notify_set(s, \/ /\ rec.mask \in {"POLLIN", "POLLINOUT"}
                      /\ ~rec.triggered_since_last_recv
                   \/ rec.mask = "POLLFULL" /\ loc[s].saw)

send_flag(s) ==
  /\ At(s) = "flag" /\ s \in Sender
  /\ rec' = [rec EXCEPT
       !.triggered_since_last_recv = @ \/ (loc[s].hit /\ rec.mask \in {"POLLIN", "POLLINOUT"}),
       !.triggered_since_last_send = @ /\ rec.mask \notin {"POLLOUT", "POLLINOUT"}]
  /\ ot_lock' = Nobody
  /\ loc' = [loc EXCEPT ![s].at = "notify", ![s].hit = FALSE]
  /\ UNCHANGED <<usage, ot, available_msgs, content, set_poll, set_sync, poll, history>>

SendEvents(s) == {"POLLIN", "POLLINOUT"} \cup IF loc[s].saw THEN {"POLLFULL"} ELSE {}

send_notify(s) ==
  /\ At(s) = "notify"
  /\ trigger_all(SendEvents(s))
  /\ Return(s)
  /\ UNCHANGED <<usage, order, content, events, history>>

-----------------------------------------------------------------------------
(* dragon_chrecv_get_msg_blocking, _get_msg and _pop                       *)

get_start(r) ==
  /\ At(r) = "idle"
  /\ \E k \in Kinds :
       loc' = [loc EXCEPT ![r] = Calling("try", k, Nobody)]
  /\ UNCHANGED <<usage, order, content, events, poll, history>>

\* Never waits, and does not look at available_msgs first.
pop_start(r) ==
  /\ At(r) = "idle"
  /\ loc' = [loc EXCEPT ![r] = Calling("take", "nowait", Nobody)]
  /\ UNCHANGED <<usage, order, content, events, poll, history>>

get_try(r) ==
  /\ At(r) = "try"
  /\ IF available_msgs = 0 THEN again(r) ELSE Goto(r, "take")
  /\ UNCHANGED <<usage, order, content, events, poll, history>>

get_check(r) ==
  /\ At(r) = "check" /\ ot_lock = Nobody
  /\ Goto(r, IF available_msgs = 0 THEN "blocked" ELSE "take")
  /\ UNCHANGED <<usage, order, content, events, poll, history>>

\* "refuse": the message stays, because its destination is too small or there is no
\* memory for it.
get_take(r) ==
  /\ At(r) = "take" /\ ot_lock = Nobody
  /\ \/ /\ ot = <<>>
        /\ available_msgs' = 0
        /\ again(r)
        /\ UNCHANGED <<ot, received>>
     \/ /\ ot # <<>> /\ "refuse" \in RecvErrors
        /\ \/ Return(r)
           \/ /\ loc[r].kind # "nowait"
              /\ attempt_again(r)
        /\ UNCHANGED <<ot, available_msgs, received>>
     \/ /\ ot # <<>>
        /\ ot' = Tail(ot)
        /\ available_msgs' = available_msgs - 1
        /\ loc' = [loc EXCEPT ![r].at = "wake", ![r].blk = Head(ot).blk,
                              ![r].msg = Head(ot).msg]
        /\ received' = received \cup {Head(ot).msg}
  /\ UNCHANGED <<usage, ot_lock, content, events, poll, leaked>>

\* available_msgs is read without the lock.
get_wake(r) ==
  LET next == [loc EXCEPT ![r].at = "copy"] IN
  /\ At(r) = "wake"
  /\ IF available_msgs > 0 THEN trigger_one(Receiver, next) ELSE loc' = next
  /\ UNCHANGED <<usage, order, content, events, poll, history>>

\* The payload is read.  A message that is discarded, because there is no memory for
\* it, gives its block back in the same way.  "lose": an error return keeps the block.
get_copy(r) ==
  /\ At(r) = "copy"
  /\ \/ /\ Goto(r, "release")
        /\ UNCHANGED leaked
     \/ /\ "lose" \in RecvErrors
        /\ leaked' = leaked \cup {loc[r].blk}
        /\ Return(r)
  /\ UNCHANGED <<usage, order, content, events, poll, received>>

\* Nobody reads what is in a free block.
_release_message_block(r) ==
  /\ At(r) = "release" /\ ut_lock = Nobody
  /\ ut_lock' = r
  /\ content' = [content EXCEPT ![loc[r].blk] = Nobody]
  /\ insert_ut(loc[r].blk)
  /\ trigger_one(Sender, [loc EXCEPT ![r].at = "event", ![r].blk = Nobody, ![r].msg = Nobody,
                                     ![r].saw = fills_table(available_blocks)])
  /\ UNCHANGED <<order, events, poll, history>>

release_event(r) ==
  /\ At(r) = "event"
  /\ notify_set(r, \/ /\ rec.mask \in {"POLLOUT", "POLLINOUT"}
                      /\ ~rec.triggered_since_last_send
                   \/ rec.mask = "POLLEMPTY" /\ loc[r].saw)

\* The bit of a set that waits for messages is set here, too.
release_flag(r) ==
  /\ At(r) = "flag"
  /\ rec' = [rec EXCEPT
       !.triggered_since_last_send = @ \/ (loc[r].hit /\ rec.mask \in {"POLLOUT", "POLLINOUT"}),
       !.triggered_since_last_recv = @ \/ rec.mask \in {"POLLIN", "POLLINOUT"}]
  /\ ut_lock' = Nobody
  /\ loc' = [loc EXCEPT ![r].at = "notify", ![r].hit = FALSE]
  /\ UNCHANGED <<ut, available_blocks, order, content, set_poll, set_sync, poll, history>>

\* Mutant: pollers for an empty channel are not triggered.
ReleaseEvents_few(r) == {"POLLOUT", "POLLINOUT"}

ReleaseEvents(r) == {"POLLOUT", "POLLINOUT"} \cup IF loc[r].saw THEN {"POLLEMPTY"} ELSE {}

\* "discard": there was no memory for the message, which is gone; a call that is not
\* yet blocking goes on with the next message.
release_notify(r) ==
  /\ At(r) = "notify"
  /\ trigger_all(ReleaseEvents(r))
  /\ \/ Return(r)
     \/ /\ "discard" \in RecvErrors /\ loc[r].kind # "nowait"
        /\ attempt_again(r)
  /\ UNCHANGED <<usage, order, content, events, history>>

-----------------------------------------------------------------------------
(* dragon_channel_poll, and the channel set                                *)

Satisfied(m) ==
  \/ m \in {"POLLIN", "POLLINOUT"} /\ available_msgs # 0
  \/ m \in {"POLLOUT", "POLLINOUT"} /\ available_blocks # 0
  \/ m = "POLLEMPTY" /\ available_msgs = 0
  \/ m = "POLLFULL" /\ available_blocks = 0

\* A poll that is satisfied returns at once.
dragon_channel_poll(q) ==
  /\ poll[q] = "idle" /\ ut_lock = Nobody /\ ot_lock = Nobody
  /\ \E m \in PollMasks : ~Satisfied(m) /\ poll' = [poll EXCEPT ![q] = m]
  /\ UNCHANGED <<usage, order, content, events, loc, history>>

poll_timeout(q) ==
  /\ poll[q] # "idle" /\ "timed" \in Kinds
  /\ poll' = [poll EXCEPT ![q] = "idle"]
  /\ UNCHANGED <<usage, order, content, events, loc, history>>

\* The first poll starts the thread.
dragon_channelset_poll ==
  /\ rec.mask # "none" /\ set_sync = "none"
  /\ set_sync' = "started"
  /\ UNCHANGED <<usage, order, content, rec, set_poll, poll, loc, history>>

channelset_wait ==
  /\ rec.mask # "none" /\ set_sync # "none" /\ set_poll = "idle"
  /\ set_poll' = IF Satisfied(rec.mask) THEN "late" ELSE "waiting"
  /\ UNCHANGED <<usage, order, content, rec, set_sync, poll, loc, history>>

channelset_timeout ==
  /\ set_poll # "idle" /\ "timed" \in Kinds
  /\ set_poll' = "idle"
  /\ UNCHANGED <<usage, order, content, rec, set_sync, poll, loc, history>>

\* A poll of the channel that does not wait, and a trigger if it succeeds.
_channelset_sync ==
  /\ \/ /\ set_sync = "started" /\ ut_lock = Nobody /\ ot_lock = Nobody
        /\ set_sync' = IF Satisfied(rec.mask) THEN "found" ELSE "over"
        /\ UNCHANGED set_poll
     \/ /\ set_sync = "found"
        /\ set_sync' = "over" /\ set_poll' = "idle"
  /\ UNCHANGED <<usage, order, content, rec, poll, loc, history>>

\* dragon_channel_add_event_bcast for a new set, _update_event_mask, and
\* _remove_event_bcast.
change_event_bcast ==
  /\ set_poll = "idle" /\ set_sync \in {"none", "over"}
  /\ ut_lock = Nobody /\ ot_lock = Nobody
  /\ \E m \in SetMasks \cup {"none"} :
       /\ rec' = EventRecord(m)
       /\ set_sync' = IF m = "none" THEN "none" ELSE set_sync
  /\ UNCHANGED <<usage, order, content, set_poll, poll, loc, history>>

-----------------------------------------------------------------------------
SendStep(s) ==
  \/ send_try(s) \/ send_check(s) \/ send_take(s) \/ send_wake(s) \/ send_copy(s)
  \/ _return_msgblk_to_ut(s) \/ send_post(s) \/ send_event(s) \/ send_flag(s)
  \/ send_notify(s)

RecvStep(r) ==
  \/ get_try(r) \/ get_check(r) \/ get_take(r) \/ get_wake(r) \/ get_copy(r)
  \/ _release_message_block(r) \/ release_event(r) \/ release_flag(r)
  \/ release_notify(r)

Next ==
  /\ \/ \E s \in Sender : SendStep(s) \/ send_start(s) \/ timeout(s)
     \/ \E r \in Receiver : RecvStep(r) \/ get_start(r) \/ pop_start(r) \/ timeout(r)
     \/ \E q \in Poller : dragon_channel_poll(q) \/ poll_timeout(q)
     \/ dragon_channelset_poll \/ channelset_wait \/ channelset_timeout
     \/ _channelset_sync \/ change_event_bcast
  /\ UNCHANGED use

Spec == Init /\ [][Next]_vars

-----------------------------------------------------------------------------
(* Properties                                                              *)

Held(p) == IF loc[p].blk = Nobody THEN {} ELSE {loc[p].blk}
Queued == {ot[i].blk : i \in DOMAIN ot}

\* A block is in one place only: free, holding a message in order, in the hands of
\* one call, or lost by an error return; and each table has the size that its
\* counter says, on which blocking and every poll rest.
BlocksConserved ==
  /\ TypeOK
  /\ available_blocks = Cardinality(ut) /\ available_msgs = Len(ot)
  /\ Cardinality(Queued) = Len(ot)
  /\ \A b \in Block :
       (IF b \in ut THEN 1 ELSE 0) + (IF b \in Queued THEN 1 ELSE 0)
         + (IF b \in leaked THEN 1 ELSE 0)
         + Cardinality({p \in Sender \cup Receiver : b \in Held(p)}) = 1

\* The payload that a receiver reads is the one that was sent: no sender writes to
\* a block before its message has been read.
Intact ==
  /\ \A i \in DOMAIN ot : content[ot[i].blk] = ot[i].msg
  /\ \A r \in Receiver : At(r) \in {"wake", "copy"} => content[loc[r].blk] = loc[r].msg

\* A message is received once at most, and those of one sender in the order in
\* which it sent them.
InOrder ==
  /\ \A i, j \in DOMAIN ot : i < j /\ ot[i].msg[1] = ot[j].msg[1] => ot[i].msg[2] < ot[j].msg[2]
  /\ \A i \in DOMAIN ot : \A m \in received : m[1] = ot[i].msg[1] => m[2] < ot[i].msg[2]

NoErrors == SendErrors = {} /\ RecvErrors = {}

\* Processes are blocked, and none is about to take a block, or a message, or to
\* pass the wake-up on.
Stuck(ps) == (\E p \in ps : At(p) = "blocked") /\ \A p \in ps : At(p) \notin {"take", "wake"}

\* No sender is left asleep while a block is free, and no receiver while there is a
\* message.  An error return may lose the wake-up it had.
BlockedWoken ==
  NoErrors =>
    /\ Stuck(Sender) => available_blocks = 0
    /\ Stuck(Receiver) => available_msgs = 0

Quiet == \A p \in Sender \cup Receiver : At(p) \in {"idle", "blocked"}

\* Every block that a call has taken comes back through the ordering table or a
\* release, which notify pollers.
NothingLost == SendErrors = {} /\ "lose" \notin RecvErrors

\* No poller is left asleep while its event is there: when no send or receive is
\* under way any more, none is.  A send that fails gives its block back in silence.
PollerWoken == NothingLost /\ Quiet => \A q \in Poller : ~Satisfied(poll[q])

\* The same for a channel set that watches for the channel to be full or empty, if
\* the event was not there when it was polled.
SetWoken ==
  NothingLost /\ Quiet /\ set_poll = "waiting" /\ rec.mask \in {"POLLFULL", "POLLEMPTY"} =>
    ~Satisfied(rec.mask)

\* "While a new message will always generate an event if there is a poller": a
\* message ends a poll for messages that began when there were none, at least if no
\* receive is under way.
SetNotified ==
  [][\A s \in Sender :
       /\ At(s) = "event" /\ At(s)' = "flag"
       /\ rec.mask = "POLLIN" /\ set_poll = "waiting"
       /\ \A r \in Receiver : At(r) = "idle"
       => set_poll' = "idle"]_vars
=============================================================================
