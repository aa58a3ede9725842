---------------------------- MODULE Channel_proofs ----------------------------
(***************************************************************************)
(* Proofs about a channel, for any number of blocks, senders, receivers,   *)
(* pollers and messages, and for every use of it.                          *)
(*                                                                         *)
(* The invariant says where each block is (OnePlace): the locations of a   *)
(* call at which it has one in its hands (HandsFull) tell which step may   *)
(* take or give it.  That no block is in two places is what keeps a        *)
(* payload intact, and a sender's number of the message it is sending is   *)
(* what keeps its messages in order.                                       *)
(***************************************************************************)
EXTENDS Channel, FiniteSetTheorems, SequenceTheorems, TLAPS

USE ZenonT(20), SMTT(30)

Process == Sender \cup Receiver

\* The locations of a call that has a block in its hands.
Holding == {"wake", "copy", "return", "post", "release"}

\* Where a sender has not yet put its message in order.
Unposted == {"try", "take", "check", "blocked", "wake", "copy", "return", "post"}

HandsFull == \A p \in Process : loc[p].blk # Nobody <=> At(p) \in Holding

\* A block is in one place only.
OnePlace ==
  /\ \A i, j \in DOMAIN ot : ot[i].blk = ot[j].blk => i = j
  /\ \A p, q \in Process : loc[p].blk = loc[q].blk /\ loc[p].blk # Nobody => p = q
  /\ \A i \in DOMAIN ot : /\ ot[i].blk \notin ut /\ ot[i].blk \notin leaked
                          /\ \A p \in Process : loc[p].blk # ot[i].blk
  /\ \A p \in Process : loc[p].blk \notin ut /\ loc[p].blk \notin leaked
  /\ ut \cap leaked = {}

\* And in one at least.
SomePlace ==
  \A b \in Block : \/ b \in ut \/ b \in leaked
                   \/ \E i \in DOMAIN ot : ot[i].blk = b
                   \/ \E p \in Process : loc[p].blk = b

Counters == available_blocks = Cardinality(ut) /\ available_msgs = Len(ot)

\* A call of send has numbered its message.
Numbered == \A s \in Sender : At(s) # "idle" => loc[s].msg # 0

PlaceInv == TypeOK /\ use \in Uses /\ HandsFull /\ OnePlace /\ SomePlace /\ Counters /\ Numbered

\* What is in a block that its sender has written.
Written == \A s \in Sender : At(s) = "post" => content[loc[s].blk] = <<s, loc[s].msg>>

\* The messages of a sender that are in the channel, or were, have its numbers so far.
Past ==
  \A s \in Sender :
    /\ \A i \in DOMAIN ot : ot[i].msg[1] = s =>
         /\ ot[i].msg[2] <= loc[s].msg
         /\ At(s) \in Unposted => ot[i].msg[2] < loc[s].msg
    /\ \A m \in received : m[1] = s =>
         /\ m[2] <= loc[s].msg
         /\ At(s) \in Unposted => m[2] < loc[s].msg

OrderInv == PlaceInv /\ Past /\ InOrder
IntactInv == PlaceInv /\ Written /\ Intact

-----------------------------------------------------------------------------
(* What a use fixes                                                        *)

\* The use of the channel does not change.
Same ==
  /\ use' = use /\ Sender' = Sender /\ Receiver' = Receiver /\ Process' = Process
  /\ Poller' = Poller /\ MaxSends' = MaxSends /\ Message' = Message
  /\ PollMasks' = PollMasks /\ SendErrors' = SendErrors /\ RecvErrors' = RecvErrors

\* No step changes the use, nor what it fixes.
LEMMA SameUse == UNCHANGED use => Same
BY DEF Same, Sender, Receiver, Process, Poller, MaxSends, Message, PollMasks, SendErrors,
       RecvErrors

Fits ==
  /\ MaxSends \in Nat /\ Sender \cap Receiver = {} /\ Nobody \notin Block
  /\ Nobody \notin Process
  /\ PollMasks \subseteq Masks /\ SetMasks \subseteq Masks
  /\ Kinds \subseteq {"nowait", "timed", "forever"}

\* The assumption on the constants, for the use of this behaviour.
LEMMA UseFits == ASSUME use \in Uses PROVE Fits
BY ChannelAssumption
   DEF Fits, Process, Sender, Receiver, MaxSends, PollMasks, SetMasks, Kinds

-----------------------------------------------------------------------------
(* What a step does to the local variables                                 *)

LocalOf(p) == Local(IF p \in Sender THEN 0 .. MaxSends ELSE Message \cup {Nobody})

TypeLoc == DOMAIN loc = Process /\ \A p \in Process : loc[p] \in LocalOf(p)

\* TypeOK types the local variables of senders and receivers.
LEMMA LocTyped == ASSUME TypeOK, Fits PROVE TypeLoc
BY DEF TypeOK, TypeLoc, Process, LocalOf, Fits

Woke(q) == /\ At(q) = "blocked" /\ loc'[q] \in LocalOf(q) /\ loc'[q].at = "take"
           /\ loc'[q].blk = loc[q].blk /\ loc'[q].msg = loc[q].msg /\ loc'[q].saw = loc[q].saw

\* p goes on at one of the locations to with the block b and the message m; of the
\* others nothing changes, except that a trigger may release them.
Moves(p, to, b, m) ==
  /\ DOMAIN loc' = Process
  /\ loc'[p] \in LocalOf(p) /\ loc'[p].at \in to /\ loc'[p].blk = b /\ loc'[p].msg = m
  /\ \A q \in Process \ {p} : loc'[q] = loc[q] \/ Woke(q)

\* A call goes on at l with what it has.
LEMMA GotoMoves ==
  ASSUME TypeLoc, NEW p \in Process, NEW l \in Locations, Goto(p, l)
  PROVE  Moves(p, {l}, loc[p].blk, loc[p].msg) /\ loc'[p].saw = loc[p].saw
BY DEF TypeLoc, LocalOf, Local, Goto, Moves

\* A call that returns has no block, and a sender keeps its number.
LEMMA ReturnMoves ==
  ASSUME TypeLoc, Fits, NEW p \in Process, Return(p)
  PROVE  Moves(p, {"idle"}, Nobody, IF p \in Sender THEN loc[p].msg ELSE Nobody)
BY DEF TypeLoc, Fits, LocalOf, Local, Locations, NotCalling, Calling, Return, Moves

\* A call that found the channel full, or empty, returns or waits.
LEMMA AgainMoves ==
  ASSUME TypeLoc, Fits, NEW p \in Process, again(p)
  PROVE  \/ Moves(p, {"idle"}, Nobody, IF p \in Sender THEN loc[p].msg ELSE Nobody)
         \/ Moves(p, {"check"}, loc[p].blk, loc[p].msg)
BY ReturnMoves DEF again, TypeLoc, LocalOf, Local, Locations, Moves

\* A call that makes another attempt starts over.
LEMMA AttemptMoves ==
  ASSUME TypeLoc, NEW p \in Process, attempt_again(p)
  PROVE  Moves(p, {"check", "try"}, Nobody, loc[p].msg)
<1>1. PICK last \in BOOLEAN :
        loc' = [loc EXCEPT ![p] = [@ EXCEPT !.at = IF last THEN "check" ELSE "try",
                                          !.spin = ~last, !.blk = Nobody, !.saw = FALSE]]
  BY DEF attempt_again
<1> DEFINE e == [loc[p] EXCEPT !.at = IF last THEN "check" ELSE "try",
                               !.spin = ~last, !.blk = Nobody, !.saw = FALSE]
<1>2. /\ e \in LocalOf(p) /\ e.at \in {"check", "try"} /\ e.blk = Nobody
      /\ e.msg = loc[p].msg
  <2>0. loc[p] \in LocalOf(p)
    BY DEF TypeLoc
  <2>1. CASE last
    <3>1. e = [loc[p] EXCEPT !.at = "check", !.spin = FALSE, !.blk = Nobody, !.saw = FALSE]
      BY <2>1
    <3> QED
      BY <2>0, <3>1 DEF LocalOf, Local, Locations
  <2>2. CASE ~last
    <3>1. e = [loc[p] EXCEPT !.at = "try", !.spin = TRUE, !.blk = Nobody, !.saw = FALSE]
      BY <2>2
    <3> QED
      BY <2>0, <3>1 DEF LocalOf, Local, Locations
  <2> QED
    BY <2>1, <2>2
<1>3. loc' = [loc EXCEPT ![p] = e]
  BY <1>1
<1> HIDE DEF e
<1> QED
  BY <1>2, <1>3 DEF TypeLoc, Moves

\* A trigger adds that one of those that wait goes on.
LEMMA TriggerMoves ==
  ASSUME TypeLoc, NEW ps \in SUBSET Process, NEW p \in Process, NEW e \in LocalOf(p),
         At(p) # "blocked", trigger_one(ps, [loc EXCEPT ![p] = e])
  PROVE  Moves(p, {e.at}, e.blk, e.msg) /\ loc'[p] = e
BY DEF trigger_one, TypeLoc, LocalOf, Local, Locations, Moves, Woke, At

-----------------------------------------------------------------------------
(* Where the blocks are, when one of them moves                            *)

Placed == HandsFull /\ OnePlace /\ SomePlace /\ Counters

tables == <<ut, available_blocks, ot, available_msgs, leaked>>

\* Every place of a block is one for blocks.
LEMMA BlockTypes ==
  ASSUME TypeOK, Fits
  PROVE  /\ ut \subseteq Block /\ leaked \subseteq Block /\ Nobody \notin Block /\ IsFiniteSet(ut)
         /\ DOMAIN ot = 1 .. Len(ot) /\ Len(ot) \in Nat
         /\ \A i \in DOMAIN ot : ot[i].blk \in Block
<1>1. IsFiniteSet(ut)
  BY FS_Subset, ChannelAssumption DEF TypeOK
<1>2. ot \in Seq([blk : Block, msg : Message])
  BY DEF TypeOK
<1>3. \A i \in 1 .. Len(ot) : ot[i] \in [blk : Block, msg : Message]
  BY <1>2, ElementOfSeq
<1> QED
  BY <1>1, <1>2, <1>3, LenProperties DEF TypeOK, Fits

\* No block moves.
LEMMA Stay ==
  ASSUME TypeLoc, Placed, Same, UNCHANGED tables,
         NEW p \in Process, NEW to, NEW m, Moves(p, to, loc[p].blk, m),
         \/ At(p) \in Holding /\ to \subseteq Holding
         \/ At(p) \notin Holding /\ to \cap Holding = {}
  PROVE  Placed'
<1> USE DEF Placed, Moves, Woke, At, tables, Same
<1>1. \A q \in Process : loc'[q].blk = loc[q].blk
  OBVIOUS
<1>2. HandsFull'
  BY <1>1 DEF HandsFull, Holding
<1>3. OnePlace' /\ SomePlace' /\ Counters'
  BY <1>1 DEF OnePlace, SomePlace, Counters
<1> QED
  BY <1>2, <1>3

\* send_take: from the usage table to the hands of a call.
LEMMA Take ==
  ASSUME TypeOK, TypeLoc, Fits, Placed, Same, NEW p \in Process, NEW m, NEW b \in ut, 
         At(p) \notin Holding, Moves(p, {"wake"}, b, m),
         ut' = ut \ {b}, available_blocks' = available_blocks - 1,
         UNCHANGED <<ot, available_msgs, leaked>>
  PROVE  Placed'
<1> USE DEF Placed, Moves, Woke, At, Same
<1>1. \A q \in Process \ {p} : loc'[q].blk = loc[q].blk
  OBVIOUS
<1>2. loc[p].blk = Nobody /\ loc'[p].blk = b /\ b \in Block
  BY DEF HandsFull, TypeOK
<1>3. HandsFull'
  BY <1>1, <1>2 DEF HandsFull, Holding, Fits
<1>4. OnePlace'
  BY <1>1, <1>2 DEF OnePlace, Fits
<1>5. SomePlace'
  BY <1>1, <1>2 DEF SomePlace, Fits
<1>6. Counters'
  BY FS_RemoveElement, FS_Subset, ChannelAssumption DEF Counters, TypeOK
<1> QED
  BY <1>3, <1>4, <1>5, <1>6

\* An error return that keeps the block.
LEMMA Lose ==
  ASSUME TypeOK, TypeLoc, Fits, Placed, Same, NEW p \in Process, NEW m,
         At(p) \in Holding, Moves(p, {"idle"}, Nobody, m),
         leaked' = leaked \cup {loc[p].blk},
         UNCHANGED <<ut, available_blocks, ot, available_msgs>>
  PROVE  Placed'
<1> USE DEF Placed, Moves, Woke, At, Same
<1>1. \A q \in Process \ {p} : loc'[q].blk = loc[q].blk
  OBVIOUS
<1>2. loc[p].blk # Nobody /\ loc[p].blk \in Block /\ loc'[p].blk = Nobody
  BY DEF HandsFull, TypeLoc, LocalOf, Local
<1>3. HandsFull'
  BY <1>1, <1>2 DEF HandsFull, Holding
<1>4. OnePlace'
  BY <1>1, <1>2, BlockTypes DEF OnePlace
<1>5. SomePlace'
  BY <1>1, <1>2 DEF SomePlace
<1>6. Counters'
  BY DEF Counters
<1> QED
  BY <1>3, <1>4, <1>5, <1>6

\* insert_ut: from the hands of a call to the usage table.
LEMMA Give ==
  ASSUME TypeOK, TypeLoc, Fits, Placed, Same, NEW p \in Process, NEW m, NEW to,
         At(p) \in Holding, Moves(p, to, Nobody, m), to \cap Holding = {},
         insert_ut(loc[p].blk), UNCHANGED <<ot, available_msgs, leaked>>
  PROVE  Placed'
<1> USE DEF Placed, Moves, Woke, At, Same, insert_ut
<1>1. \A q \in Process \ {p} : loc'[q].blk = loc[q].blk
  OBVIOUS
<1>2. loc[p].blk # Nobody /\ loc[p].blk \in Block /\ loc'[p].blk = Nobody
  BY DEF HandsFull, TypeLoc, LocalOf, Local
<1>3. HandsFull'
  BY <1>1, <1>2 DEF HandsFull, Holding
<1>4. OnePlace'
  BY <1>1, <1>2, BlockTypes DEF OnePlace
<1>5. SomePlace'
  BY <1>1, <1>2 DEF SomePlace
<1>6. Counters'
  <2>1. loc[p].blk \notin ut
    BY DEF OnePlace
  <2> QED
    BY <2>1, FS_AddElement, BlockTypes DEF Counters
<1> QED
  BY <1>3, <1>4, <1>5, <1>6

\* insert_ot: from the hands of a call to the end of the ordering table.
LEMMA Post ==
  ASSUME TypeOK, TypeLoc, Fits, Placed, Same, NEW p \in Process, NEW m, NEW x \in Message,
         At(p) \in Holding, Moves(p, {"event"}, Nobody, m),
         ot' = Append(ot, [blk |-> loc[p].blk, msg |-> x]), available_msgs' = available_msgs + 1,
         UNCHANGED <<ut, available_blocks, leaked>>
  PROVE  Placed'
<1> USE DEF Placed, Moves, Woke, At, Same
<1>1. \A q \in Process \ {p} : loc'[q].blk = loc[q].blk
  OBVIOUS
<1>2. loc[p].blk # Nobody /\ loc[p].blk \in Block /\ loc'[p].blk = Nobody
  BY DEF HandsFull, TypeLoc, LocalOf, Local
<1>0. ot \in Seq([blk : Block, msg : Message])
  BY DEF TypeOK
<1>3. /\ Len(ot) \in Nat /\ Len(ot') = Len(ot) + 1
      /\ DOMAIN ot = 1 .. Len(ot) /\ DOMAIN ot' = 1 .. Len(ot) + 1
      /\ ot'[Len(ot) + 1].blk = loc[p].blk
      /\ \A i \in 1 .. Len(ot) : ot'[i] = ot[i]
  BY <1>0, <1>2
<1>4. HandsFull'
  BY <1>1, <1>2 DEF HandsFull, Holding
<1>5. OnePlace'
  BY <1>1, <1>2, <1>3, BlockTypes DEF OnePlace
<1>6. SomePlace'
  BY <1>1, <1>2, <1>3 DEF SomePlace
<1>7. Counters'
  BY <1>3 DEF Counters
<1> QED
  BY <1>4, <1>5, <1>6, <1>7

\* get_take: from the head of the ordering table to the hands of a call.
LEMMA Pop ==
  ASSUME TypeOK, TypeLoc, Fits, Placed, Same, NEW p \in Process, NEW m,
         At(p) \notin Holding, ot # <<>>, Moves(p, {"wake"}, Head(ot).blk, m),
         ot' = Tail(ot), available_msgs' = available_msgs - 1,
         UNCHANGED <<ut, available_blocks, leaked>>
  PROVE  Placed'
<1> USE DEF Placed, Moves, Woke, At, Same
<1>1. \A q \in Process \ {p} : loc'[q].blk = loc[q].blk
  OBVIOUS
<1>0. ot \in Seq([blk : Block, msg : Message])
  BY DEF TypeOK
<1>3. /\ Len(ot) \in Nat \ {0} /\ Len(ot') = Len(ot) - 1
      /\ DOMAIN ot = 1 .. Len(ot) /\ DOMAIN ot' = 1 .. Len(ot) - 1
      /\ Head(ot) = ot[1] /\ ot[1].blk \in Block
      /\ \A i \in 1 .. Len(ot) - 1 : ot'[i] = ot[i + 1]
  <2> HIDE DEF Placed, Moves
  <2>1. Len(ot) \in Nat \ {0} /\ DOMAIN ot = 1 .. Len(ot)
    BY <1>0, EmptySeq, LenProperties
  <2>2. Tail(ot) \in Seq([blk : Block, msg : Message]) /\ Len(Tail(ot)) = Len(ot) - 1
    BY <1>0, HeadTailProperties
  <2>3. \A i \in 1 .. Len(ot) - 1 : Tail(ot)[i] = ot[i + 1]
    BY <1>0, <2>2, HeadTailProperties
  <2>4. Head(ot) = ot[1]
    BY <1>0, <2>1
  <2>6. ot[1].blk \in Block
    BY <2>1, BlockTypes
  <2>5. DOMAIN Tail(ot) = 1 .. Len(ot) - 1
    BY <2>2, LenProperties
  <2> QED
    BY <2>1, <2>2, <2>3, <2>4, <2>5, <2>6
<1>2. loc[p].blk = Nobody /\ loc'[p].blk = ot[1].blk /\ ot[1].blk # Nobody
  BY <1>3 DEF HandsFull, Fits
<1>4. HandsFull'
  BY <1>1, <1>2 DEF HandsFull, Holding
<1>5. OnePlace'
  <2> HIDE DEF Moves
  <2> DEFINE Old(i) == i + 1
  <2>1. \A i \in DOMAIN ot' : Old(i) \in DOMAIN ot /\ ot'[i] = ot[Old(i)] /\ Old(i) # 1
    BY <1>3
  <2>2. 1 \in DOMAIN ot
    BY <1>3
  <2>3. \A i, j \in DOMAIN ot' : Old(i) = Old(j) => i = j
    BY <1>3
  <2> HIDE DEF Old
  <2>4. \A i, j \in DOMAIN ot' : ot'[i].blk = ot'[j].blk => i = j
    BY <2>1, <2>3 DEF OnePlace
  <2>5. \A q, r \in Process : loc'[q].blk = loc'[r].blk /\ loc'[q].blk # Nobody => q = r
    BY <1>1, <1>2, <2>2 DEF OnePlace
  <2>6. \A i \in DOMAIN ot' : ot'[i].blk \notin ut /\ ot'[i].blk \notin leaked
    BY <2>1 DEF OnePlace
  <2>7. \A i \in DOMAIN ot' : \A q \in Process : loc'[q].blk # ot'[i].blk
    BY <1>1, <1>2, <2>1, <2>2 DEF OnePlace
  <2>8. \A q \in Process : loc'[q].blk \notin ut /\ loc'[q].blk \notin leaked
    BY <1>1, <1>2, <2>2 DEF OnePlace
  <2> QED
    BY <2>4, <2>5, <2>6, <2>7, <2>8 DEF OnePlace
<1>6. SomePlace'
  <2> SUFFICES ASSUME NEW b \in Block,  b \notin ut, b \notin leaked
               PROVE  \/ \E i \in DOMAIN ot' : ot'[i].blk = b
                      \/ \E q \in Process : loc'[q].blk = b
    BY DEF SomePlace
  <2>1. CASE \E i \in DOMAIN ot : ot[i].blk = b
    <3>1. PICK i \in 1 .. Len(ot) : ot[i].blk = b
      BY <2>1, <1>3
    <3>2. CASE i = 1
      BY <3>1, <3>2, <1>2
    <3>3. CASE i # 1
      <4>1. i - 1 \in DOMAIN ot' /\ ot'[i - 1].blk = b
        BY <3>1, <3>3, <1>3
      <4> QED
        BY <4>1
    <3> QED
      BY <3>2, <3>3
  <2>2. CASE \E q \in Process : loc[q].blk = b
    BY <2>2, <1>1, <1>2 DEF Fits
  <2> QED
    BY <2>1, <2>2 DEF SomePlace
<1>7. Counters'
  BY <1>3 DEF Counters
<1> QED
  BY <1>4, <1>5, <1>6, <1>7

-----------------------------------------------------------------------------
(* The steps of a call                                                     *)

still == <<tables, received, content>>

\* A step of a sender that leaves the messages alone.
SendsOn(s) ==
  /\ UNCHANGED <<ot, received, content>>
  /\ \E to, c, n :
       /\ Moves(s, to, c, n) /\ "post" \notin to
       /\ \/ n = loc[s].msg + 1
          \/ /\ n = loc[s].msg /\ At(s) # "idle"
             /\ At(s) \in Unposted \/ to \cap Unposted = {}

Writes(s) ==
  /\ At(s) = "copy" /\ Moves(s, {"post"}, loc[s].blk, loc[s].msg)
  /\ content' = [content EXCEPT ![loc[s].blk] = <<s, loc[s].msg>>]
  /\ UNCHANGED <<ot, received>>

Posts(s) ==
  /\ At(s) = "post" /\ Moves(s, {"event"}, Nobody, loc[s].msg)
  /\ ot' = Append(ot, [blk |-> loc[s].blk, msg |-> <<s, loc[s].msg>>])
  /\ UNCHANGED <<received, content>>

\* A step of a receiver that leaves the messages alone.
ReceivesOn(r) ==
  /\ UNCHANGED <<ot, received, content>>
  /\ \E to, c, n :
       /\ Moves(r, to, c, n)
       /\ \/ to \cap {"wake", "copy"} = {}
          \/ At(r) = "wake" /\ c = loc[r].blk /\ n = loc[r].msg

Pops(r) ==
  /\ At(r) = "take" /\ ot # <<>> /\ Moves(r, {"wake"}, Head(ot).blk, Head(ot).msg)
  /\ ot' = Tail(ot) /\ received' = received \cup {Head(ot).msg} /\ UNCHANGED content

Releases(r) ==
  /\ At(r) = "release" /\ Moves(r, {"event"}, Nobody, Nobody)
  /\ content' = [content EXCEPT ![loc[r].blk] = Nobody]
  /\ UNCHANGED <<ot, received>>

SendCall(s) == SendStep(s) \/ send_start(s) \/ timeout(s)
RecvCall(r) == RecvStep(r) \/ get_start(r) \/ pop_start(r) \/ timeout(r)

Base == PlaceInv /\ TypeLoc /\ Fits /\ Placed /\ Same

\* What every step starts from.
LEMMA BaseFacts == ASSUME PlaceInv, UNCHANGED use PROVE Base
BY SameUse, UseFits, LocTyped DEF PlaceInv, Base, Placed

\* The witnesses of SendsOn.
LEMMA SendsOnBy ==
  ASSUME NEW s, NEW to, NEW c, NEW n, Moves(s, to, c, n), "post" \notin to,
         UNCHANGED <<ot, received, content>>,
         \/ n = loc[s].msg + 1
         \/ /\ n = loc[s].msg /\ At(s) # "idle"
            /\ At(s) \in Unposted \/ to \cap Unposted = {}
  PROVE  SendsOn(s)
BY DEF SendsOn

\* A step of a sender that moves no block.
LEMMA SendsStay ==
  ASSUME Base, NEW s \in Sender, NEW to, NEW n, Moves(s, to, loc[s].blk, n), UNCHANGED still,
         "post" \notin to,
         \/ At(s) \in Holding /\ to \subseteq Holding
         \/ At(s) \notin Holding /\ to \cap Holding = {},
         \/ n = loc[s].msg + 1
         \/ /\ n = loc[s].msg /\ At(s) # "idle"
            /\ At(s) \in Unposted \/ to \cap Unposted = {}
  PROVE  Placed' /\ SendsOn(s)
<1>1. Placed'
  BY Stay DEF Base, still, Process
<1>2. SendsOn(s)
  BY SendsOnBy DEF still, tables
<1> QED
  BY <1>1, <1>2

\* Every step of dragon_chsend_send_msg keeps the blocks in their places, and writes
\* its message, posts it, or leaves the messages alone.
LEMMA SendSteps ==
  ASSUME Base, NEW s \in Sender, SendCall(s)
  PROVE  Placed' /\ (SendsOn(s) \/ Writes(s) \/ Posts(s))
<1> DEFINE b == loc[s].blk
           m == loc[s].msg
<1> USE DEF Base
<1>0. /\ s \in Process /\ TypeOK /\ Numbered /\ m \in 0 .. MaxSends
      /\ At(s) \notin Holding => b = Nobody
      /\ At(s) \in Holding => b # Nobody
      /\ At(s) # "idle" => m # 0
  BY DEF Process, PlaceInv, HandsFull, TypeOK, Numbered, Local
<1> HIDE DEF b, m
<1>2. CASE send_start(s)
  <2>1. At(s) = "idle" /\ UNCHANGED still
    BY <1>2 DEF send_start, usage, order, history, tables, still
  <2>2. Moves(s, {"try"}, b, m + 1)
    BY <1>0, <1>2, <2>1 DEF send_start, Calling, Moves, TypeLoc, LocalOf, Local, Locations,
                            Fits, b, m, Holding
  <2> QED
    BY <1>0, <2>1, <2>2, SendsStay DEF b, m, Holding, Unposted
<1>3. CASE send_try(s)
  <2>1. At(s) = "try" /\ UNCHANGED still
    BY <1>3 DEF send_try, usage, order, history, tables, still
  <2>2. \E l \in {"idle", "check", "take"} : Moves(s, {l}, b, m)
    BY <1>0, <1>3, <2>1, AgainMoves, GotoMoves DEF send_try, Locations, b, m, Holding
  <2> QED
    BY <1>0, <2>1, <2>2, SendsStay DEF b, m, Holding, Unposted
<1>4. CASE send_check(s)
  <2>1. At(s) = "check" /\ UNCHANGED still
    BY <1>4 DEF send_check, usage, order, history, tables, still
  <2>2. \E l \in {"blocked", "take"} : Moves(s, {l}, b, m)
    BY <1>0, <1>4, GotoMoves DEF send_check, Locations, b, m
  <2> QED
    BY <1>0, <2>1, <2>2, SendsStay DEF b, m, Holding, Unposted
<1>5. CASE timeout(s)
  <2>1. At(s) \in {"check", "blocked"} /\ UNCHANGED still
    BY <1>5 DEF timeout, usage, order, history, tables, still
  <2>2. Moves(s, {"idle"}, b, m)
    BY <1>0, <1>5, <2>1, ReturnMoves DEF timeout, b, m, Holding
  <2> QED
    BY <1>0, <2>1, <2>2, SendsStay DEF b, m, Holding, Unposted
<1>6. CASE send_take(s)
  <2>1. At(s) = "take" /\ UNCHANGED <<ot, available_msgs, leaked, received, content>>
    BY <1>6 DEF send_take, order, history
  <2>2. CASE ut = {} /\ available_blocks' = 0 /\ again(s) /\ UNCHANGED ut
    <3>1. \E l \in {"idle", "check"} : Moves(s, {l}, b, m)
      BY <1>0, <2>1, <2>2, AgainMoves DEF b, m, Holding
    <3>2. UNCHANGED still
      BY <2>1, <2>2, FS_EmptySet DEF still, tables, Placed, Counters
    <3> QED
      BY <1>0, <2>1, <3>1, <3>2, SendsStay DEF b, m, Holding, Unposted
  <2>3. ASSUME NEW c \in ut, ut' = ut \ {c}, available_blocks' = available_blocks - 1,
               loc' = [loc EXCEPT ![s].at = "wake", ![s].blk = c]
        PROVE  Placed' /\ SendsOn(s)
    <3>1. Moves(s, {"wake"}, c, m)
      BY <1>0, <2>3, BlockTypes DEF Moves, TypeLoc, LocalOf, Local, Locations, m
    <3>2. Placed'
      BY <1>0, <2>1, <2>3, <3>1, Take DEF Holding
    <3>3. SendsOn(s)
      BY <2>1, <3>1, SendsOnBy DEF m, Unposted
    <3> QED
      BY <3>2, <3>3
  <2> QED
    BY <1>6, <2>2, <2>3 DEF send_take
<1>7. CASE send_wake(s)
  <2> DEFINE e == [loc[s] EXCEPT !.at = "copy"]
  <2>1. At(s) = "wake" /\ UNCHANGED still
    BY <1>7 DEF send_wake, usage, order, history, tables, still
  <2>2. e \in LocalOf(s) /\ e.at = "copy" /\ e.blk = b /\ e.msg = m
    BY <1>0 DEF TypeLoc, LocalOf, Local, Locations, b, m
  <2>3. trigger_one(Sender, [loc EXCEPT ![s] = e]) \/ loc' = [loc EXCEPT ![s] = e]
    BY <1>7 DEF send_wake
  <2> HIDE DEF e
  <2>4. Moves(s, {"copy"}, b, m)
    <3>1. CASE trigger_one(Sender, [loc EXCEPT ![s] = e])
      BY <1>0, <2>1, <2>2, <3>1, TriggerMoves DEF Process
    <3>2. CASE loc' = [loc EXCEPT ![s] = e]
      BY <1>0, <2>2, <3>2 DEF Moves, TypeLoc
    <3> QED
      BY <2>3, <3>1, <3>2
  <2> QED
    BY <1>0, <2>1, <2>4, SendsStay DEF b, m, Holding, Unposted
<1>8. CASE send_copy(s)
  <2>1. At(s) = "copy" /\ UNCHANGED <<ut, available_blocks, ot, available_msgs, received>>
    BY <1>8 DEF send_copy, usage, order
  <2>2. CASE /\ content' = [content EXCEPT ![b] = <<s, m>>] /\ Goto(s, "post")
             /\ UNCHANGED leaked
    <3>1. Moves(s, {"post"}, b, m)
      BY <1>0, <2>2, GotoMoves DEF Locations, b, m
    <3>2. Placed'
      BY <1>0, <2>1, <2>2, <3>1, Stay DEF tables, b, Holding
    <3>3. Writes(s)
      BY <2>1, <2>2, <3>1 DEF Writes, b, m
    <3> QED
      BY <3>2, <3>3
  <2>3. CASE Goto(s, send_fail) /\ UNCHANGED <<content, leaked>>
    <3>1. Moves(s, {"return"}, b, m)
      BY <1>0, <2>3, GotoMoves DEF send_fail, Locations, b, m
    <3>2. UNCHANGED still
      BY <2>1, <2>3 DEF still, tables
    <3> QED
      BY <1>0, <2>1, <3>1, <3>2, SendsStay DEF b, m, Holding, Unposted
  <2>4. CASE leaked' = leaked \cup {b} /\ Return(s) /\ UNCHANGED content
    <3>1. Moves(s, {"idle"}, Nobody, m)
      BY <1>0, <2>4, ReturnMoves DEF m
    <3>2. Placed'
      BY <1>0, <2>1, <2>4, <3>1, Lose DEF b, Holding
    <3>3. SendsOn(s)
      BY <2>1, <2>4, <3>1, SendsOnBy DEF m, Unposted
    <3> QED
      BY <3>2, <3>3
  <2> QED
    BY <1>8, <2>2, <2>3, <2>4 DEF send_copy, b, m
<1>9. CASE _return_msgblk_to_ut(s)
  <2>1. /\ At(s) = "return" /\ insert_ut(b)
        /\ UNCHANGED <<ot, available_msgs, leaked, received, content>>
    BY <1>9 DEF _return_msgblk_to_ut, order, history, b
  <2>2. PICK to \in {{"idle"}, {"check", "try"}} : Moves(s, to, Nobody, m)
    BY <1>0, <1>9, ReturnMoves, AttemptMoves DEF _return_msgblk_to_ut, m
  <2>3. Placed'
    BY <1>0, <2>1, <2>2, Give DEF b, Holding
  <2>4. SendsOn(s)
    BY <2>1, <2>2, SendsOnBy DEF m, Unposted
  <2> QED
    BY <2>3, <2>4
<1>10. CASE send_post(s)
  <2> DEFINE e == [loc[s] EXCEPT !.at = "event", !.blk = Nobody,
                                 !.saw = fills_table(available_msgs)]
  <2>1. /\ At(s) = "post" /\ UNCHANGED <<ut, available_blocks, leaked, received, content>>
        /\ ot' = Append(ot, [blk |-> b, msg |-> <<s, m>>])
        /\ available_msgs' = available_msgs + 1
    BY <1>10 DEF send_post, insert_ot, usage, history, b, m
  <2>2. e \in LocalOf(s) /\ e.at = "event" /\ e.blk = Nobody /\ e.msg = m
    BY <1>0 DEF TypeLoc, LocalOf, Local, Locations, m, fills_table
  <2>3. trigger_one(Receiver, [loc EXCEPT ![s] = e])
    BY <1>10 DEF send_post
  <2> HIDE DEF e
  <2>4. Moves(s, {"event"}, Nobody, m)
    BY <1>0, <2>1, <2>2, <2>3, TriggerMoves DEF Process
  <2>5. <<s, m>> \in Message
    BY <1>0, <2>1 DEF Message, Fits
  <2>6. Placed'
    BY <1>0, <2>1, <2>4, <2>5, Post DEF b, Holding
  <2>7. Posts(s)
    BY <2>1, <2>4 DEF Posts, b, m
  <2> QED
    BY <2>6, <2>7
<1>11. CASE send_event(s)
  <2>1. At(s) = "event" /\ UNCHANGED still
    BY <1>11 DEF send_event, notify_set, usage, order, history, tables, still
  <2>2. Moves(s, {"flag"}, b, m)
    BY <1>0, <1>11 DEF send_event, notify_set, Moves, TypeLoc, LocalOf, Local, Locations, b, m
  <2> QED
    BY <1>0, <2>1, <2>2, SendsStay DEF b, m, Holding, Unposted
<1>12. CASE send_flag(s)
  <2>1. At(s) = "flag" /\ UNCHANGED still
    BY <1>12 DEF send_flag, usage, history, tables, still
  <2>2. Moves(s, {"notify"}, b, m)
    BY <1>0, <1>12 DEF send_flag, Moves, TypeLoc, LocalOf, Local, Locations, b, m
  <2> QED
    BY <1>0, <2>1, <2>2, SendsStay DEF b, m, Holding, Unposted
<1>13. CASE send_notify(s)
  <2>1. At(s) = "notify" /\ UNCHANGED still
    BY <1>13 DEF send_notify, usage, order, history, tables, still
  <2>2. Moves(s, {"idle"}, b, m)
    BY <1>0, <1>13, <2>1, ReturnMoves DEF send_notify, b, m, Holding
  <2> QED
    BY <1>0, <2>1, <2>2, SendsStay DEF b, m, Holding, Unposted
<1> QED
  BY <1>2, <1>3, <1>4, <1>5, <1>6, <1>7, <1>8, <1>9, <1>10, <1>11, <1>12, <1>13
     DEF SendCall, SendStep

\* The witnesses of ReceivesOn, for a step that moves no block.
LEMMA ReceivesStay ==
  ASSUME Base, NEW r \in Receiver, NEW to, NEW n, Moves(r, to, loc[r].blk, n), UNCHANGED still,
         \/ At(r) \in Holding /\ to \subseteq Holding
         \/ At(r) \notin Holding /\ to \cap Holding = {},
         \/ to \cap {"wake", "copy"} = {}
         \/ At(r) = "wake" /\ n = loc[r].msg
  PROVE  Placed' /\ ReceivesOn(r)
<1>1. Placed'
  BY Stay DEF Base, still, Process
<1>2. ReceivesOn(r)
  BY DEF still, tables, ReceivesOn
<1> QED
  BY <1>1, <1>2

\* Every step of a receive keeps the blocks in their places, and takes a message,
\* releases its block, or leaves the messages alone.
LEMMA ReceiveSteps ==
  ASSUME Base, NEW r \in Receiver, RecvCall(r)
  PROVE  Placed' /\ (ReceivesOn(r) \/ Pops(r) \/ Releases(r))
<1> DEFINE b == loc[r].blk
           m == loc[r].msg
<1> USE DEF Base
<1>0. /\ r \in Process /\ r \notin Sender /\ TypeOK
      /\ At(r) \notin Holding => b = Nobody
      /\ At(r) \in Holding => b # Nobody
  BY DEF Process, PlaceInv, HandsFull, Fits
<1> HIDE DEF b, m
<1>2. CASE get_start(r) \/ pop_start(r)
  <2>1. At(r) = "idle" /\ UNCHANGED still
    BY <1>2 DEF get_start, pop_start, usage, order, history, tables, still
  <2>2. ASSUME NEW l \in {"try", "take"}, NEW k \in {"nowait", "timed", "forever"},
               loc' = [loc EXCEPT ![r] = Calling(l, k, Nobody)]
        PROVE  Moves(r, {l}, b, Nobody)
    BY <1>0, <2>1, <2>2 DEF Calling, Moves, TypeLoc, LocalOf, Local, Locations, b, Holding
  <2>3. \E l \in {"try", "take"}, k \in {"nowait", "timed", "forever"} :
          loc' = [loc EXCEPT ![r] = Calling(l, k, Nobody)]
    BY <1>2 DEF get_start, pop_start, Fits
  <2> QED
    BY <1>0, <2>1, <2>2, <2>3, ReceivesStay DEF b, m, Holding
<1>3. CASE get_try(r)
  <2>1. At(r) = "try" /\ UNCHANGED still
    BY <1>3 DEF get_try, usage, order, history, tables, still
  <2>2. \E l \in {"idle", "check", "take"} : \E n : Moves(r, {l}, b, n)
    BY <1>0, <1>3, <2>1, AgainMoves, GotoMoves DEF get_try, Locations, b, Holding
  <2> QED
    BY <1>0, <2>1, <2>2, ReceivesStay DEF b, m, Holding
<1>4. CASE get_check(r)
  <2>1. At(r) = "check" /\ UNCHANGED still
    BY <1>4 DEF get_check, usage, order, history, tables, still
  <2>2. \E l \in {"blocked", "take"} : Moves(r, {l}, b, m)
    BY <1>0, <1>4, GotoMoves DEF get_check, Locations, b, m
  <2> QED
    BY <1>0, <2>1, <2>2, ReceivesStay DEF b, m, Holding
<1>5. CASE timeout(r)
  <2>1. At(r) \in {"check", "blocked"} /\ UNCHANGED still
    BY <1>5 DEF timeout, usage, order, history, tables, still
  <2>2. Moves(r, {"idle"}, b, Nobody)
    BY <1>0, <1>5, <2>1, ReturnMoves DEF timeout, b, Holding
  <2> QED
    BY <1>0, <2>1, <2>2, ReceivesStay DEF b, m, Holding
<1>6. CASE get_take(r)
  <2>1. At(r) = "take" /\ UNCHANGED <<ut, available_blocks, leaked, content>>
    BY <1>6 DEF get_take, usage
  <2>2. CASE ot = <<>> /\ available_msgs' = 0 /\ again(r) /\ UNCHANGED <<ot, received>>
    <3>1. \E l \in {"idle", "check"} : \E n : Moves(r, {l}, b, n)
      BY <1>0, <2>1, <2>2, AgainMoves DEF b, Holding
    <3>2. UNCHANGED still
      BY <2>1, <2>2 DEF still, tables, Placed, Counters
    <3> QED
      BY <1>0, <2>1, <3>1, <3>2, ReceivesStay DEF b, m, Holding
  <2>3. CASE /\ Return(r) \/ attempt_again(r)
             /\ UNCHANGED <<ot, available_msgs, received>>
    <3>1. \E to \in {{"idle"}, {"check", "try"}} : \E n : Moves(r, to, b, n)
      BY <1>0, <2>1, <2>3, ReturnMoves, AttemptMoves DEF b, Holding
    <3>2. UNCHANGED still
      BY <2>1, <2>3 DEF still, tables
    <3> QED
      BY <1>0, <2>1, <3>1, <3>2, ReceivesStay DEF b, m, Holding
  <2>4. CASE /\ ot # <<>> /\ ot' = Tail(ot) /\ available_msgs' = available_msgs - 1
             /\ loc' = [loc EXCEPT ![r].at = "wake", ![r].blk = Head(ot).blk,
                                   ![r].msg = Head(ot).msg]
             /\ received' = received \cup {Head(ot).msg}
    <3>1. Head(ot).blk \in Block /\ Head(ot).msg \in Message
      <4>1. Head(ot) \in [blk : Block, msg : Message]
        BY <1>0, <2>4, HeadTailProperties DEF TypeOK
      <4> QED
        BY <4>1
    <3>2. Moves(r, {"wake"}, Head(ot).blk, Head(ot).msg)
      BY <1>0, <2>4, <3>1 DEF Moves, TypeLoc, LocalOf, Local, Locations
    <3>3. Placed'
      BY <1>0, <2>1, <2>4, <3>2, Pop DEF Holding
    <3>4. Pops(r)
      BY <2>1, <2>4, <3>2 DEF Pops
    <3> QED
      BY <3>3, <3>4
  <2> QED
    BY <1>6, <2>2, <2>3, <2>4 DEF get_take
<1>7. CASE get_wake(r)
  <2> DEFINE e == [loc[r] EXCEPT !.at = "copy"]
  <2>1. At(r) = "wake" /\ UNCHANGED still
    BY <1>7 DEF get_wake, usage, order, history, tables, still
  <2>2. e \in LocalOf(r) /\ e.at = "copy" /\ e.blk = b /\ e.msg = m
    BY <1>0 DEF TypeLoc, LocalOf, Local, Locations, b, m
  <2>3. trigger_one(Receiver, [loc EXCEPT ![r] = e]) \/ loc' = [loc EXCEPT ![r] = e]
    BY <1>7 DEF get_wake
  <2> HIDE DEF e
  <2>4. Moves(r, {"copy"}, b, m)
    <3>1. CASE trigger_one(Receiver, [loc EXCEPT ![r] = e])
      BY <1>0, <2>1, <2>2, <3>1, TriggerMoves DEF Process
    <3>2. CASE loc' = [loc EXCEPT ![r] = e]
      BY <1>0, <2>2, <3>2 DEF Moves, TypeLoc
    <3> QED
      BY <2>3, <3>1, <3>2
  <2> QED
    BY <1>0, <2>1, <2>4, ReceivesStay DEF b, m, Holding
<1>8. CASE get_copy(r)
  <2>1. /\ At(r) = "copy"
        /\ UNCHANGED <<ut, available_blocks, ot, available_msgs, received, content>>
    BY <1>8 DEF get_copy, usage, order
  <2>2. CASE Goto(r, "release") /\ UNCHANGED leaked
    <3>1. Moves(r, {"release"}, b, m)
      BY <1>0, <2>2, GotoMoves DEF Locations, b, m
    <3>2. UNCHANGED still
      BY <2>1, <2>2 DEF still, tables
    <3> QED
      BY <1>0, <2>1, <3>1, <3>2, ReceivesStay DEF b, m, Holding
  <2>3. CASE leaked' = leaked \cup {b} /\ Return(r)
    <3>1. Moves(r, {"idle"}, Nobody, Nobody)
      BY <1>0, <2>3, ReturnMoves
    <3>2. Placed'
      BY <1>0, <2>1, <2>3, <3>1, Lose DEF b, Holding
    <3>3. ReceivesOn(r)
      BY <2>1, <3>1 DEF ReceivesOn
    <3> QED
      BY <3>2, <3>3
  <2> QED
    BY <1>8, <2>2, <2>3 DEF get_copy, b
<1>9. CASE _release_message_block(r)
  <2> DEFINE e == [loc[r] EXCEPT !.at = "event", !.blk = Nobody, !.msg = Nobody,
                                 !.saw = fills_table(available_blocks)]
  <2>1. /\ At(r) = "release" /\ UNCHANGED <<ot, available_msgs, leaked, received>>
        /\ content' = [content EXCEPT ![b] = Nobody] /\ insert_ut(b)
    BY <1>9 DEF _release_message_block, order, history, b
  <2>2. e \in LocalOf(r) /\ e.at = "event" /\ e.blk = Nobody /\ e.msg = Nobody
    BY <1>0 DEF TypeLoc, LocalOf, Local, Locations, fills_table
  <2>3. trigger_one(Sender, [loc EXCEPT ![r] = e])
    BY <1>9 DEF _release_message_block
  <2> HIDE DEF e
  <2>4. Moves(r, {"event"}, Nobody, Nobody)
    BY <1>0, <2>1, <2>2, <2>3, TriggerMoves DEF Process
  <2>5. Placed'
    BY <1>0, <2>1, <2>4, Give DEF b, Holding
  <2>6. Releases(r)
    BY <2>1, <2>4 DEF Releases, b
  <2> QED
    BY <2>5, <2>6
<1>10. CASE release_event(r)
  <2>1. At(r) = "event" /\ UNCHANGED still
    BY <1>10 DEF release_event, notify_set, usage, order, history, tables, still
  <2>2. Moves(r, {"flag"}, b, m)
    BY <1>0, <1>10 DEF release_event, notify_set, Moves, TypeLoc, LocalOf, Local, Locations,
                       b, m
  <2> QED
    BY <1>0, <2>1, <2>2, ReceivesStay DEF b, m, Holding
<1>11. CASE release_flag(r)
  <2>1. At(r) = "flag" /\ UNCHANGED still
    BY <1>11 DEF release_flag, order, history, tables, still
  <2>2. Moves(r, {"notify"}, b, m)
    BY <1>0, <1>11 DEF release_flag, Moves, TypeLoc, LocalOf, Local, Locations, b, m
  <2> QED
    BY <1>0, <2>1, <2>2, ReceivesStay DEF b, m, Holding
<1>12. CASE release_notify(r)
  <2>1. At(r) = "notify" /\ UNCHANGED still
    BY <1>12 DEF release_notify, usage, order, history, tables, still
  <2>2. \E to \in {{"idle"}, {"check", "try"}} : \E n : Moves(r, to, b, n)
    BY <1>0, <1>12, <2>1, ReturnMoves, AttemptMoves DEF release_notify, b, Holding
  <2> QED
    BY <1>0, <2>1, <2>2, ReceivesStay DEF b, m, Holding
<1> QED
  BY <1>2, <1>3, <1>4, <1>5, <1>6, <1>7, <1>8, <1>9, <1>10, <1>11, <1>12
     DEF RecvCall, RecvStep

-----------------------------------------------------------------------------
(* The invariant of the blocks                                             *)

\* Polls and the channel set touch no block.
PollStep ==
  \/ \E q \in Poller : dragon_channel_poll(q) \/ poll_timeout(q)
  \/ dragon_channelset_poll \/ channelset_wait \/ channelset_timeout
  \/ _channelset_sync \/ change_event_bcast

\* A step is one of a send, of a receive, or of a poll.
LEMMA NextCases ==
  ASSUME [Next]_vars
  PROVE  /\ UNCHANGED use
         /\ \/ UNCHANGED vars
            \/ \E s \in Sender : SendCall(s)
            \/ \E r \in Receiver : RecvCall(r)
            \/ PollStep /\ UNCHANGED <<usage, order, content, loc, history>>
BY DEF Next, vars, SendCall, RecvCall, PollStep, dragon_channel_poll, poll_timeout,
       dragon_channelset_poll, channelset_wait, channelset_timeout, _channelset_sync,
       change_event_bcast

\* TypeOK without the local variables and the counters.
TypeRest ==
  /\ ut \subseteq Block /\ ot \in Seq([blk : Block, msg : Message])
  /\ ut_lock \in Receiver \cup {Nobody} /\ ot_lock \in Sender \cup {Nobody}
  /\ content \in [Block -> Message \cup {Nobody}]
  /\ rec \in [mask : Masks \cup {"none"},
              triggered_since_last_recv : BOOLEAN, triggered_since_last_send : BOOLEAN]
  /\ set_poll \in {"idle", "waiting", "late"}
  /\ set_sync \in {"none", "started", "found", "over"}
  /\ poll \in [Poller -> PollMasks \cup {"idle"}]
  /\ received \subseteq Message /\ leaked \subseteq Block

\* The blocks of the messages in order are as many as the messages.
LEMMA QueuedCount ==
  ASSUME NEW q, NEW n \in Nat, DOMAIN q = 1 .. n,
         \A i, j \in 1 .. n : q[i].blk = q[j].blk => i = j
  PROVE  Cardinality({q[i].blk : i \in 1 .. n}) = n
<1> DEFINE f == [i \in 1 .. n |-> q[i].blk]
           S == {q[i].blk : i \in 1 .. n}
<1>1. f \in Bijection(1 .. n, S)
  BY DEF Bijection, Injection, Surjection, IsInjective
<1>2. ExistsBijection(1 .. n, S)
  BY <1>1 DEF ExistsBijection
<1> QED
  BY <1>2, FS_CountingElements

\* No table has more entries than there are blocks.
LEMMA TypeParts ==
  ASSUME Same, Fits, TypeRest', TypeLoc', Placed'
  PROVE  TypeOK'
<1>1. available_blocks' \in 0 .. Capacity
  <2>1. IsFiniteSet(Block) /\ ut' \in SUBSET Block
    BY ChannelAssumption DEF TypeRest
  <2>2. IsFiniteSet(ut') /\ Cardinality(ut') <= Cardinality(Block)
    BY <2>1, FS_Subset
  <2>3. Cardinality(ut') \in Nat /\ Cardinality(Block) \in Nat
    BY <2>1, <2>2, FS_CardinalityType
  <2> QED
    BY <2>2, <2>3 DEF Placed, Counters, Capacity
<1>2. available_msgs' \in 0 .. Capacity
  <2> DEFINE n == Len(ot')
             S == {ot'[i].blk : i \in 1 .. n}
  <2>1. n \in Nat /\ DOMAIN ot' = 1 .. n
    BY LenProperties DEF TypeRest
  <2>2. \A i \in 1 .. n : ot'[i] \in [blk : Block, msg : Message']
    BY <2>1, ElementOfSeq DEF TypeRest
  <2>3. S \in SUBSET Block
    BY <2>2
  <2>4. Cardinality(S) = n
    BY <2>1, QueuedCount DEF Placed, OnePlace
  <2>5. Cardinality(S) <= Cardinality(Block) /\ Cardinality(Block) \in Nat
    BY <2>3, FS_Subset, FS_CardinalityType, ChannelAssumption
  <2> QED
    BY <2>1, <2>4, <2>5 DEF Placed, Counters, Capacity
<1>3. /\ (DOMAIN loc = Sender \cup Receiver)'
      /\ \A s \in Sender' : loc'[s] \in Local(0 .. MaxSends)'
      /\ \A r \in Receiver' : loc'[r] \in Local(Message \cup {Nobody})'
  BY DEF TypeLoc, LocalOf, Process, Same, Fits, Local
<1> QED
  BY <1>1, <1>2, <1>3 DEF TypeOK, TypeRest

\* The types of what the steps of a send change.
LEMMA SendTypes ==
  ASSUME Base, NEW s \in Sender, SendCall(s)
  PROVE  TypeRest' /\ TypeLoc' /\ Numbered'
<1> USE DEF Base
<1>0. s \in Process /\ TypeOK /\ TypeRest /\ Numbered
  BY DEF Process, PlaceInv, TypeOK, TypeRest
<1>1. TypeLoc' /\ Numbered'
  <2>1. PICK to, c, n : Moves(s, to, c, n) /\ (n # 0 \/ to = {"idle"})
    <3>1. loc[s].msg \in 0 .. MaxSends /\ (At(s) # "idle" => loc[s].msg # 0)
      BY <1>0 DEF TypeOK, Local, Numbered
    <3>2. CASE SendsOn(s)
      BY <3>1, <3>2 DEF SendsOn
    <3>3. CASE Writes(s) \/ Posts(s)
      BY <3>1, <3>3 DEF Writes, Posts
    <3> QED
      BY <3>2, <3>3, SendSteps
  <2>2. \A q \in Process : loc'[q] \in LocalOf(q)
    BY <2>1 DEF Moves, Woke, TypeLoc
  <2>3. \A q \in Process : LocalOf(q)' = LocalOf(q)
    BY DEF Same, LocalOf, Local
  <2>4. TypeLoc'
    BY <2>1, <2>2, <2>3 DEF TypeLoc, Moves, Same
  <2>5. Numbered'
    BY <1>0, <2>1 DEF Numbered, Moves, Woke, At, Same, Process
  <2> QED
    BY <2>4, <2>5
<1>2. UNCHANGED poll \/ \E ms : trigger_all(ms)
  BY DEF SendCall, SendStep, send_start, send_try, send_check,
         timeout, send_take, send_wake,
         send_copy, _return_msgblk_to_ut, send_post, send_event, notify_set, send_flag,
         send_notify
<1>3. (poll \in [Poller -> PollMasks \cup {"idle"}])'
  BY <1>0, <1>2 DEF TypeRest, trigger_all, Same
<1>4. /\ (rec \in [mask : Masks \cup {"none"}, triggered_since_last_recv : BOOLEAN,
                   triggered_since_last_send : BOOLEAN])'
      /\ (set_poll \in {"idle", "waiting", "late"})'
      /\ (set_sync \in {"none", "started", "found", "over"})'
  BY <1>0
     DEF TypeRest, Masks, events, SendCall, SendStep, send_start, send_try, send_check,
         timeout, send_take,
         send_wake, send_copy, _return_msgblk_to_ut, send_post, send_event, notify_set,
         send_flag, send_notify
<1>5. (ut_lock \in Receiver \cup {Nobody} /\ ot_lock \in Sender \cup {Nobody})'
  BY <1>0
     DEF TypeRest, usage, order, Same, SendCall, SendStep, send_start, send_try,
         send_check, timeout,
         send_take, send_wake, send_copy, _return_msgblk_to_ut, send_post, send_event,
         notify_set, send_flag, send_notify
<1>6. (ut \subseteq Block /\ leaked \subseteq Block)'
  <2>1. At(s) \in Holding => loc[s].blk \in Block
    BY <1>0 DEF PlaceInv, HandsFull, TypeLoc, LocalOf, Local
  <2> QED
    BY <1>0, <2>1
       DEF TypeRest, usage, history, insert_ut, Holding, SendCall, SendStep, send_start, send_try,
           send_check, timeout, send_take, send_wake, send_copy, _return_msgblk_to_ut,
           send_post, send_event, notify_set, send_flag, send_notify
<1>7. At(s) \in {"copy", "post"} => loc[s].blk \in Block /\ <<s, loc[s].msg>> \in Message
  BY <1>0 DEF PlaceInv, HandsFull, Holding, TypeLoc, LocalOf, Local, Message, Numbered, Fits
<1>8. (ot \in Seq([blk : Block, msg : Message]))'
  <2>1. CASE UNCHANGED ot
    BY <1>0, <2>1 DEF TypeRest, Same
  <2>2. CASE Posts(s)
    BY <1>0, <1>7, <2>2, AppendProperties DEF Posts, TypeRest, Same
  <2> QED
    BY <2>1, <2>2, SendSteps DEF SendsOn, Writes
<1>9. (content \in [Block -> Message \cup {Nobody}])'
  <2>1. CASE UNCHANGED content
    BY <1>0, <2>1 DEF TypeRest, Same
  <2>2. CASE Writes(s)
    BY <1>0, <1>7, <2>2 DEF Writes, TypeRest, Same
  <2> QED
    BY <2>1, <2>2, SendSteps DEF SendsOn, Posts
<1>10. (received \subseteq Message)'
  BY <1>0, SendSteps DEF SendsOn, Writes, Posts, TypeRest, Same
<1> QED
  BY <1>1, <1>3, <1>4, <1>5, <1>6, <1>8, <1>9, <1>10 DEF TypeRest

\* The types of what the steps of a receive change.
LEMMA ReceiveTypes ==
  ASSUME Base, NEW r \in Receiver, RecvCall(r)
  PROVE  TypeRest' /\ TypeLoc' /\ Numbered'
<1> USE DEF Base
<1>0. r \in Process /\ r \notin Sender /\ TypeOK /\ TypeRest /\ Numbered
  BY DEF Process, PlaceInv, TypeOK, TypeRest, Fits
<1>1. TypeLoc' /\ Numbered'
  <2>1. PICK to, c, n : Moves(r, to, c, n)
    BY ReceiveSteps DEF ReceivesOn, Pops, Releases
  <2>2. \A q \in Process : loc'[q] \in LocalOf(q)
    BY <2>1 DEF Moves, Woke, TypeLoc
  <2>3. \A q \in Process : LocalOf(q)' = LocalOf(q)
    BY DEF Same, LocalOf, Local
  <2>4. TypeLoc'
    BY <2>1, <2>2, <2>3 DEF TypeLoc, Moves, Same
  <2>5. Numbered'
    BY <1>0, <2>1 DEF Numbered, Moves, Woke, At, Same, Process
  <2> QED
    BY <2>4, <2>5
<1>2. UNCHANGED poll \/ \E ms : trigger_all(ms)
  BY DEF RecvCall, RecvStep, get_start, pop_start, get_try, get_check, timeout, get_take,
         get_wake, get_copy, _release_message_block, release_event, notify_set,
         release_flag, release_notify
<1>3. (poll \in [Poller -> PollMasks \cup {"idle"}])'
  BY <1>0, <1>2 DEF TypeRest, trigger_all, Same
<1>4. /\ (rec \in [mask : Masks \cup {"none"}, triggered_since_last_recv : BOOLEAN,
                   triggered_since_last_send : BOOLEAN])'
      /\ (set_poll \in {"idle", "waiting", "late"})'
      /\ (set_sync \in {"none", "started", "found", "over"})'
  BY <1>0
     DEF TypeRest, Masks, events, RecvCall, RecvStep, get_start, pop_start, get_try,
         get_check, timeout, get_take, get_wake, get_copy, _release_message_block,
         release_event, notify_set, release_flag, release_notify
<1>5. (ut_lock \in Receiver \cup {Nobody} /\ ot_lock \in Sender \cup {Nobody})'
  BY <1>0
     DEF TypeRest, usage, order, Same, RecvCall, RecvStep, get_start, pop_start, get_try,
         get_check, timeout, get_take, get_wake, get_copy, _release_message_block,
         release_event, notify_set, release_flag, release_notify
<1>6. (ut \subseteq Block /\ leaked \subseteq Block)'
  <2>1. At(r) \in Holding => loc[r].blk \in Block
    BY <1>0 DEF PlaceInv, HandsFull, TypeLoc, LocalOf, Local
  <2> QED
    BY <1>0, <2>1
       DEF TypeRest, usage, history, insert_ut, Holding, RecvCall, RecvStep, get_start,
           pop_start, get_try, get_check, timeout, get_take, get_wake, get_copy,
           _release_message_block, release_event, notify_set, release_flag, release_notify
<1>7. (ot \in Seq([blk : Block, msg : Message]) /\ received \subseteq Message)'
  <2>1. CASE UNCHANGED <<ot, received>>
    BY <1>0, <2>1 DEF TypeRest, Same
  <2>2. CASE Pops(r)
    <3>1. Head(ot) \in [blk : Block, msg : Message]
      BY <1>0, <2>2, HeadTailProperties DEF Pops, TypeRest
    <3> QED
      BY <1>0, <2>2, <3>1, HeadTailProperties DEF Pops, TypeRest, Same
  <2> QED
    BY <2>1, <2>2, ReceiveSteps DEF ReceivesOn, Releases
<1>8. (content \in [Block -> Message \cup {Nobody}])'
  BY <1>0, ReceiveSteps DEF ReceivesOn, Pops, Releases, TypeRest, Same
<1> QED
  BY <1>1, <1>3, <1>4, <1>5, <1>6, <1>7, <1>8 DEF TypeRest

\* The types of what polls and the channel set change.
LEMMA PollTypes ==
  ASSUME Base, PollStep, UNCHANGED <<usage, order, content, loc, history>>
  PROVE  TypeRest'
<1> USE DEF Base
<1>0. TypeRest
  BY DEF PlaceInv, TypeOK, TypeRest
<1>1. (poll \in [Poller -> PollMasks \cup {"idle"}])'
  BY <1>0
     DEF TypeRest, Same, PollStep, dragon_channel_poll, poll_timeout, dragon_channelset_poll,
         channelset_wait, channelset_timeout, _channelset_sync, change_event_bcast
<1>2. (rec \in [mask : Masks \cup {"none"}, triggered_since_last_recv : BOOLEAN,
                triggered_since_last_send : BOOLEAN])'
  <2>1. CASE UNCHANGED rec
    BY <1>0, <2>1 DEF TypeRest, Masks
  <2>2. CASE change_event_bcast
    <3>1. PICK x \in Masks \cup {"none"} : rec' = EventRecord(x)
      BY <2>2 DEF change_event_bcast, Fits
    <3> QED
      BY <3>1 DEF EventRecord, Masks
  <2> QED
    BY <2>1, <2>2
       DEF PollStep, events, dragon_channel_poll, poll_timeout, dragon_channelset_poll,
           channelset_wait, channelset_timeout, _channelset_sync
<1>3. /\ (set_poll \in {"idle", "waiting", "late"})'
      /\ (set_sync \in {"none", "started", "found", "over"})'
  BY <1>0
     DEF TypeRest, events, PollStep, dragon_channel_poll, poll_timeout,
         dragon_channelset_poll, channelset_wait, channelset_timeout, _channelset_sync,
         change_event_bcast
<1> QED
  BY <1>0, <1>1, <1>2, <1>3 DEF TypeRest, usage, order, history, Same

\* A new channel has all its blocks in the usage table.
LEMMA InitPlaced == Init => PlaceInv
<1> SUFFICES ASSUME Init PROVE PlaceInv
  OBVIOUS
<1>1. use \in Uses /\ Fits
  BY UseFits DEF Init
<1>2. TypeLoc
  BY <1>1 DEF Init, TypeLoc, Process, LocalOf, Local, Locations, NotCalling, Calling, Fits
<1>3. Capacity \in Nat
  BY ChannelAssumption, FS_CardinalityType DEF Capacity
<1>4. TypeOK
  <2>1. /\ DOMAIN loc = Sender \cup Receiver
        /\ \A s \in Sender : loc[s] \in Local(0 .. MaxSends)
        /\ \A r \in Receiver : loc[r] \in Local(Message \cup {Nobody})
    BY <1>1, <1>2 DEF TypeLoc, LocalOf, Process, Fits
  <2>2. /\ ot \in Seq([blk : Block, msg : Message]) /\ available_msgs \in 0 .. Capacity
        /\ ut \subseteq Block /\ available_blocks \in 0 .. Capacity
        /\ content \in [Block -> Message \cup {Nobody}]
    BY <1>3, EmptySeq DEF Init
  <2>3. rec \in [mask : Masks \cup {"none"}, triggered_since_last_recv : BOOLEAN,
                triggered_since_last_send : BOOLEAN]
    BY DEF Init, EventRecord
  <2> QED
    BY <2>1, <2>2, <2>3 DEF Init, TypeOK
<1>5. HandsFull /\ Numbered
  BY DEF Init, HandsFull, Numbered, Process, Holding, NotCalling, Calling, At
<1>6. OnePlace /\ SomePlace /\ Counters
  BY <1>1 DEF Init, OnePlace, SomePlace, Counters, Process, NotCalling, Calling, Capacity, Fits
<1> QED
  BY <1>1, <1>4, <1>5, <1>6 DEF PlaceInv

\* Every step keeps each block in one place.
LEMMA StepPlaced == PlaceInv /\ [Next]_vars => PlaceInv'
<1> SUFFICES ASSUME PlaceInv, [Next]_vars PROVE PlaceInv'
  OBVIOUS
<1>1. Base /\ use' \in Uses
  BY NextCases, BaseFacts DEF PlaceInv
<1>2. SUFFICES Placed' /\ TypeOK' /\ Numbered'
  BY <1>1, <1>2 DEF PlaceInv, Placed
<1>3. CASE UNCHANGED <<usage, order, content, loc, history>> /\ TypeRest'
  <2>1. Placed' /\ Numbered' /\ TypeLoc'
    BY <1>1, <1>3
       DEF Base, PlaceInv, usage, order, history, Placed, HandsFull, OnePlace, SomePlace,
           Counters, Numbered, TypeLoc, LocalOf, Local, At, Same
  <2> QED
    BY <1>1, <1>3, <2>1, TypeParts DEF Base
<1>4. CASE UNCHANGED vars
  BY <1>1, <1>3, <1>4
     DEF vars, Base, PlaceInv, TypeOK, TypeRest, usage, order, history, events, Same
<1>5. CASE PollStep /\ UNCHANGED <<usage, order, content, loc, history>>
  BY <1>1, <1>3, <1>5, PollTypes
<1>6. ASSUME NEW s \in Sender, SendCall(s) PROVE Placed' /\ TypeOK' /\ Numbered'
  BY <1>1, <1>6, SendSteps, SendTypes, TypeParts DEF Base
<1>7. ASSUME NEW r \in Receiver, RecvCall(r) PROVE Placed' /\ TypeOK' /\ Numbered'
  BY <1>1, <1>7, ReceiveSteps, ReceiveTypes, TypeParts DEF Base
<1> QED
  BY <1>4, <1>5, <1>6, <1>7, NextCases

\* The invariant says that every block is in exactly one place.
LEMMA PlacesCounted == PlaceInv => BlocksConserved
<1> SUFFICES ASSUME PlaceInv PROVE BlocksConserved
  OBVIOUS
<1> USE DEF PlaceInv
<1>0. Fits
  BY UseFits
<1>1. Cardinality(Queued) = Len(ot)
  <2>1. Queued = {ot[i].blk : i \in 1 .. Len(ot)}
    BY <1>0, BlockTypes DEF Queued
  <2> QED
    BY <1>0, <2>1, BlockTypes, QueuedCount DEF OnePlace
<1>2. ASSUME NEW b \in Block
      PROVE  (IF b \in ut THEN 1 ELSE 0) + (IF b \in Queued THEN 1 ELSE 0)
               + (IF b \in leaked THEN 1 ELSE 0)
               + Cardinality({p \in Sender \cup Receiver : b \in Held(p)}) = 1
  <2> DEFINE H == {p \in Sender \cup Receiver : b \in Held(p)}
  <2>0. H = {p \in Process : loc[p].blk = b}
    BY <1>0 DEF Held, Process, Fits
  <2>1. b \in Queued <=> \E i \in DOMAIN ot : ot[i].blk = b
    BY DEF Queued
  <2>2. CASE \E p \in Process : loc[p].blk = b
    <3>1. PICK p \in Process : loc[p].blk = b
      BY <2>2
    <3>2. H = {p}
      BY <1>0, <2>0, <3>1 DEF OnePlace, Fits
    <3>3. b \notin ut /\ b \notin leaked /\ b \notin Queued
      BY <2>1, <3>1 DEF OnePlace
    <3> QED
      BY <3>2, <3>3, FS_Singleton
  <2>3. CASE ~ \E p \in Process : loc[p].blk = b
    <3>1. H = {}
      BY <2>0, <2>3
    <3>2. b \in ut => b \notin leaked /\ b \notin Queued
      BY <2>1 DEF OnePlace
    <3>3. b \in leaked => b \notin ut /\ b \notin Queued
      BY <2>1 DEF OnePlace
    <3>4. b \in ut \/ b \in leaked \/ b \in Queued
      BY <2>1, <2>3 DEF SomePlace
    <3> QED
      BY <3>1, <3>2, <3>3, <3>4, FS_EmptySet
  <2> QED
    BY <2>2, <2>3
<1> QED
  BY <1>1, <1>2 DEF BlocksConserved, Counters

\* On every path of sends and receives, error returns included, a message block is
\* free, in order, in the hands of one call or lost, and the counters are right.
THEOREM BlocksAreConserved == Spec => []BlocksConserved
<1>1. Spec => []PlaceInv
  BY InitPlaced, StepPlaced, PTL DEF Spec
<1> QED
  BY <1>1, PlacesCounted, PTL

-----------------------------------------------------------------------------
(* Payloads                                                                *)

\* A step of a send spoils no payload: the block it writes to is in its hands only.
LEMMA SendIntact ==
  ASSUME Base, Written, Intact, NEW s \in Sender, SendCall(s)
  PROVE  Written' /\ Intact'
<1> USE DEF Base
<1>0. /\ OnePlace /\ Sender \subseteq Process /\ Receiver \subseteq Process
      /\ s \notin Receiver /\ Sender' = Sender /\ Receiver' = Receiver
      /\ content \in [Block -> Message \cup {Nobody}]
      /\ \A i \in DOMAIN ot : ot[i].blk \in Block
      /\ At(s) \in Holding => loc[s].blk \in Block
  BY BlockTypes DEF PlaceInv, Process, Fits, Same, TypeOK, HandsFull, TypeLoc, LocalOf, Local
<1>1. CASE SendsOn(s)
  <2>1. PICK to, c, n : Moves(s, to, c, n) /\ "post" \notin to
    BY <1>1 DEF SendsOn
  <2> QED
    BY <1>0, <1>1, <2>1 DEF SendsOn, Moves, Woke, Written, Intact, At
<1>2. CASE Writes(s)
  <2>1. \A i \in DOMAIN ot : ot[i].blk # loc[s].blk
    BY <1>0 DEF OnePlace
  <2>2. \A p \in Process \ {s} :
          At(p) \in Holding => loc[p].blk # loc[s].blk /\ loc[p].blk \in Block
    BY <1>0, <1>2 DEF OnePlace, PlaceInv, HandsFull, TypeLoc, LocalOf, Local
  <2>3. loc[s].blk \in Block
    BY <1>0, <1>2 DEF Writes, Holding
  <2>4. \A p \in Process \ {s} : At(p)' \in Holding => loc'[p] = loc[p]
    BY <1>2 DEF Writes, Moves, Woke, At, Holding
  <2>5. Intact'
    BY <1>0, <1>2, <2>1, <2>2, <2>4 DEF Writes, Intact, At, Holding
  <2>6. Written'
    BY <1>0, <1>2, <2>2, <2>3, <2>4 DEF Writes, Written, Moves, At, Holding
  <2> QED
    BY <2>5, <2>6
<1>3. CASE Posts(s)
  <2>1. ot \in Seq([blk : Block, msg : Message]) /\ <<s, loc[s].msg>> \in Message
    BY <1>3 DEF PlaceInv, TypeOK, Posts, Numbered, Local, Message, Fits
  <2>2. loc[s].blk \in Block
    BY <1>0, <1>3 DEF Posts, Holding
  <2>3. /\ DOMAIN ot' = 1 .. Len(ot) + 1 /\ DOMAIN ot = 1 .. Len(ot) /\ Len(ot) \in Nat
        /\ ot'[Len(ot) + 1] = [blk |-> loc[s].blk, msg |-> <<s, loc[s].msg>>]
        /\ \A i \in 1 .. Len(ot) : ot'[i] = ot[i]
    BY <1>3, <2>1, <2>2 DEF Posts
  <2>4. /\ \A i \in 1 .. Len(ot) : content[ot'[i].blk] = ot'[i].msg
        /\ content[ot'[Len(ot) + 1].blk] = ot'[Len(ot) + 1].msg
    <3>1. \A i \in 1 .. Len(ot) : content[ot'[i].blk] = ot'[i].msg
      BY <2>3 DEF Intact
    <3>2. content[loc[s].blk] = <<s, loc[s].msg>>
      BY <1>3 DEF Posts, Written
    <3> QED
      BY <2>3, <3>1, <3>2
  <2>5. \A p \in Process \ {s} : At(p)' \in Holding => loc'[p] = loc[p]
    BY <1>3 DEF Posts, Moves, Woke, At, Holding
  <2>6. \A i \in DOMAIN ot' : content'[ot'[i].blk] = ot'[i].msg
    BY <1>3, <2>3, <2>4 DEF Posts
  <2>7. \A r \in Receiver : At(r)' \in {"wake", "copy"} => content'[loc'[r].blk] = loc'[r].msg
    BY <1>0, <1>3, <2>5 DEF Posts, Intact, At, Holding
  <2>8. Intact'
    BY <1>0, <2>6, <2>7 DEF Intact
  <2>9. Written'
    BY <1>0, <1>3, <2>5 DEF Posts, Moves, Written, At, Holding
  <2> QED
    BY <2>8, <2>9
<1> QED
  BY <1>1, <1>2, <1>3, SendSteps

\* Nor does one of a receive: it clears the block that is in its hands only.
LEMMA ReceiveIntact ==
  ASSUME Base, Written, Intact, NEW r \in Receiver, RecvCall(r)
  PROVE  Written' /\ Intact'
<1> USE DEF Base
<1>0. /\ OnePlace /\ Sender \subseteq Process /\ Receiver \subseteq Process
      /\ r \notin Sender /\ Sender' = Sender /\ Receiver' = Receiver
      /\ content \in [Block -> Message \cup {Nobody}]
      /\ \A i \in DOMAIN ot : ot[i].blk \in Block
  BY BlockTypes DEF PlaceInv, Process, Fits, Same, TypeOK
<1>1. CASE ReceivesOn(r)
  <2>1. PICK to, c, n :
          /\ Moves(r, to, c, n)
          /\ \/ to \cap {"wake", "copy"} = {}
             \/ At(r) = "wake" /\ c = loc[r].blk /\ n = loc[r].msg
    BY <1>1 DEF ReceivesOn
  <2> QED
    BY <1>0, <1>1, <2>1 DEF ReceivesOn, Moves, Woke, Written, Intact, At
<1>2. CASE Pops(r)
  <2>0. ot \in Seq([blk : Block, msg : Message]) /\ ot # <<>>
    BY <1>2 DEF PlaceInv, TypeOK, Pops
  <2>1. /\ Len(ot) \in Nat \ {0} /\ DOMAIN ot = 1 .. Len(ot)
        /\ Tail(ot) \in Seq([blk : Block, msg : Message]) /\ Len(Tail(ot)) = Len(ot) - 1
        /\ \A i \in 1 .. Len(ot) - 1 : Tail(ot)[i] = ot[i + 1]
    BY <2>0, EmptySeq, LenProperties, HeadTailProperties
  <2>2. DOMAIN Tail(ot) = 1 .. Len(ot) - 1
    BY <2>1, LenProperties
  <2>3. Head(ot) = ot[1]
    BY <2>0
  <2>4. \A i \in DOMAIN ot' : content[ot'[i].blk] = ot'[i].msg
    BY <1>2, <2>1, <2>2 DEF Pops, Intact
  <2>5. content[Head(ot).blk] = Head(ot).msg
    BY <2>1, <2>3 DEF Intact
  <2>6. \A p \in Process \ {r} : At(p)' \in {"wake", "copy", "post"} => loc'[p] = loc[p] /\ At(p)' = At(p)
    BY <1>2 DEF Pops, Moves, Woke, At
  <2>7. /\ At(r)' = "wake" /\ loc'[r].blk = Head(ot).blk /\ loc'[r].msg = Head(ot).msg
        /\ content' = content
    BY <1>2 DEF Pops, Moves, At
  <2>8. Intact'
    BY <1>0, <2>4, <2>5, <2>6, <2>7 DEF Intact
  <2>9. Written'
    BY <1>0, <2>6, <2>7 DEF Written
  <2> QED
    BY <2>8, <2>9
<1>3. CASE Releases(r)
  <2>1. \A i \in DOMAIN ot : ot[i].blk # loc[r].blk
    BY <1>0 DEF OnePlace
  <2>2. \A p \in Process \ {r} :
          At(p) \in Holding => loc[p].blk # loc[r].blk /\ loc[p].blk \in Block
    BY <1>0, <1>3 DEF OnePlace, PlaceInv, HandsFull, TypeLoc, LocalOf, Local
  <2>4. \A p \in Process \ {r} : At(p)' \in Holding => loc'[p] = loc[p]
    BY <1>3 DEF Releases, Moves, Woke, At, Holding
  <2>5. Intact'
    BY <1>0, <1>3, <2>1, <2>2, <2>4 DEF Releases, Intact, Moves, At, Holding
  <2>6. Written'
    BY <1>0, <1>3, <2>2, <2>4 DEF Releases, Written, At, Holding
  <2> QED
    BY <2>5, <2>6
<1> QED
  BY <1>1, <1>2, <1>3, ReceiveSteps

\* What a receiver reads is what its sender wrote, whatever other calls do meanwhile.
THEOREM PayloadsIntact == Spec => []Intact
<1>1. Init => IntactInv
  BY InitPlaced DEF Init, IntactInv, Written, Intact, NotCalling, Calling, At
<1>2. IntactInv /\ [Next]_vars => IntactInv'
  <2> SUFFICES ASSUME IntactInv, [Next]_vars PROVE Written' /\ Intact'
    BY StepPlaced DEF IntactInv
  <2>1. Base /\ Written /\ Intact
    BY NextCases, BaseFacts DEF IntactInv
  <2>2. CASE UNCHANGED <<ot, content, loc>>
    BY <2>1, <2>2 DEF Base, Same, Written, Intact, At
  <2>3. ASSUME NEW s \in Sender, SendCall(s) PROVE Written' /\ Intact'
    BY <2>1, <2>3, SendIntact
  <2>4. ASSUME NEW r \in Receiver, RecvCall(r) PROVE Written' /\ Intact'
    BY <2>1, <2>4, ReceiveIntact
  <2> QED
    BY <2>2, <2>3, <2>4, NextCases DEF vars, order
<1> QED
  BY <1>1, <1>2, PTL DEF Spec, IntactInv

-----------------------------------------------------------------------------
(* Order                                                                   *)

\* What is compared in the invariant are numbers.
LEMMA MessageTypes ==
  ASSUME Base
  PROVE  /\ \A i \in DOMAIN ot : ot[i].msg[1] \in Sender /\ ot[i].msg[2] \in Int
         /\ \A m \in received : m[1] \in Sender /\ m[2] \in Int
         /\ \A s \in Sender : loc[s].msg \in Int
<1>1. \A i \in DOMAIN ot : ot[i].msg \in Message
  <2>1. ot \in Seq([blk : Block, msg : Message])
    BY DEF Base, PlaceInv, TypeOK
  <2>2. \A i \in 1 .. Len(ot) : ot[i] \in [blk : Block, msg : Message]
    BY <2>1, ElementOfSeq
  <2> QED
    BY <2>1, <2>2
<1>2. received \subseteq Message
  BY DEF Base, PlaceInv, TypeOK
<1>3. \A s \in Sender : loc[s].msg \in 0 .. MaxSends
  BY DEF Base, PlaceInv, TypeOK, Local
<1> QED
  BY <1>1, <1>2, <1>3 DEF Message, Base, Fits

\* A step of a send keeps its messages in order: the one it puts there has a larger
\* number than those it put there before.
LEMMA SendOrder ==
  ASSUME Base, Past, InOrder, NEW s \in Sender, SendCall(s)
  PROVE  Past' /\ InOrder'
<1>0. /\ Sender' = Sender /\ s \in Process /\ Sender \subseteq Process
  BY DEF Base, Same, Process
<1>1. CASE SendsOn(s)
  <2>1. PICK to, c, n :
          /\ Moves(s, to, c, n)
          /\ \/ n = loc[s].msg + 1
             \/ /\ n = loc[s].msg /\ At(s) # "idle"
                /\ At(s) \in Unposted \/ to \cap Unposted = {}
    BY <1>1 DEF SendsOn
  <2>2. /\ loc'[s].msg = n /\ At(s)' \in to
        /\ \A q \in Sender \ {s} :
             loc'[q].msg = loc[q].msg /\ (At(q)' \in Unposted => At(q) \in Unposted)
    BY <1>0, <2>1 DEF Moves, Woke, At, Unposted
  <2>3. Past'
    BY <1>0, <1>1, <2>1, <2>2, MessageTypes DEF SendsOn, Past
  <2> QED
    BY <1>1, <2>3 DEF SendsOn, InOrder
<1>2. CASE Writes(s)
  <2>1. /\ loc'[s].msg = loc[s].msg /\ At(s) \in Unposted
        /\ \A q \in Sender \ {s} :
             loc'[q].msg = loc[q].msg /\ (At(q)' \in Unposted => At(q) \in Unposted)
    BY <1>0, <1>2 DEF Writes, Moves, Woke, At, Unposted
  <2> QED
    BY <1>0, <1>2, <2>1 DEF Writes, Past, InOrder
<1>3. CASE Posts(s)
  <2>1. /\ loc'[s].msg = loc[s].msg /\ At(s) \in Unposted /\ At(s)' \notin Unposted
        /\ \A q \in Sender \ {s} :
             loc'[q].msg = loc[q].msg /\ (At(q)' \in Unposted => At(q) \in Unposted)
    BY <1>0, <1>3 DEF Posts, Moves, Woke, At, Unposted
  <2>2. ot \in Seq([blk : Block, msg : Message]) /\ <<s, loc[s].msg>> \in Message
    BY <1>3 DEF Base, PlaceInv, TypeOK, Posts, Numbered, Local, Message, Fits
  <2>3. loc[s].blk \in Block
    BY <1>0, <1>3 DEF Posts, Holding, Base, PlaceInv, HandsFull, TypeLoc, LocalOf, Local
  <2>4. /\ DOMAIN ot' = 1 .. Len(ot) + 1 /\ DOMAIN ot = 1 .. Len(ot) /\ Len(ot) \in Nat
        /\ ot'[Len(ot) + 1].msg = <<s, loc[s].msg>>
        /\ \A i \in 1 .. Len(ot) : ot'[i] = ot[i]
    BY <1>3, <2>2, <2>3 DEF Posts
  <2>5. /\ \A i \in 1 .. Len(ot) : ot[i].msg[1] = s => ot[i].msg[2] < loc[s].msg
        /\ \A m \in received : m[1] = s => m[2] < loc[s].msg
    BY <2>1, <2>4 DEF Past
  <2>6. InOrder'
    <3>1. ot'[Len(ot) + 1].msg[1] = s /\ ot'[Len(ot) + 1].msg[2] = loc[s].msg
      BY <2>4
    <3>2. \A i \in 1 .. Len(ot) :
            ot'[i].msg[1] = s => ot'[i].msg[2] < ot'[Len(ot) + 1].msg[2]
      BY <2>4, <2>5, <3>1
    <3>3. ASSUME NEW i \in DOMAIN ot', NEW j \in DOMAIN ot', i < j,
                 ot'[i].msg[1] = ot'[j].msg[1]
          PROVE  ot'[i].msg[2] < ot'[j].msg[2]
      <4>1. CASE j = Len(ot) + 1
        <5>1. i \in 1 .. Len(ot)
          BY <2>4, <3>3, <4>1
        <5> QED
          BY <3>1, <3>2, <3>3, <4>1, <5>1
      <4>2. CASE j \in 1 .. Len(ot)
        <5>1. i \in 1 .. Len(ot)
          BY <2>4, <3>3, <4>2
        <5> QED
          BY <2>4, <3>3, <4>2, <5>1 DEF InOrder
      <4> QED
        BY <2>4, <4>1, <4>2
    <3>4. ASSUME NEW i \in DOMAIN ot', NEW m \in received', m[1] = ot'[i].msg[1]
          PROVE  m[2] < ot'[i].msg[2]
      <4>1. m \in received
        BY <1>3 DEF Posts
      <4>2. CASE i = Len(ot) + 1
        BY <2>5, <3>1, <3>4, <4>1, <4>2
      <4>3. CASE i \in 1 .. Len(ot)
        BY <2>4, <3>4, <4>1, <4>3 DEF InOrder
      <4> QED
        BY <2>4, <4>2, <4>3
    <3> QED
      BY <3>3, <3>4 DEF InOrder
  <2>7. Past'
    BY <1>0, <1>3, <2>1, <2>4, MessageTypes DEF Posts, Past
  <2> QED
    BY <2>6, <2>7
<1> QED
  BY <1>1, <1>2, <1>3, SendSteps

\* A step of a receive does, too: the message it takes is the first in order.
LEMMA ReceiveOrder ==
  ASSUME Base, Past, InOrder, NEW r \in Receiver, RecvCall(r)
  PROVE  Past' /\ InOrder'
<1>0. /\ Sender' = Sender /\ r \in Process /\ Sender \subseteq Process /\ r \notin Sender
  BY DEF Base, Same, Process, Fits
<1>1. ASSUME NEW to, NEW c, NEW n, Moves(r, to, c, n)
      PROVE  \A q \in Sender :
               loc'[q].msg = loc[q].msg /\ (At(q)' \in Unposted => At(q) \in Unposted)
  BY <1>0, <1>1 DEF Moves, Woke, At, Unposted
<1>2. CASE ReceivesOn(r) \/ Releases(r)
  <2>1. \A q \in Sender :
          loc'[q].msg = loc[q].msg /\ (At(q)' \in Unposted => At(q) \in Unposted)
    BY <1>1, <1>2 DEF ReceivesOn, Releases
  <2>2. UNCHANGED <<ot, received>>
    BY <1>2 DEF ReceivesOn, Releases
  <2> QED
    BY <1>0, <2>1, <2>2 DEF Past, InOrder
<1>3. CASE Pops(r)
  <2>1. \A q \in Sender :
          loc'[q].msg = loc[q].msg /\ (At(q)' \in Unposted => At(q) \in Unposted)
    BY <1>1, <1>3 DEF Pops
  <2>2. ot \in Seq([blk : Block, msg : Message]) /\ ot # <<>>
    BY <1>3 DEF Base, PlaceInv, TypeOK, Pops
  <2>3. /\ Len(ot) \in Nat \ {0} /\ DOMAIN ot = 1 .. Len(ot)
        /\ Tail(ot) \in Seq([blk : Block, msg : Message]) /\ Len(Tail(ot)) = Len(ot) - 1
        /\ \A i \in 1 .. Len(ot) - 1 : Tail(ot)[i] = ot[i + 1]
    BY <2>2, EmptySeq, LenProperties, HeadTailProperties
  <2>4. DOMAIN Tail(ot) = 1 .. Len(ot) - 1 /\ 1 \in DOMAIN ot
    BY <2>3, LenProperties
  <2>5. Head(ot) = ot[1]
    BY <2>2
  <2>6. \A i \in DOMAIN ot' : ot'[i] = ot[i + 1] /\ i + 1 \in DOMAIN ot /\ 1 < i + 1 /\ i \in Int
    BY <1>3, <2>3, <2>4 DEF Pops
  <2>7. received' = received \cup {ot[1].msg}
    BY <1>3, <2>5 DEF Pops
  <2>8. InOrder'
    BY <2>4, <2>6, <2>7 DEF InOrder
  <2>9. Past'
    BY <1>0, <2>1, <2>4, <2>6, <2>7 DEF Past
  <2> QED
    BY <2>8, <2>9
<1> QED
  BY <1>2, <1>3, ReceiveSteps

\* A message is received once at most, and those of a sender as it sent them.
THEOREM MessagesInOrder == Spec => []InOrder
<1>1. Init => OrderInv
  BY InitPlaced DEF Init, OrderInv, Past, InOrder
<1>2. OrderInv /\ [Next]_vars => OrderInv'
  <2> SUFFICES ASSUME OrderInv, [Next]_vars PROVE Past' /\ InOrder'
    BY StepPlaced DEF OrderInv
  <2>1. Base /\ Past /\ InOrder
    BY NextCases, BaseFacts DEF OrderInv
  <2>2. CASE UNCHANGED <<ot, received, loc>>
    BY <2>1, <2>2 DEF Base, Same, Past, InOrder, At
  <2>3. ASSUME NEW s \in Sender, SendCall(s) PROVE Past' /\ InOrder'
    BY <2>1, <2>3, SendOrder
  <2>4. ASSUME NEW r \in Receiver, RecvCall(r) PROVE Past' /\ InOrder'
    BY <2>1, <2>4, ReceiveOrder
  <2> QED
    BY <2>2, <2>3, <2>4, NextCases DEF vars, order, history
<1> QED
  BY <1>1, <1>2, PTL DEF Spec, OrderInv

==============================================================================
