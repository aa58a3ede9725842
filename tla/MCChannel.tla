------------------------------ MODULE MCChannel ------------------------------
(* Model-checking instances of the channel. *)
EXTENDS Channel, TLC

CONSTANTS s1, s2, s3, r1, r2, q1, b1, b2

\* Every error return, with timeouts.
Errors == [sender |-> {s1, s2}, receiver |-> {r1}, poller |-> {}, sends |-> 2,
           kinds |-> {"timed"}, poll_masks |-> {}, set_masks |-> {},
           send_errors |-> {"fail", "leak"}, recv_errors |-> {"refuse", "lose", "discard"}]

\* More senders than blocks, and a poller.
Wakeups == [sender |-> {s1, s2, s3}, receiver |-> {r1, r2}, poller |-> {q1}, sends |-> 1,
            kinds |-> {"timed"}, poll_masks |-> Masks, set_masks |-> {},
            send_errors |-> {}, recv_errors |-> {}]

\* A channel set, with more senders than blocks.
Sets == [sender |-> {s1, s2, s3}, receiver |-> {r1}, poller |-> {}, sends |-> 1,
         kinds |-> {"timed"}, poll_masks |-> {},
         set_masks |-> {"POLLINOUT", "POLLEMPTY", "POLLFULL"},
         send_errors |-> {}, recv_errors |-> {}]

AllUses == {Errors, Wakeups, Sets}

\* One sender, one receiver and a channel set that waits for messages.
OneToOne == {[sender |-> {s1}, receiver |-> {r1}, poller |-> {}, sends |-> 2,
              kinds |-> {"nowait", "timed", "forever"}, poll_masks |-> {},
              set_masks |-> {"POLLIN"}, send_errors |-> {}, recv_errors |-> {}]}

\* A use takes one of the sets of processes that a permutation maps to one another,
\* so behaviours of the others are the images of behaviours checked.
Symmetry == Permutations({s1, s2, s3}) \cup Permutations({r1, r2}) \cup Permutations(Block)
=============================================================================
