------------------------------ MODULE Mailbox ------------------------------
(***************************************************************************)
(* What RealtimePublisher promises to its callers, with the threads, the   *)
(* mutex and the condition variable left out: a mailbox with room for one  *)
(* message.  A message is accepted only when every message accepted before *)
(* it has been handed to ROS, messages are handed over in the order they   *)
(* were accepted, none twice, and as long as the mailbox is open an        *)
(* accepted message is eventually handed over.  Once it is closed the last *)
(* accepted message may stay behind.                                       *)
(***************************************************************************)
EXTENDS Sequences

CONSTANT Messages        \* the messages callers may hand over

VARIABLES
    accepted,            \* the messages accepted so far, oldest first
    published,           \* the messages handed to ROS so far, oldest first
    open                 \* FALSE once stop() took effect

mailboxVars == <<accepted, published, open>>

Init ==
    /\ accepted = << >>
    /\ published = << >>
    /\ open = TRUE

\* A caller hands over m; the slot is free when nothing is outstanding.
Accept(m) ==
    /\ accepted = published
    /\ accepted' = Append(accepted, m)
    /\ UNCHANGED <<published, open>>

\* The outstanding message goes out.
Deliver ==
    /\ accepted # published
    /\ published' = accepted
    /\ UNCHANGED <<accepted, open>>

Close ==
    /\ open' = FALSE
    /\ UNCHANGED <<accepted, published>>

Next ==
    \/ \E m \in Messages : Accept(m)
    \/ Deliver
    \/ Close

Safety == Init /\ [][Next]_mailboxVars

\* An open mailbox does not sit on a message for ever.
Spec == Safety /\ WF_mailboxVars(open /\ Deliver)

=============================================================================
