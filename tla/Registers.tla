----------------------------- MODULE Registers -----------------------------
(***************************************************************************)
(* What RealtimeThreadSafeBox promises: every box is a register, and a     *)
(* set, a get, a copy and a move from one box to another each happen at    *)
(* one moment.  A content has two halves: a set or a copy that throws may  *)
(* have written the first one, and its thread knows.                       *)
(***************************************************************************)
CONSTANTS
    Threads, Boxes,
    Contents,            \* what is stored
    Nothing,             \* a thread whose call has read nothing yet
    Thrown,              \* a thread whose call threw
    MovedFrom            \* what a move may leave behind

VARIABLES
    content,             \* of every box
    got                  \* what the last call of each thread has read, or that it threw

registers == <<content, got>>

Init ==
    /\ content \in [Boxes -> Contents]
    /\ got = [t \in Threads |-> Nothing]

\* A thread calls again.
Begin(t) == got' = [got EXCEPT ![t] = Nothing] /\ UNCHANGED content

Set(b, v) == content' = [content EXCEPT ![b] = v] /\ UNCHANGED got

Get(t, b) == got' = [got EXCEPT ![t] = content[b]] /\ UNCHANGED content

Take(t, b) ==
    /\ got' = [got EXCEPT ![t] = content[b]]
    /\ content' = [content EXCEPT ![b] = MovedFrom]

Copy(to, from) == content' = [content EXCEPT ![to] = content[from]] /\ UNCHANGED got

Move(to, from) ==
    /\ content' = [content EXCEPT ![to] = content[from], ![from] = MovedFrom]
    /\ UNCHANGED got

\* The box b was to become v.
Fail(t, b, v) ==
    /\ content' = [content EXCEPT ![b] = <<v[1], @[2]>>]
    /\ got' = [got EXCEPT ![t] = Thrown]

Next ==
    \/ \E t \in Threads : Begin(t)
    \/ \E b \in Boxes :
           \/ \E v \in Contents : Set(b, v)
           \/ \E t \in Threads : Get(t, b) \/ Take(t, b)
           \/ \E from \in Boxes : Copy(b, from) \/ Move(b, from)
           \/ \E t \in Threads, v \in Contents \cup {content[c] : c \in Boxes} :
                  Fail(t, b, v)

Spec == Init /\ [][Next]_registers

=============================================================================
