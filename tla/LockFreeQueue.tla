--------------------------- MODULE LockFreeQueue ---------------------------
(***************************************************************************)
(* realtime_tools::LockFreeQueueBase over boost::lockfree::queue (MPMC) or *)
(* boost::lockfree::spsc_queue (SPSC).  The MPMC queue has Capacity nodes: *)
(* a push takes a free one, or fails if there is none, and links it to the *)
(* queue in a second step; a pop takes an element in one step and gives its*)
(* node back in a second.  The SPSC queue is a ring of Capacity elements.  *)
(* bounded_push() and get_latest() are made of several operations of the   *)
(* boost queue.                                                            *)
(*                                                                         *)
(* An element is the number of its push among those that were linked.      *)
(***************************************************************************)
EXTENDS Naturals, Sequences, FiniteSets

CONSTANTS
    Pushers,         \* producers that call push()
    Bounded,         \* producers that call bounded_push()
    Consumers,       \* threads that call pop() and get_latest()
    Spsc,            \* the threads that use the queue if it is a LockFreeSPSCQueue
    Capacity,        \* of the boost queue
    MaxPushes        \* bound: number of elements that are linked to the queue

ASSUME CapacityAssumption == Capacity \in Nat \ {0} /\ MaxPushes \in Nat

ASSUME FiniteAssumption == IsFiniteSet(Pushers \cup Bounded \cup Consumers)

\* One producer and one consumer; bounded_push() on an SPSC queue also pops and is
\* documented as being for single-threaded use.
ASSUME SpscAssumption ==
    /\ Spsc \subseteq (Pushers \cup Consumers) \ Bounded
    /\ \A S \in {Pushers, Consumers} : \A s, t \in S \cap Spsc : s = t

VARIABLES
    data_queue_,     \* the boost queue
    spsc,            \* LockFreeContainer is a spsc_queue
    pushed,          \* number of elements that were linked to the queue
    pc,              \* program counter of every thread
    data,            \* the argument of a consumer's get_latest()
    count,           \* SPSC: the elements consume_all() has found
    newest,          \* the last element of the queue when get_latest() began, 0 if
                     \* bounded_push() has dropped an element since
    latest,          \* get_latest() has just returned true
    raced,           \* producers in bounded_push() since whose pop() returned another
                     \* one has taken a node
    refused,         \* bounded_push() has returned false to a producer not in raced
    dropped          \* the newest element bounded_push() has dropped, 0 if none

consumer == <<data, count, newest, latest>>
producer == <<raced, refused, dropped>>
vars     == <<data_queue_, spsc, pushed, pc, consumer, producer>>

Producers == Pushers \cup Bounded
Threads == Producers \cup Consumers
Empty == data_queue_ = << >>

\* Threads that have a node which is not in the queue: of an element they have taken,
\* or for one they are about to link.
Holding == {t \in Threads : pc[t] \in {"release", "free", "popped", "link"}}

Full == Len(data_queue_) + Cardinality(Holding) = Capacity

Init ==
    /\ data_queue_ = << >> /\ spsc \in BOOLEAN
    /\ pushed = 0
    /\ pc = [t \in Threads |-> "idle"]
    /\ data = [c \in Consumers |-> 0]
    /\ count = [c \in Consumers |-> 0]
    /\ newest = [c \in Consumers |-> 0]
    /\ latest = {} /\ raced = {} /\ refused = FALSE /\ dropped = 0

Goto(t, from, to) == pc[t] = from /\ pc' = [pc EXCEPT ![t] = to]

\* A thread of the program that has this kind of queue begins a call.
Calls(t) == pc[t] = "idle" /\ (spsc => t \in Spsc)

\* push() of the boost queue takes a node, ...
Allocate(p, from) ==
    /\ ~spsc /\ ~Full
    /\ Goto(p, from, "link")
    /\ raced' = (raced \cup {q \in Bounded : pc[q] = "again"}) \ {p}
    /\ UNCHANGED <<data_queue_, spsc, pushed, consumer, refused, dropped>>

\* ... which others see when it is the last one of the queue.
Enqueue ==
    /\ pushed < MaxPushes
    /\ data_queue_' = Append(data_queue_, pushed + 1)
    /\ pushed' = pushed + 1
    /\ UNCHANGED <<spsc, consumer, producer>>

Link(p) == Goto(p, "link", "idle") /\ Enqueue

\* The node of an element that has been taken is free again.
Release(t) ==
    /\ \/ Goto(t, "release", "idle")      \* of pop()
       \/ Goto(t, "free", "consume")      \* of consume_all()
       \/ Goto(t, "popped", "again")      \* of bounded_push()
    /\ UNCHANGED <<data_queue_, spsc, pushed, consumer, producer>>

-----------------------------------------------------------------------------
(* push() and bounded_push()                                               *)

\* push(); on a full queue it returns false and changes nothing.
Push(p) == p \in Pushers /\ Calls(p) /\ Allocate(p, "idle")

\* push() of an SPSC queue: its producer has the next place of the ring to itself.
PushRing(p) == p \in Pushers /\ spsc /\ Calls(p) /\ ~Full /\ Enqueue /\ UNCHANGED pc

\* bounded_push(): the first push() succeeds.
BoundedPush(p) == p \in Bounded /\ Calls(p) /\ Allocate(p, "idle")

\* The first push() fails.
BoundedFull(p) ==
    /\ p \in Bounded /\ Calls(p) /\ Full
    /\ Goto(p, "idle", "pop")
    /\ UNCHANGED <<data_queue_, spsc, pushed, consumer, producer>>

\* A mutant: the oldest element stays.
BoundedKeep(p) ==
    /\ Goto(p, "pop", "again")
    /\ UNCHANGED <<data_queue_, spsc, pushed, consumer, producer>>

\* bounded_push() takes an element out of the queue, if there still is one.
BoundedTake(p, element, rest) ==
    /\ Goto(p, "pop", IF Empty THEN "again" ELSE "popped")
    /\ IF Empty THEN UNCHANGED <<data_queue_, newest, dropped>>
       ELSE /\ data_queue_' = rest
            /\ newest' = [c \in Consumers |-> 0]
            /\ dropped' = IF element > dropped THEN element ELSE dropped
    /\ UNCHANGED <<spsc, pushed, data, count, latest, raced, refused>>

\* A mutant: the newest element is dropped.
BoundedPopNewest(p) ==
    BoundedTake(p, data_queue_[Len(data_queue_)],
                SubSeq(data_queue_, 1, Len(data_queue_) - 1))

\* The oldest element is dropped.
BoundedPop(p) == BoundedTake(p, Head(data_queue_), Tail(data_queue_))

\* A mutant: the second push() is left out.
BoundedGivesUp(p) ==
    /\ Goto(p, "again", "idle")
    /\ UNCHANGED <<data_queue_, spsc, pushed, consumer, producer>>

\* The second push() succeeds.
BoundedAgain(p) == Allocate(p, "again")

\* The second push() fails as well: false.
BoundedRefused(p) ==
    /\ Full
    /\ Goto(p, "again", "idle")
    /\ refused' = (refused \/ p \notin raced)
    /\ raced' = raced \ {p}
    /\ UNCHANGED <<data_queue_, spsc, pushed, consumer, dropped>>

-----------------------------------------------------------------------------
(* pop() and get_latest()                                                  *)

\* pop(); on an empty queue it returns false and changes nothing.
Pop(c) ==
    /\ Calls(c) /\ ~Empty
    /\ Goto(c, "idle", IF spsc THEN "idle" ELSE "release")
    /\ data_queue_' = Tail(data_queue_)
    /\ latest' = latest \ {c}
    /\ UNCHANGED <<spsc, pushed, data, count, newest, producer>>

\* get_latest() begins; SPSC consume_all() looks how much there is.
GetLatest(c) ==
    /\ Calls(c)
    /\ Goto(c, "idle", "consume")
    /\ data' = [data EXCEPT ![c] = 0]
    /\ count' = [count EXCEPT ![c] = IF spsc THEN Len(data_queue_) ELSE 0]
    /\ newest' = [newest EXCEPT ![c] = IF Empty THEN 0 ELSE data_queue_[Len(data_queue_)]]
    /\ latest' = latest \ {c}
    /\ UNCHANGED <<data_queue_, spsc, pushed, producer>>

\* A mutant: the first element is kept.
ConsumeFirst(c) ==
    /\ ~spsc /\ ~Empty
    /\ Goto(c, "consume", "free")
    /\ data' = [data EXCEPT ![c] = IF @ = 0 THEN Head(data_queue_) ELSE @]
    /\ data_queue_' = Tail(data_queue_)
    /\ UNCHANGED <<spsc, pushed, count, newest, latest, producer>>

\* MPMC consume_all(): one element after the other until there is none.
ConsumeOne(c) ==
    /\ ~spsc /\ ~Empty
    /\ Goto(c, "consume", "free")
    /\ data' = [data EXCEPT ![c] = Head(data_queue_)]
    /\ data_queue_' = Tail(data_queue_)
    /\ UNCHANGED <<spsc, pushed, count, newest, latest, producer>>

\* SPSC consume_all(): what was there when it began leaves the queue together.
ConsumeCount(c) ==
    /\ spsc /\ pc[c] = "consume" /\ count[c] > 0
    /\ data' = [data EXCEPT ![c] = data_queue_[count[c]]]
    /\ data_queue_' = SubSeq(data_queue_, count[c] + 1, Len(data_queue_))
    /\ count' = [count EXCEPT ![c] = 0]
    /\ UNCHANGED <<spsc, pushed, pc, newest, latest, producer>>

\* get_latest() returns true if there was an element.
LatestReturns(c) ==
    /\ IF spsc THEN count[c] = 0 ELSE Empty
    /\ Goto(c, "consume", "idle")
    /\ latest' = IF data[c] > 0 THEN latest \cup {c} ELSE latest
    /\ UNCHANGED <<data_queue_, spsc, pushed, data, count, newest, producer>>

-----------------------------------------------------------------------------
(* Specification                                                           *)

Next ==
    \/ \E p \in Producers :
           Push(p) \/ PushRing(p) \/ BoundedPush(p) \/ BoundedFull(p) \/ BoundedPop(p)
           \/ BoundedAgain(p) \/ BoundedRefused(p) \/ Link(p)
    \/ \E c \in Consumers :
           Pop(c) \/ GetLatest(c) \/ ConsumeOne(c) \/ ConsumeCount(c) \/ LatestReturns(c)
    \/ \E t \in Threads : Release(t)

Safety == Init /\ [][Next]_vars

-----------------------------------------------------------------------------
(* Properties                                                              *)

\* Types; the queue holds consecutive elements in the order they were pushed and
\* every node is in the queue, free, or held by one thread that pushes or pops it.
TypeOK ==
    /\ pushed \in 0 .. MaxPushes
    /\ Len(data_queue_) + Cardinality(Holding) <= Capacity
    /\ \A i \in 1 .. Len(data_queue_) :
           data_queue_[i] = pushed - Len(data_queue_) + i
    /\ pc \in [Threads -> {"idle", "pop", "popped", "again", "link", "consume", "release",
                         "free"}]
    /\ data \in [Consumers -> 0 .. pushed]
    /\ count \in [Consumers -> 0 .. Capacity]
    /\ newest \in [Consumers -> 0 .. pushed]
    /\ latest \subseteq Consumers /\ raced \subseteq Bounded
    /\ refused \in BOOLEAN /\ spsc \in BOOLEAN /\ dropped \in 0 .. pushed

\* bounded_push() fails only when another producer has taken a node since its pop()
\* returned, whatever consumers and producers do and hold meanwhile (as long as there
\* is a node for every thread).
BoundedPushSucceeds == ~refused

\* Consumers may empty the queue between the failed push() of bounded_push() and its
\* pop(), which then drops an element that is not old at all, and even the second
\* push() may fail.  When the newest element is lost in this way, a newer one is on its
\* way: a producer has its node, or is in a bounded_push() with which none interfered.
NewestSurvives ==
    dropped = pushed /\ pushed > 0 =>
        \E p \in Producers : \/ pc[p] \in {"link", "popped"}
                             \/ pc[p] = "again" /\ p \notin raced

\* With one consumer get_latest() returns an element at least as new as the last
\* one of the queue when it was called, if bounded_push() drops none meanwhile.
LatestIsLast == \A c \in latest : data[c] >= newest[c]

=============================================================================
