------------------------ MODULE LockFreeQueueProofs ------------------------
(***************************************************************************)
(* Proofs about LockFreeQueue for any number of threads, nodes and pushes. *)
(* IInv accounts for the nodes: what bounded_push() has taken out of the   *)
(* queue is there for its second push(), unless another producer takes it  *)
(* first.                                                                  *)
(***************************************************************************)
EXTENDS LockFreeQueue, FiniteSetTheorems, TLAPS

\* There is a node for every thread.
EnoughNodes == Cardinality(Threads) <= Capacity

OneConsumer == \A c, d \in Consumers : c = d

Used == Len(data_queue_) + Cardinality(Holding)

\* Who is where; the SPSC queue is used by its two threads and none is in a pop.
PcInv ==
    /\ \A t \in Threads :
          /\ pc[t] \in {"pop", "popped", "again"} => t \in Bounded
          /\ pc[t] = "link" => t \in Producers
          /\ pc[t] \in {"consume", "release", "free"} => t \in Consumers
          /\ spsc => pc[t] \in {"idle", "consume"} /\ (pc[t] # "idle" => t \in Spsc)
    /\ \A p \in raced : pc[p] = "again"
    /\ \A c \in latest : pc[c] \notin {"consume", "free"}

\* The queue holds the last elements that were pushed.
QueueInv == data_queue_ \in Seq(Nat) /\ Len(data_queue_) <= pushed

\* A producer with which no other one interferes finds a free node.
NodeInv ==
    EnoughNodes => /\ \A p \in Bounded : pc[p] = "again" /\ p \notin raced => Used < Capacity
                   /\ BoundedPushSucceeds

\* SPSC: what consume_all() has found stays in the queue.
CountInv ==
    \A c \in Consumers : spsc /\ pc[c] = "consume" => count[c] <= Len(data_queue_)

\* What get_latest() has taken is older than what is in the queue, ...
TakenInv ==
    \A c \in Consumers :
        pc[c] \in {"consume", "free"} => data[c] <= pushed - Len(data_queue_)

\* ... and what was the last element has been taken or will be.
NewestInv ==
    OneConsumer =>
        /\ \A c \in Consumers : pc[c] \in {"consume", "free"} =>
              \/ newest[c] <= data[c]
              \/ ~spsc /\ pushed - Len(data_queue_) < newest[c]
              \/ spsc /\ 0 < count[c] /\ newest[c] <= pushed - Len(data_queue_) + count[c]
        /\ LatestIsLast

IInv ==
    /\ TypeOK
    /\ PcInv
    /\ QueueInv
    /\ NodeInv
    /\ CountInv
    /\ TakenInv
    /\ NewestInv

-----------------------------------------------------------------------------
(* The operators                                                           *)

\* The elements of q are consecutive and end with n.
Consecutive(q, n) == \A i \in 1 .. Len(q) : q[i] = n - Len(q) + i

\* A push of the next element.
LEMMA AppendFacts ==
  ASSUME NEW q \in Seq(Nat), NEW n \in Nat, Consecutive(q, n)
  PROVE  /\ Append(q, n + 1) \in Seq(Nat) /\ Len(Append(q, n + 1)) = Len(q) + 1
         /\ Consecutive(Append(q, n + 1), n + 1)
  BY DEF Consecutive

\* A pop.
LEMMA TailFacts ==
  ASSUME NEW q \in Seq(Nat), NEW n \in Nat, Consecutive(q, n), q # << >>
  PROVE  /\ Tail(q) \in Seq(Nat) /\ Len(q) \in Nat \ {0} /\ Len(Tail(q)) = Len(q) - 1
         /\ Consecutive(Tail(q), n)
         /\ Head(q) = n - Len(q) + 1
  <1>1. Tail(q) \in Seq(Nat) /\ Len(q) \in Nat \ {0} /\ Len(Tail(q)) = Len(q) - 1
    OBVIOUS
  <1>2. \A i \in 1 .. Len(q) - 1 : Tail(q)[i] = q[i + 1]
    OBVIOUS
  <1>3. Head(q) = q[1]
    OBVIOUS
  <1> QED
    BY <1>1, <1>2, <1>3 DEF Consecutive

\* The first k elements are consumed together.
LEMMA SuffixFacts ==
  ASSUME NEW q \in Seq(Nat), NEW n \in Nat, Consecutive(q, n), NEW k \in 1 .. Len(q)
  PROVE  /\ SubSeq(q, k + 1, Len(q)) \in Seq(Nat)
         /\ Len(SubSeq(q, k + 1, Len(q))) = Len(q) - k
         /\ Consecutive(SubSeq(q, k + 1, Len(q)), n)
  <1> DEFINE r == SubSeq(q, k + 1, Len(q))
  <1>1. r \in Seq(Nat) /\ Len(r) = Len(q) - k
    OBVIOUS
  <1>2. \A i \in 1 .. Len(q) - k : r[i] = q[k + i]
    OBVIOUS
  <1>3. Consecutive(r, n)
    <2> HIDE DEF r
    <2> QED
      BY <1>1, <1>2 DEF Consecutive
  <1> QED
    BY <1>1, <1>3

\* Sets of threads are finite: one more, one less.
LEMMA ThreadSets ==
  ASSUME NEW S \in SUBSET Threads
  PROVE  /\ Cardinality(S) \in Nat
         /\ \A t \in Threads \ S : Cardinality(S \cup {t}) = Cardinality(S) + 1
         /\ \A t \in S : Cardinality(S \ {t}) = Cardinality(S) - 1
         /\ \A R \in SUBSET S : Cardinality(R) <= Cardinality(S)
  <1>1. IsFiniteSet(S)
    BY FiniteAssumption, FS_Subset DEF Threads, Producers
  <1> QED
    BY <1>1, FS_CardinalityType, FS_AddElement, FS_RemoveElement, FS_Subset

Places == {"idle", "pop", "popped", "again", "link", "consume", "release", "free"}

\* Where a thread holds a node.
HoldingPC == {"release", "free", "popped", "link"}

\* A thread that takes a node or an element holds one more node, ...
LEMMA TakesNode ==
  ASSUME pc \in [Threads -> Places], NEW t \in Threads, NEW from, NEW to, Goto(t, from, to),
         from \notin HoldingPC, to \in HoldingPC
  PROVE  Cardinality(Holding') = Cardinality(Holding) + 1
  <1>1. Holding \in SUBSET Threads /\ t \notin Holding /\ Holding' = Holding \cup {t}
    BY DEF Holding, HoldingPC, Goto
  <1> QED
    BY <1>1, ThreadSets

\* ... gives it back, ...
LEMMA GivesNode ==
  ASSUME pc \in [Threads -> Places], NEW t \in Threads, NEW from, NEW to, Goto(t, from, to),
         from \in HoldingPC, to \notin HoldingPC
  PROVE  Cardinality(Holding') = Cardinality(Holding) - 1
  <1>1. Holding \in SUBSET Threads /\ t \in Holding /\ Holding' = Holding \ {t}
    BY DEF Holding, HoldingPC, Goto
  <1> QED
    BY <1>1, ThreadSets

\* ... or moves without one.
LEMMA NoNode ==
  ASSUME pc \in [Threads -> Places], NEW t \in Threads, NEW from, NEW to, Goto(t, from, to),
         from \notin HoldingPC, to \notin HoldingPC
  PROVE  Holding' = Holding
  BY DEF Holding, HoldingPC, Goto

\* What the steps below use of the invariant.
LEMMA Basics ==
  ASSUME IInv
  PROVE  /\ pc \in [Threads -> Places] /\ pushed \in Nat
         /\ data_queue_ \in Seq(Nat) /\ Consecutive(data_queue_, pushed)
         /\ Cardinality(Holding) \in Nat /\ Used \in Nat /\ Used <= Capacity
         /\ Producers \subseteq Threads /\ Bounded \subseteq Threads /\ Consumers \subseteq Threads
  <1>1. pc \in [Threads -> Places] /\ pushed \in Nat
    BY CapacityAssumption DEF IInv, TypeOK, Places
  <1>2. data_queue_ \in Seq(Nat) /\ Consecutive(data_queue_, pushed)
    BY DEF IInv, TypeOK, QueueInv, Consecutive
  <1>3. Cardinality(Holding) \in Nat
    BY ThreadSets DEF Holding
  <1>4. Used \in Nat /\ Used <= Capacity
    BY <1>2, <1>3 DEF Used, IInv, TypeOK
  <1>5. Producers \subseteq Threads /\ Bounded \subseteq Threads /\ Consumers \subseteq Threads
    BY DEF Threads, Producers
  <1> QED
    BY <1>1, <1>2, <1>3, <1>4, <1>5

\* A producer whose pop() found nothing leaves a node, if the others hold all they can.
LEMMA NodeLeft ==
  ASSUME EnoughNodes, NEW p \in Bounded, pc[p] = "pop"
  PROVE  Cardinality(Holding) < Capacity
  <1>1. p \in Threads
    BY DEF Threads, Producers
  <1>2. Holding \in SUBSET (Threads \ {p}) /\ Threads \ {p} \in SUBSET Threads
    BY DEF Holding
  <1>3. /\ Cardinality(Threads \ {p}) = Cardinality(Threads) - 1
        /\ Cardinality(Threads) \in Nat
    BY <1>1, ThreadSets
  <1>4. Cardinality(Holding) <= Cardinality(Threads \ {p}) /\ Cardinality(Holding) \in Nat
    BY <1>2, ThreadSets
  <1> QED
    BY <1>3, <1>4, CapacityAssumption DEF EnoughNodes

-----------------------------------------------------------------------------
(* The invariant                                                           *)

\* The inductive invariant holds for an empty queue.
LEMMA InitIInv == Init => IInv
  <1> SUFFICES ASSUME Init PROVE IInv
    OBVIOUS
  <1>1. Holding = {} /\ Cardinality({}) = 0
    BY FS_EmptySet DEF Init, Holding
  <1>2. TypeOK
    <2>1. /\ pushed \in 0 .. MaxPushes /\ dropped \in 0 .. pushed
          /\ Len(data_queue_) + Cardinality(Holding) <= Capacity
      BY <1>1, CapacityAssumption DEF Init
    <2>2. /\ data \in [Consumers -> 0 .. pushed] /\ newest \in [Consumers -> 0 .. pushed]
          /\ count \in [Consumers -> 0 .. Capacity]
      BY CapacityAssumption DEF Init
    <2>3. pc \in [Threads -> Places]
      BY DEF Init, Places
    <2>4. /\ latest \subseteq Consumers /\ raced \subseteq Bounded
          /\ refused \in BOOLEAN /\ spsc \in BOOLEAN
      BY DEF Init
    <2>5. 1 .. Len(data_queue_) = {}
      BY DEF Init
    <2> QED
      BY <2>1, <2>2, <2>3, <2>4, <2>5 DEF TypeOK, Places
  <1>3. PcInv /\ QueueInv
    BY DEF Init, PcInv, QueueInv
  <1>4. NodeInv /\ CountInv /\ TakenInv /\ NewestInv
    BY DEF Init, NodeInv, BoundedPushSucceeds, CountInv, TakenInv, NewestInv,
           LatestIsLast, Threads, Producers
  <1> QED
    BY <1>2, <1>3, <1>4 DEF IInv

\* A producer that takes a node, in push() or bounded_push(), keeps it.
LEMMA AllocateIInv ==
  ASSUME IInv, NEW p \in Producers, NEW from \in {"idle", "again"}, Allocate(p, from),
         p \in Bounded \/ from = "idle"
  PROVE  IInv'
  <1> USE CapacityAssumption DEF IInv, consumer
  <1>1. /\ p \in Threads /\ pc \in [Threads -> Places] /\ Bounded \subseteq Threads
        /\ Consumers \subseteq Threads /\ Len(data_queue_) \in Nat
        /\ Cardinality(Holding) \in Nat /\ Used \in Nat /\ Used <= Capacity
    BY Basics
  <1>2. /\ pc[p] = from /\ pc' = [pc EXCEPT ![p] = "link"] /\ ~spsc
        /\ raced' = (raced \cup {q \in Bounded : pc[q] = "again"}) \ {p}
        /\ UNCHANGED <<data_queue_, spsc, pushed, data, count, newest, latest, refused, dropped>>
    BY DEF Allocate, Goto
  <1>3. Used' = Used + 1 /\ Used' <= Capacity
    <2>1. Cardinality(Holding') = Cardinality(Holding) + 1
      BY <1>1, TakesNode DEF Allocate, HoldingPC
    <2> QED
      BY <1>1, <1>2, <2>1 DEF Allocate, Full, Used
  <1>4. pc' \in [Threads -> Places]
    BY <1>1, <1>2 DEF Places
  <1>5. TypeOK'
    <2>1. raced' \subseteq Bounded
      BY <1>2 DEF TypeOK
    <2> QED
      BY <1>2, <1>3, <1>4, <2>1 DEF TypeOK, Used, Places
  <1>6. PcInv'
    BY <1>1, <1>2 DEF PcInv, TypeOK
  <1>7. QueueInv' /\ CountInv' /\ TakenInv' /\ NewestInv'
    BY <1>1, <1>2 DEF QueueInv, CountInv, TakenInv, NewestInv, LatestIsLast
  <1>8. NodeInv'
    BY <1>1, <1>2 DEF NodeInv, BoundedPushSucceeds
  <1> QED
    BY <1>5, <1>6, <1>7, <1>8

\* So does an element that joins the queue: in a producer's node or a place of the ring.
LEMMA EnqueueIInv ==
  ASSUME IInv, NEW p \in Producers, Link(p) \/ PushRing(p)
  PROVE  IInv'
  <1> USE CapacityAssumption DEF IInv
  <1>1. /\ p \in Threads /\ pc \in [Threads -> Places] /\ pushed \in Nat
        /\ Consecutive(data_queue_, pushed) /\ Bounded \subseteq Threads
        /\ Consumers \subseteq Threads /\ Len(data_queue_) \in Nat
        /\ Cardinality(Holding) \in Nat /\ Used \in Nat /\ Used <= Capacity
    BY Basics
  <1>2. /\ pushed' = pushed + 1 /\ pushed' \in 0 .. MaxPushes
        /\ data_queue_' \in Seq(Nat) /\ Len(data_queue_') = Len(data_queue_) + 1
        /\ Consecutive(data_queue_', pushed')
        /\ UNCHANGED <<spsc, data, count, newest, latest, raced, refused, dropped>>
    <2>1. Enqueue
      BY DEF Link, PushRing
    <2>2. /\ pushed < MaxPushes /\ data_queue_' = Append(data_queue_, pushed + 1)
          /\ pushed' = pushed + 1
          /\ UNCHANGED <<spsc, data, count, newest, latest, raced, refused, dropped>>
      BY <2>1 DEF Enqueue, consumer, producer
    <2> QED
      BY <1>1, <2>2, AppendFacts DEF QueueInv
  <1>3. Used' \in Nat /\ Used' <= Capacity /\ (Link(p) => Used' = Used)
    <2>1. CASE Link(p)
      <3>1. Cardinality(Holding') = Cardinality(Holding) - 1
        BY <1>1, <2>1, GivesNode DEF Link, HoldingPC
      <3> QED
        BY <1>1, <1>2, <3>1 DEF Used
    <2>2. CASE PushRing(p)
      <3>1. Holding' = Holding /\ pc[p] = "idle"
        BY <2>2 DEF PushRing, Holding, Calls
      <3>2. Used < Capacity /\ Used' = Used + 1
        BY <1>1, <1>2, <2>2, <3>1 DEF PushRing, Full, Used
      <3>3. ~Link(p)
        BY <3>1 DEF Link, Goto
      <3> QED
        BY <1>1, <3>2, <3>3
    <2> QED
      BY <2>1, <2>2
  <1>4. /\ pc' \in [Threads -> Places]
        /\ \A t \in Threads : pc'[t] = pc[t] \/ (t = p /\ pc[t] = "link" /\ pc'[t] = "idle")
    BY <1>1 DEF Link, PushRing, Goto, Places
  <1>5. TypeOK'
    <2>1. /\ Len(data_queue_') + Cardinality(Holding') <= Capacity
          /\ \A i \in 1 .. Len(data_queue_') : data_queue_'[i] = pushed' - Len(data_queue_') + i
      BY <1>2, <1>3 DEF Used, Consecutive
    <2>2. /\ data' \in [Consumers -> 0 .. pushed'] /\ newest' \in [Consumers -> 0 .. pushed']
          /\ dropped' \in 0 .. pushed'
      BY <1>1, <1>2 DEF TypeOK
    <2> QED
      BY <1>2, <1>4, <2>1, <2>2 DEF TypeOK, Places
  <1>6. PcInv'
    BY <1>1, <1>2, <1>4 DEF PcInv, TypeOK
  <1>7. QueueInv' /\ CountInv' /\ TakenInv' /\ NewestInv'
    <2>1. QueueInv'
      BY <1>1, <1>2 DEF QueueInv
    <2>2. CountInv'
      BY <1>1, <1>2, <1>4 DEF QueueInv, CountInv, TypeOK
    <2>3. TakenInv'
      BY <1>1, <1>2, <1>4 DEF QueueInv, TakenInv, TypeOK
    <2>4. NewestInv'
      BY <1>1, <1>2, <1>4 DEF QueueInv, NewestInv, LatestIsLast, TypeOK
    <2> QED
      BY <2>1, <2>2, <2>3, <2>4
  <1>8. NodeInv'
    <2>1. CASE Link(p)
      BY <1>1, <1>2, <1>3, <1>4, <2>1 DEF NodeInv, BoundedPushSucceeds
    <2>2. CASE PushRing(p)
      <3>1. \A q \in Bounded : pc'[q] # "again"
        BY <1>1, <1>4, <2>2 DEF PushRing, PcInv
      <3> QED
        BY <1>2, <3>1 DEF NodeInv, BoundedPushSucceeds
    <2> QED
      BY <2>1, <2>2
  <1> QED
    BY <1>5, <1>6, <1>7, <1>8

\* So does the release of a node.
LEMMA ReleaseIInv ==
  ASSUME IInv, NEW t \in Threads, Release(t)
  PROVE  IInv'
  <1> USE DEF IInv, Release, consumer, producer
  <1>1. /\ Cardinality(Holding) \in Nat /\ Cardinality(Holding') = Cardinality(Holding) - 1
        /\ pc \in [Threads -> Places] /\ Consumers \subseteq Threads
        /\ Bounded \subseteq Threads
    BY Basics, GivesNode DEF HoldingPC
  <1>2. Used' = Used - 1 /\ Used \in Nat
    BY <1>1 DEF Used, QueueInv
  <1>3. pc' \in [Threads -> Places]
    BY DEF TypeOK, Goto, Places
  <1>4. TypeOK'
    BY <1>2, <1>3, CapacityAssumption DEF TypeOK, Used, Places
  <1>5. PcInv' /\ QueueInv' /\ CountInv' /\ TakenInv'
    <2>1. PcInv'
      BY <1>1 DEF PcInv, Goto, TypeOK
    <2>2. QueueInv' /\ CountInv' /\ TakenInv'
      BY <1>1 DEF PcInv, QueueInv, CountInv, TakenInv, Goto, TypeOK
    <2> QED
      BY <2>1, <2>2
  <1>6. NewestInv'
    BY DEF NewestInv, LatestIsLast, Goto, TypeOK, Threads
  <1>7. NodeInv'
    BY <1>2, CapacityAssumption
    DEF NodeInv, BoundedPushSucceeds, Goto, TypeOK, Threads, Producers, Used
  <1> QED
    BY <1>4, <1>5, <1>6, <1>7

\* So do the steps of bounded_push() that do not push.
LEMMA BoundedIInv ==
  ASSUME IInv, NEW p \in Producers, BoundedFull(p) \/ BoundedPop(p) \/ BoundedRefused(p)
  PROVE  IInv'
  <1> USE CapacityAssumption DEF IInv, consumer, producer
  <1>1. /\ p \in Threads /\ pc \in [Threads -> Places] /\ Consecutive(data_queue_, pushed)
        /\ pushed \in Nat /\ Bounded \subseteq Threads /\ Consumers \subseteq Threads
    BY Basics
  <1>2. Used \in Nat /\ Cardinality(Holding) \in Nat
    BY Basics
  <1>3. CASE BoundedFull(p)
    <2>1. Holding' = Holding
      BY <1>1, <1>3, NoNode DEF BoundedFull, HoldingPC
    <2>2. TypeOK'
      BY <1>1, <1>3, <2>1 DEF BoundedFull, TypeOK, Goto
    <2>3. PcInv' /\ QueueInv' /\ CountInv' /\ TakenInv' /\ NewestInv'
      BY <1>1, <1>3, SpscAssumption
      DEF BoundedFull, PcInv, QueueInv, CountInv, TakenInv, NewestInv, LatestIsLast, Goto,
          Calls, TypeOK, Threads
    <2>4. NodeInv'
      BY <1>1, <1>3, <2>1
      DEF BoundedFull, NodeInv, BoundedPushSucceeds, Goto, Used, Calls
    <2> QED
      BY <2>2, <2>3, <2>4
  <1>4. CASE BoundedPop(p) /\ Empty
    <2>1. Holding' = Holding /\ p \in Bounded /\ pc[p] = "pop"
      <3>1. Goto(p, "pop", "again")
        BY <1>4 DEF BoundedPop, BoundedTake
      <3>2. Holding' = Holding
        BY <1>1, <3>1, NoNode DEF HoldingPC
      <3> QED
        BY <1>1, <3>1, <3>2 DEF Goto, PcInv
    <2>2. TypeOK'
      BY <1>1, <1>4, <2>1 DEF BoundedPop, BoundedTake, TypeOK, Goto
    <2>3. PcInv' /\ QueueInv' /\ CountInv' /\ TakenInv' /\ NewestInv'
      BY <1>1, <1>4, <2>1
      DEF BoundedPop, BoundedTake, PcInv, QueueInv, CountInv, TakenInv, NewestInv,
          LatestIsLast, Goto, TypeOK, Threads
    <2>4. EnoughNodes => Used' < Capacity
      BY <1>2, <1>4, <2>1, NodeLeft DEF BoundedPop, BoundedTake, Used, Empty
    <2>5. NodeInv'
      BY <1>1, <1>4, <2>1, <2>4
      DEF BoundedPop, BoundedTake, NodeInv, BoundedPushSucceeds, Goto
    <2> QED
      BY <2>2, <2>3, <2>5
  <1>5. CASE BoundedPop(p) /\ ~Empty
    <2>1. /\ Cardinality(Holding') = Cardinality(Holding) + 1
          /\ p \in Bounded /\ pc[p] = "pop" /\ ~spsc
      <3>1. Goto(p, "pop", "popped")
        BY <1>5 DEF BoundedPop, BoundedTake
      <3>2. Cardinality(Holding') = Cardinality(Holding) + 1
        BY <1>1, <3>1, TakesNode DEF HoldingPC
      <3> QED
        BY <1>1, <3>1, <3>2 DEF Goto, PcInv
    <2>2. /\ data_queue_' \in Seq(Nat) /\ Len(data_queue_) \in Nat \ {0}
          /\ Len(data_queue_') = Len(data_queue_) - 1
          /\ Consecutive(data_queue_', pushed)
          /\ Head(data_queue_) = pushed - Len(data_queue_) + 1
      BY <1>1, <1>5, TailFacts DEF BoundedPop, BoundedTake, QueueInv, Empty
    <2>3. Used' = Used
      BY <1>2, <2>1, <2>2 DEF Used
    <2>4. TypeOK'
      <3>1. dropped' \in 0 .. pushed
        BY <1>1, <1>5, <2>2 DEF BoundedPop, BoundedTake, TypeOK, QueueInv
      <3>2. newest' \in [Consumers -> 0 .. pushed]
        BY <1>1, <1>5 DEF BoundedPop, BoundedTake, TypeOK
      <3> QED
        BY <1>1, <1>5, <2>2, <2>3, <3>1, <3>2
        DEF BoundedPop, BoundedTake, TypeOK, Goto, Used, Consecutive
    <2>5. PcInv' /\ QueueInv' /\ CountInv' /\ TakenInv'
      BY <1>1, <1>5, <2>1, <2>2
      DEF BoundedPop, BoundedTake, PcInv, QueueInv, CountInv, TakenInv, Goto, TypeOK, Threads
    <2>6. NewestInv'
      BY <1>1, <1>5, <2>1
      DEF BoundedPop, BoundedTake, NewestInv, LatestIsLast, Goto, TypeOK, Threads
    <2>7. NodeInv'
      BY <1>1, <1>5, <2>1, <2>3
      DEF BoundedPop, BoundedTake, NodeInv, BoundedPushSucceeds, Goto, PcInv
    <2> QED
      BY <2>4, <2>5, <2>6, <2>7
  <1>6. CASE BoundedRefused(p)
    <2>1. Holding' = Holding /\ p \in Bounded
      <3>1. Holding' = Holding
        BY <1>1, <1>6, NoNode DEF BoundedRefused, HoldingPC
      <3> QED
        BY <1>1, <1>6, <3>1 DEF BoundedRefused, Goto, PcInv
    <2>2. TypeOK'
      BY <1>1, <1>6, <2>1 DEF BoundedRefused, TypeOK, Goto
    <2>3. PcInv' /\ QueueInv' /\ CountInv' /\ TakenInv' /\ NewestInv'
      BY <1>1, <1>6, <2>1
      DEF BoundedRefused, PcInv, QueueInv, CountInv, TakenInv, NewestInv, LatestIsLast,
          Goto, TypeOK, Threads
    <2>4. EnoughNodes => p \in raced
      BY <1>2, <1>6, <2>1 DEF BoundedRefused, NodeInv, Full, Used, Goto
    <2>5. NodeInv'
      BY <1>1, <1>6, <2>1, <2>4
      DEF BoundedRefused, NodeInv, BoundedPushSucceeds, Goto, Used
    <2> QED
      BY <2>2, <2>3, <2>5
  <1> QED
    BY <1>3, <1>4, <1>5, <1>6

\* So do the steps of pop() and get_latest().
LEMMA ConsumerIInv ==
  ASSUME IInv, NEW c \in Consumers,
         Pop(c) \/ GetLatest(c) \/ ConsumeOne(c) \/ ConsumeCount(c) \/ LatestReturns(c)
  PROVE  IInv'
  <1> USE CapacityAssumption DEF IInv, consumer, producer
  <1>1. /\ c \in Threads /\ pc \in [Threads -> Places] /\ Consecutive(data_queue_, pushed)
        /\ pushed \in Nat /\ Bounded \subseteq Threads /\ Consumers \subseteq Threads
        /\ Used \in Nat /\ Cardinality(Holding) \in Nat /\ Used <= Capacity
        /\ data_queue_ \in Seq(Nat) /\ Len(data_queue_) \in Nat
    BY Basics
  <1>2. ASSUME ~Empty, data_queue_' = Tail(data_queue_), UNCHANGED pushed
        PROVE  /\ data_queue_' \in Seq(Nat) /\ Len(data_queue_) \in Nat \ {0}
               /\ Len(data_queue_') = Len(data_queue_) - 1
               /\ Consecutive(data_queue_', pushed')
               /\ Head(data_queue_) = pushed - Len(data_queue_) + 1
               /\ QueueInv'
    BY <1>1, <1>2, TailFacts DEF Empty, QueueInv
  <1>3. CASE Pop(c)
    <2>1. Used' <= Used /\ Used' \in Nat
      <3>1. CASE spsc
        <4>1. UNCHANGED pc
          BY <1>1, <1>3, <3>1 DEF Pop, Goto
        <4> QED
          BY <1>1, <1>2, <1>3, <4>1 DEF Pop, Used, Holding
      <3>2. CASE ~spsc
        <4>1. Cardinality(Holding') = Cardinality(Holding) + 1
          BY <1>1, <1>3, <3>2, TakesNode DEF Pop, HoldingPC
        <4> QED
          BY <1>1, <1>2, <1>3, <4>1 DEF Pop, Used
      <3> QED
        BY <3>1, <3>2
    <2>2. TypeOK'
      <3>1. /\ Len(data_queue_') + Cardinality(Holding') <= Capacity
            /\ \A i \in 1 .. Len(data_queue_') : data_queue_'[i] = pushed' - Len(data_queue_') + i
        BY <1>1, <1>2, <1>3, <2>1 DEF Pop, Used, Consecutive
      <3>2. pc' \in [Threads -> Places]
        BY <1>1, <1>3 DEF Pop, Goto, Places
      <3>3. /\ UNCHANGED <<spsc, pushed, data, count, newest, raced, refused, dropped>>
            /\ latest' \subseteq Consumers
        BY <1>3 DEF Pop, TypeOK
      <3> QED
        BY <3>1, <3>2, <3>3 DEF TypeOK, Places
    <2>3. PcInv' /\ QueueInv'
      BY <1>1, <1>2, <1>3 DEF Pop, PcInv, Goto, Calls, TypeOK
    <2>4. CountInv'
      BY <1>1, <1>2, <1>3, SpscAssumption DEF Pop, CountInv, PcInv, Goto, Calls, TypeOK
    <2>5. TakenInv'
      BY <1>1, <1>2, <1>3 DEF Pop, TakenInv, QueueInv, Goto, TypeOK
    <2>6. NewestInv'
      BY <1>1, <1>3 DEF Pop, NewestInv, OneConsumer, LatestIsLast, Goto, Calls, TypeOK
    <2>7. NodeInv'
      BY <1>1, <1>3, <2>1
      DEF Pop, NodeInv, BoundedPushSucceeds, Goto, Calls
    <2> QED
      BY <2>2, <2>3, <2>4, <2>5, <2>6, <2>7
  <1>4. CASE GetLatest(c)
    <2>1. Holding' = Holding
      BY <1>1, <1>4, NoNode DEF GetLatest, HoldingPC
    <2>2. Len(data_queue_) <= Capacity
      BY <1>1 DEF Used
    <2>3. ~Empty => /\ Len(data_queue_) > 0
                    /\ data_queue_[Len(data_queue_)] = pushed
      BY <1>1 DEF Empty, Consecutive
    <2>4. TypeOK'
      BY <1>1, <1>4, <2>1, <2>2, <2>3 DEF GetLatest, TypeOK, Goto, Empty
    <2>5. PcInv' /\ QueueInv'
      BY <1>1, <1>4 DEF GetLatest, PcInv, QueueInv, Goto, Calls, TypeOK
    <2>6. CountInv' /\ TakenInv'
      BY <1>1, <1>4 DEF GetLatest, CountInv, TakenInv, QueueInv, Goto, TypeOK
    <2>7. NewestInv'
      BY <1>1, <1>4, <2>3
      DEF GetLatest, NewestInv, LatestIsLast, QueueInv, Goto, TypeOK, Empty
    <2>8. NodeInv'
      BY <1>1, <1>4, <2>1
      DEF GetLatest, NodeInv, BoundedPushSucceeds, Goto, Calls, Used
    <2> QED
      BY <2>4, <2>5, <2>6, <2>7, <2>8
  <1>5. CASE ConsumeOne(c)
    <2>1. Cardinality(Holding') = Cardinality(Holding) + 1
      BY <1>1, <1>5, TakesNode DEF ConsumeOne, HoldingPC
    <2>2. Used' = Used
      BY <1>1, <1>2, <1>5, <2>1 DEF ConsumeOne, Used
    <2>3. TypeOK'
      <3>1. data' \in [Consumers -> 0 .. pushed]
        <4>1. Head(data_queue_) \in 0 .. pushed
          BY <1>1, <1>2, <1>5 DEF ConsumeOne, QueueInv
        <4> QED
          BY <1>5, <4>1 DEF ConsumeOne, TypeOK
      <3>2. pc' \in [Threads -> Places]
        BY <1>1, <1>5 DEF ConsumeOne, Goto, Places
      <3> QED
        BY <1>1, <1>2, <1>5, <2>2, <3>1, <3>2
        DEF ConsumeOne, TypeOK, Used, Consecutive, Places
    <2>4. PcInv' /\ QueueInv'
      BY <1>1, <1>2, <1>5 DEF ConsumeOne, PcInv, Goto, TypeOK
    <2>5. CountInv' /\ TakenInv'
      <3>1. CountInv'
        BY <1>5 DEF ConsumeOne, CountInv
      <3>2. TakenInv'
        <4>1. /\ pc[c] = "consume" /\ data' = [data EXCEPT ![c] = Head(data_queue_)]
              /\ pc' = [pc EXCEPT ![c] = "free"] /\ pushed' = pushed
          BY <1>5 DEF ConsumeOne, Goto
        <4>2. /\ Head(data_queue_) = pushed - Len(data_queue_) + 1
              /\ Len(data_queue_') = Len(data_queue_) - 1
          BY <1>2, <1>5 DEF ConsumeOne
        <4>3. data \in [Consumers -> 0 .. pushed]
          BY DEF TypeOK
        <4>4. data'[c] = pushed' - Len(data_queue_')
          BY <1>1, <4>1, <4>2, <4>3
        <4>5. ASSUME NEW d \in Consumers, d # c, pc'[d] \in {"consume", "free"}
              PROVE  data'[d] <= pushed' - Len(data_queue_')
          <5>1. data'[d] = data[d] /\ pc[d] \in {"consume", "free"} /\ data[d] \in Nat
            BY <1>1, <4>1, <4>3, <4>5
          <5>2. data[d] <= pushed - Len(data_queue_)
            BY <5>1 DEF TakenInv
          <5> QED
            BY <1>1, <4>1, <4>2, <5>1, <5>2
        <4>6. data'[c] \in Nat
          BY <1>1, <4>4, <4>1, <4>2, <4>3, <2>3 DEF TypeOK
        <4> QED
          BY <4>4, <4>5, <4>6 DEF TakenInv
      <3> QED
        BY <3>1, <3>2
    <2>6. NewestInv'
      BY <1>1, <1>2, <1>5
      DEF ConsumeOne, NewestInv, OneConsumer, LatestIsLast, TakenInv, PcInv, QueueInv, Goto, TypeOK
    <2>7. NodeInv'
      BY <1>1, <1>5, <2>2
      DEF ConsumeOne, NodeInv, BoundedPushSucceeds, Goto
    <2> QED
      BY <2>3, <2>4, <2>5, <2>6, <2>7
  <1>6. CASE ConsumeCount(c)
    <2> DEFINE k == count[c]
    <2>1. k \in 1 .. Len(data_queue_)
      BY <1>1, <1>6 DEF ConsumeCount, CountInv, TypeOK
    <2>2. /\ data_queue_' \in Seq(Nat) /\ Len(data_queue_') = Len(data_queue_) - k
          /\ Consecutive(data_queue_', pushed)
      BY <1>1, <1>6, <2>1, SuffixFacts DEF ConsumeCount
    <2>3. /\ data_queue_[k] = pushed - Len(data_queue_) + k
          /\ data_queue_[k] \in 0 .. pushed
      BY <1>1, <2>1 DEF Consecutive, QueueInv
    <2>4. /\ data' = [data EXCEPT ![c] = data_queue_[k]] /\ count' = [count EXCEPT ![c] = 0]
          /\ spsc /\ pc[c] = "consume"
          /\ UNCHANGED <<spsc, pushed, pc, newest, latest, raced, refused, dropped>>
      BY <1>6 DEF ConsumeCount
    <2>5. data' \in [Consumers -> 0 .. pushed] /\ count' \in [Consumers -> 0 .. Capacity]
      BY <2>3, <2>4 DEF TypeOK
    <2> HIDE DEF k
    <2>6. Holding' = Holding /\ Used' \in Nat /\ Used' <= Used
      <3>1. Holding' = Holding
        BY <2>4 DEF Holding
      <3> QED
        BY <1>1, <2>1, <2>2, <3>1 DEF Used
    <2>7. TypeOK'
      <3>1. Len(data_queue_') + Cardinality(Holding') <= Capacity
        BY <1>1, <2>6 DEF Used
      <3>2. \A i \in 1 .. Len(data_queue_') : data_queue_'[i] = pushed - Len(data_queue_') + i
        BY <2>2 DEF Consecutive
      <3> QED
        BY <2>4, <2>5, <3>1, <3>2 DEF TypeOK
    <2>8. PcInv' /\ QueueInv'
      BY <1>1, <2>1, <2>2, <2>4 DEF PcInv, QueueInv
    <2>9. CountInv' /\ TakenInv'
      <3> SUFFICES ASSUME NEW d \in Consumers, pc'[d] \in {"consume", "free"}
                   PROVE  /\ count'[d] <= Len(data_queue_')
                          /\ data'[d] <= pushed' - Len(data_queue_')
        BY DEF CountInv, TakenInv
      <3>1. c \in Consumers \cap Spsc /\ d \in Consumers \cap Spsc
        BY <1>1, <2>4 DEF PcInv
      <3>2. d = c
        BY <3>1, SpscAssumption
      <3>3. count'[c] = 0 /\ data'[c] = data_queue_[k]
        BY <2>4 DEF TypeOK
      <3> QED
        BY <1>1, <2>1, <2>2, <2>3, <2>4, <3>2, <3>3
    <2>10. NewestInv'
      <3>1. OneConsumer => newest[c] <= data_queue_[k]
        BY <1>1, <2>1, <2>3, <2>4 DEF NewestInv, TakenInv, TypeOK, k
      <3> QED
        BY <1>1, <2>4, <3>1 DEF NewestInv, OneConsumer, LatestIsLast, PcInv, TypeOK
    <2>11. NodeInv'
      BY <1>1, <2>4, <2>6 DEF NodeInv, BoundedPushSucceeds
    <2> QED
      BY <2>7, <2>8, <2>9, <2>10, <2>11
  <1>7. CASE LatestReturns(c)
    <2>1. Holding' = Holding
      BY <1>1, <1>7, NoNode DEF LatestReturns, HoldingPC
    <2>2. TypeOK'
      BY <1>1, <1>7, <2>1 DEF LatestReturns, TypeOK, Goto
    <2>3. PcInv' /\ QueueInv' /\ CountInv' /\ TakenInv'
      BY <1>1, <1>7
      DEF LatestReturns, PcInv, QueueInv, CountInv, TakenInv, Goto, TypeOK
    <2>4. NewestInv'
      BY <1>1, <1>7
      DEF LatestReturns, NewestInv, LatestIsLast, QueueInv, Goto, Empty, TypeOK
    <2>5. NodeInv'
      BY <1>1, <1>7, <2>1
      DEF LatestReturns, NodeInv, BoundedPushSucceeds, Goto, Used
    <2> QED
      BY <2>2, <2>3, <2>4, <2>5
  <1> QED
    BY <1>3, <1>4, <1>5, <1>6, <1>7

\* Every step keeps the invariant.
LEMMA NextIInv == IInv /\ [Next]_vars => IInv'
  <1> SUFFICES ASSUME IInv, [Next]_vars PROVE IInv'
    OBVIOUS
  <1>1. ASSUME NEW p \in Producers,
               Push(p) \/ PushRing(p) \/ BoundedPush(p) \/ BoundedFull(p) \/ BoundedPop(p)
               \/ BoundedAgain(p) \/ BoundedRefused(p) \/ Link(p)
        PROVE  IInv'
    <2>1. CASE Push(p) \/ BoundedPush(p)
      BY <2>1, AllocateIInv DEF Push, BoundedPush
    <2>2. CASE BoundedAgain(p)
      <3>1. p \in Bounded
        BY <2>2, Basics DEF BoundedAgain, Allocate, Goto, IInv, PcInv
      <3> QED
        BY <2>2, <3>1, AllocateIInv DEF BoundedAgain
    <2> QED
      BY <1>1, <2>1, <2>2, BoundedIInv, EnqueueIInv
  <1>2. CASE UNCHANGED vars
    BY <1>2 DEF vars, consumer, producer, IInv, TypeOK, PcInv, QueueInv, NodeInv, CountInv,
                TakenInv, NewestInv, LatestIsLast, BoundedPushSucceeds,
                Used, Holding
  <1> QED
    BY <1>1, <1>2, ConsumerIInv, ReleaseIInv DEF Next

-----------------------------------------------------------------------------
\* The inductive invariant holds in every state.
THEOREM Invariance == Safety => []IInv
  BY InitIInv, NextIInv, PTL DEF Safety

\* The queue holds consecutive elements in the order of their pushes and no node is
\* used twice, for any number of threads, nodes and pushes.
THEOREM TypeCorrect == Safety => []TypeOK
  <1>1. IInv => TypeOK
    BY DEF IInv
  <1> QED
    BY <1>1, Invariance, PTL

\* bounded_push() returns false only to a producer since whose pop() another one has
\* taken a node, if there is a node for every thread.
THEOREM PushCorrect ==
  ASSUME EnoughNodes
  PROVE  Safety => []BoundedPushSucceeds
  <1>1. IInv => BoundedPushSucceeds
    BY EnoughNodes DEF IInv, NodeInv
  <1> QED
    BY <1>1, Invariance, PTL

\* With one consumer get_latest() of both queues gives the last element or a newer one.
THEOREM LatestCorrect ==
  ASSUME OneConsumer
  PROVE  Safety => []LatestIsLast
  <1>1. IInv => LatestIsLast
    BY OneConsumer DEF IInv, NewestInv
  <1> QED
    BY <1>1, Invariance, PTL

-----------------------------------------------------------------------------
(* The newest element                                                      *)

\* A producer that has a node, or whose second push() will find one, however few there are.
Replaces(p) ==
    \/ pc[p] \in {"link", "popped"}
    \/ pc[p] = "again" /\ p \notin raced /\ Used < Capacity

\* When bounded_push() has dropped the newest element the queue is empty, so that
\* nobody takes the node of that element but a producer, who will link it.
DropInv == dropped = pushed /\ pushed > 0 => Empty /\ \E p \in Producers : Replaces(p)

\* A producer that takes a node will push.
LEMMA AllocateDrop ==
  ASSUME IInv, DropInv, NEW p \in Producers, NEW from, Allocate(p, from)
  PROVE  DropInv'
  <1>1. pc'[p] = "link" /\ UNCHANGED <<data_queue_, pushed, dropped>>
    BY Basics DEF Allocate, Goto
  <1>2. Replaces(p)'
    BY <1>1 DEF Replaces
  <1> QED
    BY <1>1, <1>2 DEF DropInv, Empty

\* An element that joins the queue is newer.
LEMMA EnqueueDrop ==
  ASSUME IInv, Enqueue
  PROVE  DropInv'
  BY CapacityAssumption DEF Enqueue, IInv, TypeOK, DropInv, producer

\* A step that takes nothing out of the queue and no node keeps a producer in its place,
\* unless it is that producer's own.
LEMMA QuietDrop ==
  ASSUME IInv, DropInv, NEW t \in Threads, NEW from, NEW to, Goto(t, from, to),
         from # "again", to \notin HoldingPC, from \notin HoldingPC,
         UNCHANGED <<data_queue_, pushed, raced, dropped>>
  PROVE  DropInv'
  <1>1. Holding' = Holding
    BY Basics, NoNode
  <1>2. \A p \in Producers : Replaces(p) => Replaces(p)'
    BY <1>1, Basics DEF Replaces, Goto, Used, HoldingPC
  <1> QED
    BY <1>2 DEF DropInv, Empty

\* A node that is given back is free.
LEMMA ReleaseDrop ==
  ASSUME IInv, DropInv, NEW t \in Threads, Release(t)
  PROVE  DropInv'
  <1>1. /\ UNCHANGED <<data_queue_, pushed, raced, dropped>>
        /\ pc' \in {[pc EXCEPT ![t] = to] : to \in {"idle", "consume", "again"}}
        /\ pc[t] = "popped" => pc' = [pc EXCEPT ![t] = "again"]
        /\ pc[t] \in {"release", "free", "popped"}
    BY DEF Release, Goto, producer
  <1>2. /\ Cardinality(Holding') = Cardinality(Holding) - 1 /\ Cardinality(Holding) \in Nat
        /\ pc \in [Threads -> Places] /\ Producers \subseteq Threads
        /\ Used \in Nat /\ Used <= Capacity /\ Len(data_queue_) \in Nat
    BY Basics, GivesNode DEF Release, HoldingPC
  <1>3. Used' = Used - 1 /\ Used' < Capacity
    BY <1>1, <1>2, CapacityAssumption DEF Used
  <1>4. ASSUME NEW p \in Producers, Replaces(p) PROVE Replaces(p)'
    <2>1. CASE p = t
      <3>1. pc[p] = "popped" /\ pc'[p] = "again"
        BY <1>1, <1>2, <1>4, <2>1 DEF Replaces
      <3>2. p \notin raced'
        BY <1>1, <3>1 DEF IInv, PcInv
      <3> QED
        BY <1>3, <3>1, <3>2 DEF Replaces
    <2>2. CASE p # t
      <3>1. pc'[p] = pc[p]
        BY <1>1, <1>2, <2>2
      <3> QED
        BY <1>1, <1>3, <1>4, <3>1 DEF Replaces
    <2> QED
      BY <2>1, <2>2
  <1> QED
    BY <1>1, <1>4 DEF DropInv, Empty

\* A pop() that finds an element drops the newest one only if it was alone.
LEMMA BoundedPopDrop ==
  ASSUME IInv, DropInv, NEW p \in Producers, BoundedPop(p)
  PROVE  DropInv'
  <1>1. CASE Empty
    <2>1. Goto(p, "pop", "again") /\ UNCHANGED <<data_queue_, pushed, raced, dropped>>
      BY <1>1 DEF BoundedPop, BoundedTake
    <2>2. Holding' = Holding
      BY <2>1, Basics, NoNode DEF HoldingPC
    <2>3. \A q \in Producers : Replaces(q) => Replaces(q)'
      BY <2>1, <2>2, Basics DEF Replaces, Goto, Used
    <2> QED
      BY <2>1, <2>3 DEF DropInv, Empty
  <1>2. CASE ~Empty
    <2>1. /\ Goto(p, "pop", "popped") /\ data_queue_' = Tail(data_queue_)
          /\ dropped' = IF Head(data_queue_) > dropped THEN Head(data_queue_) ELSE dropped
          /\ UNCHANGED <<pushed, raced>>
      BY <1>2 DEF BoundedPop, BoundedTake
    <2>2. /\ data_queue_' \in Seq(Nat) /\ Len(data_queue_) \in Nat \ {0}
          /\ Len(data_queue_') = Len(data_queue_) - 1
          /\ Head(data_queue_) = pushed - Len(data_queue_) + 1 /\ pushed \in Nat
      BY <1>2, <2>1, Basics, TailFacts DEF Empty
    <2>3. pc'[p] = "popped"
      BY <2>1, Basics DEF Goto
    <2>4. Replaces(p)'
      BY <2>1, <2>3 DEF Replaces
    <2>5. dropped' = pushed /\ pushed > 0 => Len(data_queue_) = 1
      <3>1. pushed > 0 => dropped # pushed
        BY <1>2 DEF DropInv
      <3> QED
        BY <2>1, <2>2, <3>1
    <2>6. Len(data_queue_) = 1 => Empty'
      BY <2>2 DEF Empty
    <2> QED
      BY <2>1, <2>3, <2>4, <2>5, <2>6 DEF DropInv
  <1> QED
    BY <1>1, <1>2

\* A producer that finds no node is not the one that will replace the element.
LEMMA RefusedDrop ==
  ASSUME IInv, DropInv, NEW p \in Producers, BoundedRefused(p)
  PROVE  DropInv'
  <1>1. /\ Goto(p, "again", "idle") /\ raced' = raced \ {p} /\ Used = Capacity
        /\ UNCHANGED <<data_queue_, pushed, dropped>>
    BY DEF BoundedRefused, Full, Used
  <1>2. Holding' = Holding
    BY <1>1, Basics, NoNode DEF HoldingPC
  <1>3. ~Replaces(p)
    BY <1>1, CapacityAssumption DEF Replaces, Goto
  <1>4. \A q \in Producers : Replaces(q) => Replaces(q)'
    BY <1>1, <1>2, <1>3, Basics DEF Replaces, Goto, Used
  <1> QED
    BY <1>1, <1>4 DEF DropInv, Empty

\* Consumers take elements while there are any, and then the newest was not dropped.
LEMMA TakenDrop ==
  ASSUME IInv, DropInv, ~Empty, UNCHANGED <<pushed, dropped>>
  PROVE  DropInv'
  BY DEF DropInv

\* Every step keeps it.
LEMMA NextDrop == IInv /\ DropInv /\ [Next]_vars => DropInv'
  <1> SUFFICES ASSUME IInv, DropInv, [Next]_vars PROVE DropInv'
    OBVIOUS
  <1>1. ASSUME NEW p \in Producers,
               Push(p) \/ PushRing(p) \/ BoundedPush(p) \/ BoundedFull(p) \/ BoundedPop(p)
               \/ BoundedAgain(p) \/ BoundedRefused(p) \/ Link(p)
        PROVE  DropInv'
    <2>1. CASE Push(p) \/ BoundedPush(p) \/ BoundedAgain(p) \/ Link(p) \/ PushRing(p)
      BY <2>1, AllocateDrop, EnqueueDrop DEF Push, PushRing, BoundedPush, BoundedAgain, Link
    <2>2. CASE BoundedFull(p)
      <3>1. /\ Goto(p, "idle", "pop") /\ p \in Threads
            /\ UNCHANGED <<data_queue_, pushed, raced, dropped>>
        BY <2>2, Basics DEF BoundedFull, producer
      <3> QED
        BY <3>1, QuietDrop DEF HoldingPC
    <2> QED
      BY <1>1, <2>1, <2>2, BoundedPopDrop, RefusedDrop
  <1>2. ASSUME NEW c \in Consumers,
               Pop(c) \/ GetLatest(c) \/ ConsumeOne(c) \/ ConsumeCount(c) \/ LatestReturns(c)
        PROVE  DropInv'
    <2>1. CASE Pop(c) \/ ConsumeOne(c)
      BY <2>1, TakenDrop DEF Pop, ConsumeOne, producer
    <2>2. CASE ConsumeCount(c)
      <3>1. count[c] <= Len(data_queue_) /\ 0 < count[c] /\ count[c] \in Nat
        BY <2>2, CapacityAssumption DEF ConsumeCount, IInv, CountInv, TypeOK
      <3>2. ~Empty
        BY <3>1, Basics DEF Empty
      <3> QED
        BY <2>2, <3>2, TakenDrop DEF ConsumeCount, producer
    <2>3. CASE GetLatest(c) \/ LatestReturns(c)
      <3>1. /\ Goto(c, "idle", "consume") \/ Goto(c, "consume", "idle")
            /\ c \in Threads /\ UNCHANGED <<data_queue_, pushed, raced, dropped>>
        BY <2>3, Basics DEF GetLatest, LatestReturns, producer
      <3> QED
        BY <3>1, QuietDrop DEF HoldingPC
    <2> QED
      BY <1>2, <2>1, <2>2, <2>3
  <1>3. CASE UNCHANGED vars
    BY <1>3 DEF vars, consumer, producer, DropInv, Replaces, Used, Holding, Empty
  <1> QED
    BY <1>1, <1>2, <1>3, ReleaseDrop DEF Next

\* When bounded_push() has dropped the newest element, a producer that has a node or will
\* find one is still in its call: however few nodes there are.
THEOREM NewestCorrect == Safety => []NewestSurvives
  <1>1. Init => DropInv
    BY DEF Init, DropInv
  <1>2. DropInv => NewestSurvives
    BY DEF DropInv, Replaces, NewestSurvives
  <1> QED
    BY <1>1, <1>2, NextDrop, Invariance, PTL DEF Safety

=============================================================================
