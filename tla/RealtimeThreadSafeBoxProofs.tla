-------------------- MODULE RealtimeThreadSafeBoxProofs --------------------
(***************************************************************************)
(* Proofs about RealtimeThreadSafeBox for any threads, boxes, values and   *)
(* assignments, also in a circle: no lock() fails, and the boxes implement *)
(* Registers.                                                              *)
(***************************************************************************)
EXTENDS RealtimeThreadSafeBox, TLAPS

\* The mutexes that occur: never locked twice, never lost.
Mutexes == [owner : Threads \cup {Nobody}, depth : {0, 1},
            state : {"consistent", "dead"}, recursive : BOOLEAN]

\* Where a thread can be.
Places == {"idle", "lock", "lock_self", "first", "second", "user", "ended"}

\* A mutex is held by exactly the thread that is inside, and then it is consistent.
LockInv ==
    /\ lock_ \in [Boxes -> Mutexes]
    /\ \A b \in Boxes : /\ lock_[b].depth = IF lock_[b].owner = Nobody THEN 0 ELSE 1
                        /\ lock_[b].owner # Nobody => lock_[b].state = "consistent"
    /\ \A b \in Boxes, t \in Threads : lock_[b].owner = t <=> b \in Held(t)

\* What a thread does where; nobody assigns a box to itself.
CallInv ==
    \A t \in Threads :
        /\ pc[t] \notin {"idle", "ended"} => op[t] \in Ops /\ op[t].box # op[t].from
        /\ pc[t] = "lock_self" => Assigns(op[t])
        /\ pc[t] = "user" => op[t].kind = "user"
        /\ pc[t] \in {"first", "second"} => op[t].kind # "user"

\* What the thread t has copied of a value is still the first half of it.
Copied(t) ==
    pc[t] = "second" =>
        /\ Reads(op[t]) => half[t] = value_[op[t].box][1]
        /\ op[t].kind = "set" => value_[op[t].box][1] = op[t].value
        /\ Assigns(op[t]) => value_[op[t].box][1] = value_[op[t].from][1]

DataInv == \A t \in Threads : Copied(t)

IInv ==
    /\ TypeOK
    /\ LockInv
    /\ CallInv
    /\ DataInv
    /\ LockNeverFails

-----------------------------------------------------------------------------
(* The operators                                                           *)

\* The calls and the boxes they use.
LEMMA OpFacts ==
  ASSUME NEW o \in Ops
  PROVE  /\ o.box \in Boxes /\ o.kind \in {"set", "get", "take", "user", "copy", "move"}
         /\ Assigns(o) => o.from \in Boxes
         /\ ~Assigns(o) => o.from = Nobody
         /\ o.kind = "set" => o.value \in Values
         /\ o # NoOp
  BY AssignmentsAssumption DEF Ops, Assigns, NoOp

\* A mutex after pthread_mutex_lock.
LEMMA AcquiredFacts ==
  ASSUME NEW m \in Mutexes, NEW t \in Threads
  PROVE  Acquired(m, t) = [owner |-> t, depth |-> m.depth + 1, state |-> m.state,
                           recursive |-> m.recursive]
  <1>1. Acquired(m, t) = [[m EXCEPT !.owner = t] EXCEPT !.depth = m.depth + 1]
    BY DEF Acquired
  <1>2. m = [owner |-> m.owner, depth |-> m.depth, state |-> m.state,
             recursive |-> m.recursive]
    BY DEF Mutexes
  <1>3. [m EXCEPT !.owner = t]
            = [owner |-> t, depth |-> m.depth, state |-> m.state, recursive |-> m.recursive]
    BY <1>2
  <1>4. [[owner |-> t, depth |-> m.depth, state |-> m.state, recursive |-> m.recursive]
             EXCEPT !.depth = m.depth + 1]
            = [owner |-> t, depth |-> m.depth + 1, state |-> m.state,
               recursive |-> m.recursive]
    OBVIOUS
  <1> QED
    BY <1>1, <1>3, <1>4

\* A mutex that nobody holds can be locked, whether or not its last owner died.
LEMMA LockFacts ==
  ASSUME NEW m \in Mutexes, NEW t \in Threads, m.owner = Nobody, m.depth = 0
  PROVE  /\ ~Throws(m, t) /\ Result(m, t) # "EBUSY"
         /\ Lock(m, t) \in Mutexes /\ Lock(m, t).owner = t /\ Lock(m, t).depth = 1
         /\ Lock(m, t).state = "consistent"
  <1>1. m.state \in {"consistent", "dead"} /\ t # Nobody
    BY NobodyAssumption DEF Mutexes
  <1>2. Result(m, t) = IF m.state = "dead" THEN "EOWNERDEAD" ELSE "OK"
    BY <1>1 DEF Result
  <1>3. ~Throws(m, t) /\ Result(m, t) # "EBUSY"
    BY <1>2 DEF Throws
  <1>4. /\ Acquired(m, t) \in [owner : Threads, depth : {1}, state : {"consistent", "dead"},
                              recursive : BOOLEAN]
        /\ Acquired(m, t).owner = t /\ Acquired(m, t).state = m.state
    <2>1. Acquired(m, t) = [owner |-> t, depth |-> 1, state |-> m.state,
                            recursive |-> m.recursive]
      BY AcquiredFacts
    <2> QED
      BY <2>1 DEF Mutexes
  <1>5. CASE m.state = "dead"
    <2>1. Lock(m, t) = Consistent(Acquired(m, t))
      BY <1>2, <1>3, <1>5 DEF Lock
    <2> QED
      BY <1>3, <1>4, <2>1 DEF Consistent, Mutexes
  <1>6. CASE m.state = "consistent"
    <2>1. Lock(m, t) = Acquired(m, t)
      BY <1>2, <1>3, <1>6 DEF Lock
    <2> QED
      BY <1>3, <1>4, <1>6, <2>1 DEF Mutexes
  <1> QED
    BY <1>1, <1>5, <1>6

\* A mutex that is held and consistent is as good as new after unlock().
LEMMA UnlockFacts ==
  ASSUME NEW m \in Mutexes, NEW t \in Threads, m.owner = t => m.depth = 1 /\ m.state = "consistent"
  PROVE  /\ Unlock(m, t) = IF m.owner = t THEN Fresh(m.recursive) ELSE m
         /\ Unlock(m, t) \in Mutexes
  BY DEF Mutexes, Unlock, Fresh

\* The recursive mutex is locked and unlocked once more without effect.
LEMMA NestedFacts ==
  ASSUME NEW m \in Mutexes, NEW t \in Threads, m.owner = t, m.depth = 1, ~Throws(m, t)
  PROVE  Unlock(Lock(m, t), t) = m
  <1>1. Result(m, t) = "OK"
    <2>1. Result(m, t) \in {"OK", "EDEADLK"}
      BY NobodyAssumption DEF Result
    <2> QED
      BY <2>1 DEF Throws
  <1>2. Lock(m, t) = Acquired(m, t)
    BY <1>1 DEF Lock
  <1>3. /\ Acquired(m, t).owner = t /\ Acquired(m, t).depth = 2
        /\ [Acquired(m, t) EXCEPT !.depth = @ - 1] = m
    <2>1. Acquired(m, t) = [owner |-> t, depth |-> 2, state |-> m.state,
                            recursive |-> m.recursive]
      BY AcquiredFacts
    <2>2. m = [owner |-> t, depth |-> 1, state |-> m.state, recursive |-> m.recursive]
      BY DEF Mutexes
    <2> QED
      BY <2>1, <2>2
  <1> QED
    BY <1>2, <1>3 DEF Unlock

\* lock() blocks while another thread has the mutex.
LEMMA BusyFacts ==
  ASSUME NEW m, NEW t, m.owner \notin {t, Nobody}
  PROVE  Result(m, t) = "EBUSY"
  BY DEF Result

\* The two halves of a value.
LEMMA HalfFacts ==
  ASSUME NEW S, NEW p \in S \X S, NEW v \in S
  PROVE  /\ [p EXCEPT ![1] = v] = <<v, p[2]>> /\ [p EXCEPT ![2] = v] = <<p[1], v>>
         /\ p[1] \in S /\ p[2] \in S /\ p = <<p[1], p[2]>>
  OBVIOUS

\* Where a thread is in its call tells which mutexes it holds.
LEMMA HeldFacts ==
  ASSUME IInv, NEW t \in Threads
  PROVE  /\ pc[t] \in {"idle", "lock", "ended"} => Held(t) = {}
         /\ pc[t] = "user" => Held(t) = {op[t].box}
         /\ pc[t] = "lock_self" => Held(t) = {op[t].from}
         /\ pc[t] \in {"first", "second"} =>
               Held(t) = IF Assigns(op[t]) THEN {op[t].box, op[t].from} ELSE {op[t].box}
         /\ Held(t) \subseteq Boxes
  <1>1. pc[t] \notin {"idle", "ended"} => op[t] \in Ops /\ Nobody \notin Boxes
    BY NobodyAssumption DEF IInv, CallInv
  <1>2. pc[t] = "lock_self" => Assigns(op[t])
    BY DEF IInv, CallInv
  <1>3. pc[t] \in {"idle", "lock", "lock_self", "first", "second", "user", "ended"}
    BY DEF IInv, TypeOK
  <1> QED
    BY <1>1, <1>2, <1>3, OpFacts DEF Held

-----------------------------------------------------------------------------
(* The invariant                                                           *)

\* The inductive invariant holds for new boxes.
LEMMA InitIInv == Init => IInv
  <1> SUFFICES ASSUME Init PROVE IInv
    OBVIOUS
  <1>1. /\ pc = [t \in Threads |-> "idle"] /\ op = [t \in Threads |-> NoOp]
        /\ \A t \in Threads : Held(t) = {}
    BY DEF Init, Held
  <1>2. LockInv
    <2>1. PICK recursive \in BOOLEAN : lock_ = [b \in Boxes |-> Fresh(recursive)]
      BY DEF Init
    <2>2. Fresh(recursive) \in Mutexes
      BY DEF Fresh, Mutexes
    <2> QED
      BY <1>1, <2>1, <2>2, NobodyAssumption DEF LockInv, Fresh
  <1>3. TypeOK
    <2>1. value_ \in [Boxes -> (Values \cup {Moved}) \X (Values \cup {Moved})]
      BY DEF Init, Halves
    <2>2. \A b \in Boxes : DOMAIN lock_[b] = DOMAIN Fresh(FALSE)
      BY DEF Init, Fresh
    <2> QED
      BY <1>1, <1>2, <2>1, <2>2 DEF Init, TypeOK, LockInv
  <1>4. CallInv /\ DataInv /\ LockNeverFails
    BY <1>1 DEF Init, CallInv, DataInv, Copied, LockNeverFails, Halves
  <1> QED
    BY <1>2, <1>3, <1>4 DEF IInv

\* DOMAIN lock_[b] is the one of every mutex.
LEMMA MutexDomain == \A m \in Mutexes : DOMAIN m = DOMAIN Fresh(FALSE)
  BY DEF Mutexes, Fresh

\* The thread t moves and maybe takes or leaves mutexes; the others keep theirs.
LEMMA Locks2Inv ==
  ASSUME IInv, NEW t \in Threads, NEW to, NEW o,
         pc' = [pc EXCEPT ![t] = to], op' = [op EXCEPT ![t] = o],
         lock_' \in [Boxes -> Mutexes],
         \A b \in Boxes :
            \/ lock_'[b] = lock_[b] /\ (lock_[b].owner = t <=> b \in Held(t)')
            \/ /\ lock_[b].owner = Nobody /\ lock_'[b].owner = t /\ lock_'[b].depth = 1
               /\ lock_'[b].state = "consistent" /\ b \in Held(t)'
            \/ /\ lock_[b].owner = t /\ lock_'[b].owner = Nobody /\ lock_'[b].depth = 0
               /\ b \notin Held(t)'
  PROVE  LockInv'
  <1>1. \A u \in Threads : u # t => Held(u)' = Held(u)
    BY DEF Held, IInv, TypeOK
  <1>2. t # Nobody /\ Nobody \notin Threads
    BY NobodyAssumption
  <1>3. \A b \in Boxes : /\ lock_'[b].depth = IF lock_'[b].owner = Nobody THEN 0 ELSE 1
                         /\ lock_'[b].owner # Nobody => lock_'[b].state = "consistent"
    BY <1>2 DEF IInv, LockInv
  <1>4. \A b \in Boxes, u \in Threads : lock_'[b].owner = u <=> b \in Held(u)'
    BY <1>1, <1>2 DEF IInv, LockInv
  <1> QED
    BY <1>3, <1>4 DEF LockInv

\* Two threads never hold the same mutex.
LEMMA HeldDisjoint ==
  ASSUME IInv, NEW t \in Threads, NEW u \in Threads, t # u
  PROVE  Held(t) \cap Held(u) = {}
  BY HeldFacts DEF IInv, LockInv

\* The thread t moves; what it writes, it writes in boxes whose mutex it holds.
LEMMA Data2Inv ==
  ASSUME IInv, NEW t \in Threads,
         \A u \in Threads : u # t => pc'[u] = pc[u] /\ op'[u] = op[u] /\ half'[u] = half[u],
         \A b \in Boxes : b \notin Held(t) => value_'[b] = value_[b],
         Copied(t)'
  PROVE  DataInv'
  <1>1. ASSUME NEW u \in Threads, u # t
        PROVE  Copied(u)'
    <2> SUFFICES ASSUME pc[u] = "second"
                 PROVE  Copied(u)'
      BY <1>1 DEF Copied
    <2>1. op[u].box \in Held(u) /\ (Assigns(op[u]) => op[u].from \in Held(u))
      BY HeldFacts
    <2>2. Held(u) \subseteq Boxes /\ Held(u) \cap Held(t) = {}
      BY <1>1, HeldFacts, HeldDisjoint
    <2>3. /\ value_'[op[u].box] = value_[op[u].box]
          /\ Assigns(op[u]) => value_'[op[u].from] = value_[op[u].from]
      BY <2>1, <2>2
    <2> QED
      BY <1>1, <2>3 DEF IInv, DataInv, Copied
  <1> QED
    BY <1>1 DEF DataInv

\* A step of t keeps the invariant if it keeps what the parts say of t.
LEMMA StepIInv ==
  ASSUME IInv, NEW t \in Threads, NEW to \in Places, NEW o \in Ops \cup {NoOp},
         pc' = [pc EXCEPT ![t] = to], op' = [op EXCEPT ![t] = o],
         LockInv', DataInv', failed' = failed,
         value_' \in [Boxes -> (Values \cup {Moved}) \X (Values \cup {Moved})],
         half' \in [Threads -> Values \cup {Moved, Nothing}],
         got' \in [Threads -> ((Values \cup {Moved}) \X (Values \cup {Moved})) \cup {Nothing, Thrown}],
         to \notin {"idle", "ended"} => o \in Ops /\ o.box # o.from,
         to = "lock_self" => Assigns(o),
         to = "user" => o.kind = "user",
         to \in {"first", "second"} => o.kind # "user"
  PROVE  IInv'
  <1>1. pc' \in [Threads -> Places]
    BY DEF IInv, TypeOK, Places
  <1>2. op' \in [Threads -> Ops \cup {NoOp}]
    BY DEF IInv, TypeOK
  <1>3. \A b \in Boxes : /\ DOMAIN lock_'[b] = DOMAIN Fresh(FALSE)
                         /\ lock_'[b].depth = IF lock_'[b].owner = Nobody THEN 0 ELSE 1
                         /\ \A u \in Threads : lock_'[b].owner = u => b \in Held(u)'
    BY MutexDomain DEF LockInv
  <1>4. TypeOK'
    BY <1>1, <1>2, <1>3 DEF IInv, TypeOK, Places
  <1>5. CallInv'
    <2>1. /\ pc'[t] = to /\ op'[t] = o
          /\ \A u \in Threads : u # t => pc'[u] = pc[u] /\ op'[u] = op[u]
      BY DEF IInv, TypeOK
    <2> QED
      BY <2>1 DEF IInv, CallInv, Assigns
  <1>6. LockNeverFails'
    BY DEF IInv, LockNeverFails
  <1> QED
    BY <1>4, <1>5, <1>6 DEF IInv

-----------------------------------------------------------------------------
(* The actions                                                             *)

\* Steps that take or leave mutexes and touch no value.
LEMMA Unwritten ==
  ASSUME IInv, NEW t \in Threads, pc[t] # "second", NEW to, NEW o,
         pc' = [pc EXCEPT ![t] = to], op' = [op EXCEPT ![t] = o], to # "second",
         UNCHANGED <<value_, half>>
  PROVE  DataInv'
  <1>1. \A u \in Threads : u # t => pc'[u] = pc[u] /\ op'[u] = op[u] /\ half'[u] = half[u]
    OBVIOUS
  <1>2. \A b \in Boxes : value_'[b] = value_[b]
    OBVIOUS
  <1>3. Copied(t)'
    BY DEF IInv, TypeOK, Copied
  <1> QED
    BY <1>1, <1>2, <1>3, Data2Inv

\* A call begins.
LEMMA CallsIInv ==
  ASSUME IInv, NEW t \in Threads, NEW o \in Ops, Calls(t, o)
  PROVE  IInv'
  <1>1. /\ pc[t] = "idle" /\ pc' = [pc EXCEPT ![t] = "lock"] /\ op' = [op EXCEPT ![t] = o]
        /\ o.box # o.from /\ got' = [got EXCEPT ![t] = Nothing]
        /\ UNCHANGED <<value_, lock_, half, failed>>
    BY DEF Calls, BeginCall, Goto
  <1>2. Held(t) = {} /\ Held(t)' = {}
    BY <1>1, HeldFacts DEF Held, IInv, TypeOK
  <1>3. LockInv'
    BY <1>1, <1>2, Locks2Inv DEF IInv, LockInv
  <1>4. DataInv'
    BY <1>1, Unwritten
  <1> QED
    BY <1>1, <1>3, <1>4, StepIInv DEF IInv, TypeOK, Places

\* The first lock of a call, with lock() or try_lock(), succeeds.
LEMMA LockStepIInv ==
  ASSUME IInv, NEW t \in Threads, NEW o \in Ops, NEW from \in {"idle", "lock"},
         o.box # o.from, LockStep(t, o, from)
  PROVE  IInv'
  <1> DEFINE b == FirstLocked(o)
             m == lock_[b]
  <1>1. b \in Boxes /\ pc[t] = from
    BY OpFacts DEF FirstLocked, LockStep
  <1>2. m.owner = Nobody /\ m.depth = 0 /\ m \in Mutexes
    <2>1. m.owner # t
      BY <1>1, HeldFacts DEF IInv, LockInv
    <2> QED
      BY <1>1, <2>1, BusyFacts DEF IInv, LockInv, LockStep
  <1>3. /\ ~Throws(m, t) /\ Lock(m, t) \in Mutexes /\ Lock(m, t).owner = t
        /\ Lock(m, t).depth = 1 /\ Lock(m, t).state = "consistent"
    BY <1>2, LockFacts
  <1>4. /\ pc' = [pc EXCEPT ![t] = Entered(o)] /\ op' = [op EXCEPT ![t] = o]
        /\ lock_' = [lock_ EXCEPT ![b] = Lock(m, t)]
        /\ got' = [got EXCEPT ![t] = Nothing] /\ UNCHANGED <<value_, half, failed>>
    BY <1>1, <1>3 DEF LockStep, Goto, IInv, LockInv
  <1>5. \/ Entered(o) = "lock_self" /\ Assigns(o) /\ b = o.from
        \/ Entered(o) = "user" /\ o.kind = "user" /\ b = o.box
        \/ Entered(o) = "first" /\ o.kind \in {"set", "get", "take"} /\ b = o.box
    BY OpFacts DEF Entered, Assigns, FirstLocked
  <1>6. Held(t) = {} /\ Held(t)' = {b}
    <2>1. pc'[t] = Entered(o) /\ op'[t] = o
      BY <1>4 DEF IInv, TypeOK
    <2>2. ~Assigns(o) => o.from = Nobody /\ o.box # Nobody
      BY OpFacts, NobodyAssumption
    <2>3. Held(t)' = {b}
      <3>1. CASE Entered(o) = "lock_self"
        BY <1>5, <2>1, <3>1 DEF Held
      <3>2. CASE Entered(o) = "user"
        BY <1>5, <2>1, <3>2 DEF Held
      <3>3. CASE Entered(o) = "first"
        BY <1>5, <2>1, <2>2, <3>3 DEF Held, Assigns
      <3> QED
        BY <1>5, <3>1, <3>2, <3>3
    <2> QED
      BY <1>1, <2>3, HeldFacts
  <1> HIDE DEF b
  <1>7. LockInv'
    <2>1. lock_' \in [Boxes -> Mutexes]
      BY <1>1, <1>3, <1>4 DEF IInv, LockInv
    <2>2. \A c \in Boxes : lock_[c].owner # t
      BY <1>6 DEF IInv, LockInv
    <2>3. \A c \in Boxes : IF c = b THEN lock_'[c] = Lock(m, t) ELSE lock_'[c] = lock_[c]
      BY <1>1, <1>4 DEF IInv, LockInv
    <2> QED
      BY <1>1, <1>2, <1>3, <1>4, <1>6, <2>1, <2>2, <2>3, Locks2Inv
  <1>8. DataInv'
    BY <1>1, <1>4, <1>5, Unwritten
  <1> QED
    BY <1>4, <1>5, <1>7, <1>8, StepIInv, OpFacts DEF IInv, TypeOK, Assigns, Places

\* The second lock of operator= succeeds.
LEMMA LockSelfIInv ==
  ASSUME IInv, NEW t \in Threads, LockSelf(t)
  PROVE  IInv'
  <1> DEFINE o == op[t]
             b == op[t].box
             m == lock_[b]
  <1>1. /\ pc[t] = "lock_self" /\ o \in Ops /\ b \in Boxes /\ b # o.from /\ Assigns(o)
        /\ o.from \in Boxes /\ Nobody \notin Boxes
    BY OpFacts, NobodyAssumption DEF LockSelf, IInv, CallInv
  <1>2. m.owner = Nobody /\ m.depth = 0 /\ m \in Mutexes
    <2>1. m.owner # t
      BY <1>1, HeldFacts DEF IInv, LockInv
    <2> QED
      BY <1>1, <2>1, BusyFacts DEF IInv, LockInv, LockSelf
  <1>3. /\ ~Throws(m, t) /\ Lock(m, t) \in Mutexes /\ Lock(m, t).owner = t
        /\ Lock(m, t).depth = 1 /\ Lock(m, t).state = "consistent"
    BY <1>2, LockFacts
  <1>4. /\ pc' = [pc EXCEPT ![t] = "first"] /\ op' = [op EXCEPT ![t] = o]
        /\ lock_' = [lock_ EXCEPT ![b] = Lock(m, t)]
        /\ UNCHANGED <<value_, half, got, failed>>
    BY <1>1, <1>3 DEF LockSelf, Goto, IInv, LockInv
  <1>5. Held(t) = {o.from} /\ Held(t)' = {b, o.from}
    <2>1. pc'[t] = "first" /\ op'[t] = o
      BY <1>4 DEF IInv, TypeOK
    <2> QED
      BY <1>1, <2>1, HeldFacts DEF Held
  <1> HIDE DEF b, o
  <1>6. LockInv'
    <2>1. lock_' \in [Boxes -> Mutexes]
      BY <1>1, <1>3, <1>4 DEF IInv, LockInv
    <2>2. \A c \in Boxes : lock_[c].owner = t <=> c = o.from
      BY <1>5 DEF IInv, LockInv
    <2>3. \A c \in Boxes : IF c = b THEN lock_'[c] = Lock(m, t) ELSE lock_'[c] = lock_[c]
      BY <1>1, <1>4 DEF IInv, LockInv
    <2> QED
      BY <1>1, <1>2, <1>3, <1>4, <1>5, <2>1, <2>2, <2>3, Locks2Inv
  <1>7. DataInv'
    BY <1>1, <1>4, Unwritten
  <1>8. o.box # o.from /\ o.kind # "user"
    BY <1>1 DEF b, o, Assigns
  <1> QED
    BY <1>1, <1>4, <1>6, <1>7, <1>8, StepIInv DEF IInv, TypeOK, Places

\* The first half of the copy: the box written is held.
LEMMA CopyFirstIInv ==
  ASSUME IInv, NEW t \in Threads, CopyFirst(t)
  PROVE  IInv'
  <1> DEFINE o == op[t]
             S == Values \cup {Moved}
  <1>1. /\ pc[t] = "first" /\ o \in Ops /\ o.box # o.from /\ o.kind # "user"
        /\ o.box \in Boxes /\ o.box \in Held(t)
        /\ Assigns(o) => o.from \in Boxes /\ o.from \in Held(t)
        /\ o.kind \in {"set", "get", "take", "copy", "move"}
    <2>1. pc[t] = "first" /\ o \in Ops /\ o.box # o.from /\ o.kind # "user"
      BY DEF CopyFirst, Goto, IInv, CallInv
    <2> QED
      BY <2>1, OpFacts, HeldFacts
  <1>2. /\ pc' = [pc EXCEPT ![t] = "second"] /\ op' = [op EXCEPT ![t] = o]
        /\ UNCHANGED <<lock_, got, failed>>
    BY DEF CopyFirst, Goto, IInv, TypeOK
  <1>3. /\ pc'[t] = "second" /\ op'[t] = o
        /\ \A u \in Threads : u # t => pc'[u] = pc[u] /\ op'[u] = op[u]
    BY <1>2 DEF IInv, TypeOK
  <1>4. Held(t)' = Held(t)
    BY <1>1, <1>3 DEF Held
  <1>5. LockInv'
    <2>1. lock_' \in [Boxes -> Mutexes]
      BY <1>2 DEF IInv, LockInv
    <2>2. \A b \in Boxes : lock_'[b] = lock_[b] /\ (lock_[b].owner = t <=> b \in Held(t)')
      BY <1>2, <1>4 DEF IInv, LockInv
    <2> QED
      BY <1>2, <2>1, <2>2, Locks2Inv
  <1>6. /\ value_ \in [Boxes -> S \X S] /\ \A b \in Boxes : value_[b][1] \in S
        /\ half \in [Threads -> S \cup {Nothing}]
    BY HalfFacts DEF IInv, TypeOK
  <1>7. /\ half' = [half EXCEPT ![t] = value_[o.box][1]]
        /\ half' \in [Threads -> S \cup {Nothing}] /\ half'[t] = value_[o.box][1]
        /\ \A u \in Threads : u # t => half'[u] = half[u]
    BY <1>1, <1>6 DEF CopyFirst
  <1>8. CASE Reads(o)
    <2>1. value_' = value_
      BY <1>8 DEF CopyFirst
    <2>2. ~Assigns(o) /\ o.kind # "set"
      BY <1>8 DEF Reads, Assigns
    <2>3. Copied(t)'
      BY <1>3, <1>7, <2>1, <2>2 DEF Copied
    <2>4. DataInv'
      BY <1>3, <1>7, <2>1, <2>3, Data2Inv
    <2> QED
      BY <1>1, <1>2, <1>5, <1>7, <2>1, <2>4, StepIInv DEF IInv, TypeOK, Places
  <1>9. CASE ~Reads(o)
    <2> DEFINE v == Stored(o, 1)
    <2>1. value_' = [value_ EXCEPT ![o.box][1] = v]
      BY <1>9 DEF CopyFirst
    <2>2. v \in S
      BY <1>1, <1>6, <1>9, OpFacts DEF Stored, Reads, Assigns
    <2>3. o.kind = "set" => v = o.value
      BY DEF Stored
    <2>4. Assigns(o) => v = value_[o.from][1]
      BY DEF Stored, Assigns
    <2> HIDE DEF v
    <2>5. value_' = [value_ EXCEPT ![o.box] = <<v, value_[o.box][2]>>]
      <3>1. value_' = [value_ EXCEPT ![o.box] = [value_[o.box] EXCEPT ![1] = v]]
        BY <2>1
      <3>2. value_[o.box] \in S \X S
        BY <1>1, <1>6
      <3>3. [value_[o.box] EXCEPT ![1] = v] = <<v, value_[o.box][2]>>
        BY <2>2, <3>2, HalfFacts
      <3> QED
        BY <3>1, <3>3
    <2>6. value_' \in [Boxes -> S \X S]
      BY <1>1, <1>6, <2>2, <2>5, HalfFacts
    <2>7. /\ value_'[o.box][1] = v
          /\ \A b \in Boxes : b # o.box => value_'[b] = value_[b]
      BY <1>1, <1>6, <2>5
    <2>8. Copied(t)'
      BY <1>1, <1>3, <1>9, <2>3, <2>4, <2>7 DEF Copied
    <2>9. DataInv'
      BY <1>1, <1>3, <1>7, <2>7, <2>8, Data2Inv
    <2> QED
      BY <1>1, <1>2, <1>5, <1>7, <2>6, <2>9, StepIInv DEF IInv, TypeOK, Places
  <1> QED
    BY <1>8, <1>9

\* The guards of a call leave exactly the mutexes its thread has.
LEMMA ReturnFacts ==
  ASSUME IInv, NEW t \in Threads, pc[t] \in {"first", "second", "user"}, Return(t),
         pc' = [pc EXCEPT ![t] = "idle"]
  PROVE  LockInv' /\ op' = [op EXCEPT ![t] = NoOp]
  <1>1. op' = [op EXCEPT ![t] = NoOp] /\ lock_' = Released(t)
    BY DEF Return
  <1>2. Held(t) \subseteq {op[t].box, op[t].from}
    BY HeldFacts
  <1>3. ASSUME NEW b \in Boxes
        PROVE  /\ lock_'[b] = IF lock_[b].owner = t THEN Fresh(lock_[b].recursive) ELSE lock_[b]
               /\ lock_'[b] \in Mutexes
    <2>1. /\ lock_[b] \in Mutexes /\ (lock_[b].owner = t <=> b \in Held(t))
          /\ lock_[b].owner = t => lock_[b].depth = 1 /\ lock_[b].state = "consistent"
      BY NobodyAssumption DEF IInv, LockInv
    <2>2. /\ Unlock(lock_[b], t) = IF lock_[b].owner = t THEN Fresh(lock_[b].recursive)
                                                         ELSE lock_[b]
          /\ Unlock(lock_[b], t) \in Mutexes
      BY <2>1, UnlockFacts
    <2>3. lock_'[b] = IF b \in {op[t].box, op[t].from} THEN Unlock(lock_[b], t) ELSE lock_[b]
      BY <1>1 DEF Released
    <2> QED
      BY <1>2, <2>1, <2>2, <2>3
  <1>4. Held(t)' = {}
    BY <1>1 DEF Held, IInv, TypeOK
  <1>5. lock_' \in [Boxes -> Mutexes]
    BY <1>1, <1>3 DEF Released
  <1>6. \A b \in Boxes :
            \/ lock_'[b] = lock_[b] /\ lock_[b].owner # t
            \/ lock_[b].owner = t /\ lock_'[b].owner = Nobody /\ lock_'[b].depth = 0
    <2>1. ASSUME NEW r
          PROVE  Fresh(r).owner = Nobody /\ Fresh(r).depth = 0
      BY DEF Fresh
    <2> QED
      BY <1>3, <2>1
  <1>7. LockInv'
    BY <1>1, <1>4, <1>5, <1>6, Locks2Inv
  <1> QED
    BY <1>1, <1>7

\* A call returns and has written only boxes it held.
LEMMA ReturnIInv ==
  ASSUME IInv, NEW t \in Threads, pc[t] \in {"first", "second", "user"}, Return(t),
         pc' = [pc EXCEPT ![t] = "idle"], failed' = failed,
         value_' \in [Boxes -> (Values \cup {Moved}) \X (Values \cup {Moved})],
         got' \in [Threads -> ((Values \cup {Moved}) \X (Values \cup {Moved})) \cup {Nothing, Thrown}],
         \A b \in Boxes : b \notin Held(t) => value_'[b] = value_[b]
  PROVE  IInv'
  <1>1. LockInv' /\ op' = [op EXCEPT ![t] = NoOp] /\ half' = [half EXCEPT ![t] = Nothing]
    BY ReturnFacts DEF Return
  <1>2. \A u \in Threads : u # t => pc'[u] = pc[u] /\ op'[u] = op[u] /\ half'[u] = half[u]
    BY <1>1 DEF IInv, TypeOK
  <1>3. Copied(t)'
    BY DEF IInv, TypeOK, Copied
  <1>4. DataInv'
    BY <1>2, <1>3, Data2Inv
  <1>5. half' \in [Threads -> Values \cup {Moved, Nothing}]
    BY <1>1 DEF IInv, TypeOK
  <1> QED
    BY <1>1, <1>4, <1>5, StepIInv DEF Places

\* get() and the move constructor end.
LEMMA ReadSecondIInv ==
  ASSUME IInv, NEW t \in Threads, ReadSecond(t)
  PROVE  IInv'
  <1> DEFINE o == op[t]
             b == op[t].box
             S == Values \cup {Moved}
  <1>1. /\ pc[t] = "second" /\ Reads(o) /\ ~Assigns(o) /\ b \in Boxes /\ Held(t) = {b}
        /\ FirstLocked(o) = b
    <2>1. pc[t] = "second" /\ Reads(o) /\ ~Assigns(o)
      BY DEF ReadSecond, Goto, Reads, Assigns
    <2> QED
      BY <2>1, OpFacts, HeldFacts DEF IInv, CallInv, FirstLocked
  <1>2. /\ value_ \in [Boxes -> S \X S] /\ value_[b][2] \in S /\ half[t] \in S
    <2>1. value_ \in [Boxes -> S \X S]
      BY DEF IInv, TypeOK
    <2>2. value_[b][1] \in S /\ value_[b][2] \in S
      BY <1>1, <2>1, HalfFacts
    <2>3. half[t] = value_[b][1]
      BY <1>1 DEF IInv, DataInv, Copied
    <2> QED
      BY <2>1, <2>2, <2>3
  <1>3. PICK left \in Left(o) : value_' = [value_ EXCEPT ![b] = left]
    BY DEF ReadSecond
  <1>4. left \in S \X S
    BY <1>1, <1>2, <1>3 DEF Left, Halves
  <1>5. value_' \in [Boxes -> S \X S] /\ \A c \in Boxes : c # b => value_'[c] = value_[c]
    BY <1>1, <1>2, <1>3, <1>4
  <1>6. got' \in [Threads -> (S \X S) \cup {Nothing, Thrown}]
    BY <1>2 DEF ReadSecond, IInv, TypeOK
  <1>7. pc' = [pc EXCEPT ![t] = "idle"] /\ Return(t) /\ failed' = failed
    BY DEF ReadSecond, Goto
  <1> QED
    BY <1>1, <1>5, <1>6, <1>7, ReturnIInv

\* set() ends.
LEMMA SetSecondIInv ==
  ASSUME IInv, NEW t \in Threads, SetSecond(t)
  PROVE  IInv'
  <1> DEFINE o == op[t]
             b == op[t].box
             S == Values \cup {Moved}
  <1>1. /\ pc[t] = "second" /\ o.kind = "set" /\ b \in Boxes /\ Held(t) = {b}
        /\ o.value \in Values
    <2>1. pc[t] = "second" /\ o.kind = "set" /\ ~Assigns(o)
      BY DEF SetSecond, Goto, Assigns
    <2> QED
      BY <2>1, OpFacts, HeldFacts DEF IInv, CallInv
  <1>2. value_ \in [Boxes -> S \X S] /\ value_[b] \in S \X S
    BY <1>1 DEF IInv, TypeOK
  <1>3. value_[b][1] = o.value
    BY <1>1 DEF IInv, DataInv, Copied
  <1>4. value_' = [value_ EXCEPT ![b] = Halves(o.value)]
    <2>1. value_' = [value_ EXCEPT ![b] = [value_[b] EXCEPT ![2] = o.value]]
      BY <1>1 DEF SetSecond, Stored
    <2>2. [value_[b] EXCEPT ![2] = o.value] = <<o.value, o.value>>
      BY <1>1, <1>2, <1>3, HalfFacts
    <2> QED
      BY <2>1, <2>2 DEF Halves
  <1>5. /\ value_' \in [Boxes -> S \X S]
        /\ \A c \in Boxes : c # b => value_'[c] = value_[c]
    BY <1>1, <1>2, <1>4 DEF Halves
  <1>6. /\ pc' = [pc EXCEPT ![t] = "idle"] /\ Return(t) /\ UNCHANGED <<got, failed>>
    BY DEF SetSecond, Goto
  <1> QED
    BY <1>1, <1>5, <1>6, ReturnIInv DEF IInv, TypeOK

\* operator= ends: what it does to the two boxes.
LEMMA AssignFacts ==
  ASSUME IInv, NEW t \in Threads, AssignSecond(t)
  PROVE  /\ pc[t] = "second" /\ Held(t) = {op[t].box, op[t].from} /\ op[t].box # op[t].from
         /\ op[t].box \in Boxes /\ op[t].from \in Boxes
         /\ \E left \in Left(op[t]) :
               value_' = [value_ EXCEPT ![op[t].box] = value_[op[t].from], ![op[t].from] = left]
  <1> DEFINE o == op[t]
             b == op[t].box
             c == op[t].from
             S == Values \cup {Moved}
  <1>1. pc[t] = "second" /\ Assigns(o) /\ o \in Ops /\ b # c
    BY DEF AssignSecond, Goto, IInv, CallInv
  <1>2. b \in Boxes /\ c \in Boxes /\ Held(t) = {b, c}
    BY <1>1, OpFacts, HeldFacts
  <1>3. value_ \in [Boxes -> S \X S] /\ value_[b] \in S \X S /\ value_[c] \in S \X S
    BY <1>2 DEF IInv, TypeOK
  <1>4. value_[b][1] = value_[c][1]
    BY <1>1 DEF IInv, DataInv, Copied
  <1>5. [value_[b] EXCEPT ![2] = value_[c][2]] = value_[c]
    <2>1. value_[c][2] \in S /\ value_[c] = <<value_[c][1], value_[c][2]>>
      BY <1>3, HalfFacts
    <2>2. [value_[b] EXCEPT ![2] = value_[c][2]] = <<value_[b][1], value_[c][2]>>
      BY <1>3, <2>1, HalfFacts
    <2> QED
      BY <1>4, <2>1, <2>2
  <1>6. PICK left \in Left(o) : value_' = [value_ EXCEPT ![b][2] = Stored(o, 2), ![c] = left]
    BY DEF AssignSecond
  <1>7. Stored(o, 2) = value_[c][2]
    BY <1>1 DEF Stored, Assigns
  <1>8. value_' = [[value_ EXCEPT ![b] = [value_[b] EXCEPT ![2] = value_[c][2]]]
                       EXCEPT ![c] = left]
    BY <1>6, <1>7
  <1>9. value_' = [[value_ EXCEPT ![b] = value_[c]] EXCEPT ![c] = left]
    BY <1>5, <1>8
  <1> QED
    BY <1>1, <1>2, <1>9

\* operator= ends.
LEMMA AssignSecondIInv ==
  ASSUME IInv, NEW t \in Threads, AssignSecond(t)
  PROVE  IInv'
  <1> DEFINE b == op[t].box
             c == op[t].from
             S == Values \cup {Moved}
  <1>1. pc[t] = "second" /\ Held(t) = {b, c} /\ b # c /\ b \in Boxes /\ c \in Boxes
    BY AssignFacts
  <1>2. PICK left \in Left(op[t]) : value_' = [value_ EXCEPT ![b] = value_[c], ![c] = left]
    BY AssignFacts
  <1>3. FirstLocked(op[t]) = c
    BY DEF AssignSecond, FirstLocked
  <1>4. left \in {value_[c], Halves(Moved)}
    BY <1>2, <1>3 DEF Left
  <1>5. value_ \in [Boxes -> S \X S] /\ left \in S \X S
    BY <1>1, <1>4 DEF Halves, IInv, TypeOK
  <1>6. /\ value_' \in [Boxes -> S \X S]
        /\ \A d \in Boxes : d \notin {b, c} => value_'[d] = value_[d]
    BY <1>1, <1>2, <1>5
  <1>7. pc' = [pc EXCEPT ![t] = "idle"] /\ Return(t) /\ UNCHANGED <<got, failed>>
    BY DEF AssignSecond, Goto
  <1> QED
    BY <1>1, <1>6, <1>7, ReturnIInv DEF IInv, TypeOK

\* A copy or a function throws: what has been written stays.
LEMMA CopyThrowsIInv ==
  ASSUME IInv, NEW t \in Threads, CopyThrows(t)
  PROVE  IInv'
  <1>1. /\ pc[t] = "second" /\ pc' = [pc EXCEPT ![t] = "idle"] /\ Return(t)
        /\ UNCHANGED <<value_, failed>> /\ got' = [got EXCEPT ![t] = Thrown]
    BY DEF CopyThrows, Goto
  <1> QED
    BY <1>1, ReturnIInv DEF IInv, TypeOK

\* A call or a thread inside get_mutex() leaves the mutexes and wrote nothing.
LEMMA LeaveIInv ==
  ASSUME IInv, NEW t \in Threads, pc[t] \in {"first", "user"}, Return(t),
         pc' = [pc EXCEPT ![t] = "idle"], UNCHANGED <<value_, failed>>,
         UNCHANGED got \/ got' = [got EXCEPT ![t] = Thrown]
  PROVE  IInv'
  BY ReturnIInv DEF IInv, TypeOK

\* A get() within a call on the same box.
LEMMA NestedGet ==
  ASSUME IInv, NEW t \in Threads, Nested(t), ~Throws(lock_[op[t].box], t)
  PROVE  /\ op[t].box \in Boxes /\ op[t].box \in Held(t) /\ pc[t] # "second"
         /\ got' = [got EXCEPT ![t] = value_[op[t].box]]
         /\ UNCHANGED <<value_, lock_, pc, op, half, failed>>
  <1> DEFINE b == op[t].box
             m == lock_[b]
  <1>1. b \in Boxes /\ b \in Held(t) /\ pc[t] # "second"
    <2>1. pc[t] \in {"first", "user"} /\ op[t] \in Ops
      BY DEF Nested, IInv, CallInv
    <2> QED
      BY <2>1, OpFacts, HeldFacts
  <1>2. m \in Mutexes /\ m.owner = t /\ m.depth = 1
    BY <1>1, NobodyAssumption DEF IInv, LockInv
  <1>3. Unlock(Lock(m, t), t) = m
    BY <1>2, NestedFacts
  <1>4. /\ got' = [got EXCEPT ![t] = value_[b]]
        /\ lock_' = [lock_ EXCEPT ![b] = Unlock(Lock(m, t), t)]
        /\ UNCHANGED <<value_, pc, op, half, failed>>
    BY DEF Nested
  <1>5. lock_' = lock_
    BY <1>1, <1>3, <1>4 DEF IInv, LockInv
  <1> QED
    BY <1>1, <1>4, <1>5

\* A call made from within another one on the same box.
LEMMA NestedIInv ==
  ASSUME IInv, NEW t \in Threads, Nested(t)
  PROVE  IInv'
  <1>1. CASE Throws(lock_[op[t].box], t)
    BY <1>1, LeaveIInv DEF Nested
  <1>2. CASE ~Throws(lock_[op[t].box], t)
    <2>1. /\ op[t].box \in Boxes /\ got' = [got EXCEPT ![t] = value_[op[t].box]]
          /\ UNCHANGED <<value_, lock_, pc, op, half, failed>>
      BY <1>2, NestedGet
    <2>2. /\ LockInv' /\ CallInv' /\ LockNeverFails'
      BY <2>1 DEF IInv, LockInv, CallInv, LockNeverFails, Held
    <2>3. DataInv'
      BY <2>1 DEF IInv, DataInv, Copied
    <2>4. TypeOK'
      BY <2>1 DEF IInv, TypeOK, Held
    <2> QED
      BY <2>2, <2>3, <2>4 DEF IInv
  <1> QED
    BY <1>1, <1>2

\* A thread ends with get_mutex() locked: the mutex is dead and free.
LEMMA UserEndsIInv ==
  ASSUME IInv, NEW t \in Threads, UserEnds(t)
  PROVE  IInv'
  <1>1. /\ pc[t] = "user" /\ pc' = [pc EXCEPT ![t] = "ended"] /\ op' = [op EXCEPT ![t] = NoOp]
        /\ lock_' = [b \in Boxes |-> Abandon(lock_[b], t)]
        /\ UNCHANGED <<value_, half, got, failed>>
    BY DEF UserEnds, Goto
  <1>2. Held(t)' = {}
    BY <1>1 DEF Held, IInv, TypeOK
  <1>3. ASSUME NEW b \in Boxes
        PROVE  /\ lock_'[b] \in Mutexes
               /\ \/ lock_'[b] = lock_[b] /\ lock_[b].owner # t
                  \/ lock_[b].owner = t /\ lock_'[b].owner = Nobody /\ lock_'[b].depth = 0
    <2>1. lock_[b] \in Mutexes /\ lock_'[b] = Abandon(lock_[b], t)
      BY <1>1 DEF IInv, LockInv
    <2>2. ASSUME NEW r \in BOOLEAN
          PROVE  /\ [Fresh(r) EXCEPT !.state = "dead"] \in Mutexes
                 /\ [Fresh(r) EXCEPT !.state = "dead"].owner = Nobody
                 /\ [Fresh(r) EXCEPT !.state = "dead"].depth = 0
      BY DEF Fresh, Mutexes
    <2>3. lock_[b].recursive \in BOOLEAN
      BY <2>1 DEF Mutexes
    <2> QED
      BY <2>1, <2>2, <2>3 DEF Abandon
  <1>4. lock_' \in [Boxes -> Mutexes]
    BY <1>1, <1>3
  <1>5. LockInv'
    BY <1>1, <1>2, <1>3, <1>4, Locks2Inv
  <1>6. DataInv'
    BY <1>1, Unwritten
  <1> QED
    BY <1>1, <1>5, <1>6, StepIInv DEF IInv, TypeOK, Places

\* Every step keeps the invariant.
LEMMA NextIInv == IInv /\ [Next]_vars => IInv'
  <1> SUFFICES ASSUME IInv, [Next]_vars
               PROVE  IInv'
    OBVIOUS
  <1>1. ASSUME NEW t \in Threads, NEW o \in Ops, Calls(t, o)
        PROVE  IInv'
    BY <1>1, CallsIInv
  <1>2. ASSUME NEW t \in Threads, NEW o \in Ops, Try(t, o)
        PROVE  IInv'
    <2>1. o.box # o.from
      BY <1>2, OpFacts, NobodyAssumption DEF Try, Assigns
    <2> QED
      BY <1>2, <2>1, LockStepIInv DEF Try
  <1>3. ASSUME NEW t \in Threads, LockFirst(t)
        PROVE  IInv'
    <2>1. op[t] \in Ops /\ op[t].box # op[t].from
      BY <1>3 DEF LockFirst, LockStep, IInv, CallInv
    <2> QED
      BY <1>3, <2>1, LockStepIInv DEF LockFirst
  <1>4. ASSUME NEW t \in Threads, LockSelf(t)
        PROVE  IInv'
    BY <1>4, LockSelfIInv
  <1>5. ASSUME NEW t \in Threads, CopyFirst(t)
        PROVE  IInv'
    BY <1>5, CopyFirstIInv
  <1>6. ASSUME NEW t \in Threads, ReadSecond(t)
        PROVE  IInv'
    BY <1>6, ReadSecondIInv
  <1>7. ASSUME NEW t \in Threads, SetSecond(t)
        PROVE  IInv'
    BY <1>7, SetSecondIInv
  <1>8. ASSUME NEW t \in Threads, AssignSecond(t)
        PROVE  IInv'
    BY <1>8, AssignSecondIInv
  <1>9. ASSUME NEW t \in Threads, UserUnlock(t)
        PROVE  IInv'
    BY <1>9, LeaveIInv DEF UserUnlock, Goto
  <1>10. ASSUME NEW t \in Threads, UserEnds(t)
         PROVE  IInv'
    BY <1>10, UserEndsIInv
  <1>11. ASSUME NEW t \in Threads, Nested(t)
         PROVE  IInv'
    BY <1>11, NestedIInv
  <1>12. ASSUME NEW t \in Threads, CopyThrows(t)
         PROVE  IInv'
    BY <1>12, CopyThrowsIInv
  <1>13. CASE UNCHANGED vars
    <2>1. LockInv' /\ CallInv' /\ LockNeverFails'
      BY <1>13 DEF vars, IInv, LockInv, CallInv, LockNeverFails, Held
    <2>2. DataInv'
      BY <1>13 DEF vars, IInv, DataInv, Copied
    <2>3. TypeOK'
      BY <1>13 DEF vars, IInv, TypeOK, Held
    <2> QED
      BY <2>1, <2>2, <2>3 DEF IInv
  <1> QED
    BY <1>1, <1>2, <1>3, <1>4, <1>5, <1>6, <1>7, <1>8, <1>9, <1>10, <1>11, <1>13, <1>12
       DEF Next, Locks, Copies, AllEnded

\* The inductive invariant holds in every reachable state.
THEOREM Invariance == Safety => []IInv
  BY InitIInv, NextIInv, PTL DEF Safety

\* A mutex is held only by a thread inside a call that locked it: every call, also
\* one that ends with an exception, leaves what it has locked.
THEOREM TypeCorrect == Safety => []TypeOK
  <1>1. IInv => TypeOK
    BY DEF IInv
  <1> QED
    BY <1>1, Invariance, PTL

\* No lock() or try_lock() of a call throws, however threads end with a mutex
\* locked and whatever is assigned, also in a circle.
THEOREM LocksCorrect == Safety => []LockNeverFails
  <1>1. IInv => LockNeverFails
    BY DEF IInv
  <1> QED
    BY <1>1, Invariance, PTL

-----------------------------------------------------------------------------
(* The boxes are registers                                                 *)

\* What the box b holds if the thread t is the only one that may be writing it.
Own(t, b) == IF Writes(t, b) THEN <<half[t], value_[b][2]>> ELSE value_[b]

\* A step of t leaves the boxes alone that it holds neither before nor after it, and in
\* the others nobody else is writing.
LEMMA StepContent ==
  ASSUME IInv, IInv', NEW t \in Threads, NEW b \in Boxes,
         \A u \in Threads : u # t => pc'[u] = pc[u] /\ op'[u] = op[u] /\ half'[u] = half[u],
         b \notin Held(t) => value_'[b] = value_[b]
  PROVE  \/ Content(b) = Own(t, b) /\ Content(b)' = Own(t, b)'
         \/ Content(b)' = Content(b) /\ b \notin Held(t) /\ b \notin Held(t)'
  <1>1. /\ lock_[b].owner \in Threads \cup {Nobody} /\ lock_'[b].owner \in Threads \cup {Nobody}
        /\ Nobody \notin Threads \cup Boxes
    BY NobodyAssumption DEF IInv, LockInv, Mutexes
  <1>2. \A u \in Threads : /\ lock_[b].owner = u <=> b \in Held(u)
                           /\ lock_'[b].owner = u <=> b \in Held(u)'
    BY DEF IInv, LockInv
  <1>3. \A u \in Threads : u # t => Held(u)' = Held(u)
    BY DEF Held
  <1>4. (Writes(t, b) => b \in Held(t)) /\ (Writes(t, b)' => b \in Held(t)')
    BY <1>1 DEF Writes, Held
  <1>5. CASE b \in Held(t) \/ b \in Held(t)'
    <2>1. lock_[b].owner \in {t, Nobody} /\ lock_'[b].owner \in {t, Nobody}
      BY <1>1, <1>2, <1>3, <1>5
    <2>2. Content(b) = Own(t, b)
      BY <1>1, <1>2, <1>4, <2>1 DEF Content, Own
    <2>3. Content(b)' = Own(t, b)'
      BY <1>1, <1>2, <1>4, <2>1 DEF Content, Own
    <2> QED
      BY <2>2, <2>3
  <1>6. CASE b \notin Held(t) /\ b \notin Held(t)'
    <2>1. lock_[b].owner # t /\ lock_'[b].owner # t
      BY <1>2, <1>6
    <2>2. lock_'[b].owner = lock_[b].owner
      BY <1>1, <1>2, <1>3, <2>1
    <2>3. Content(b)' = Content(b)
      BY <1>1, <1>6, <2>1, <2>2 DEF Content, Writes
    <2> QED
      BY <1>6, <2>3
  <1> QED
    BY <1>5, <1>6

\* A step of t that begins and ends outside the copy and writes nothing.
LEMMA QuietContent ==
  ASSUME IInv, IInv', NEW t \in Threads, pc[t] # "second", pc'[t] # "second",
         \A u \in Threads : u # t => pc'[u] = pc[u] /\ op'[u] = op[u] /\ half'[u] = half[u],
         UNCHANGED value_
  PROVE  \A b \in Boxes : Content(b)' = Content(b)
  <1> SUFFICES ASSUME NEW b \in Boxes
               PROVE  Content(b)' = Content(b)
    OBVIOUS
  <1>1. Own(t, b) = value_[b] /\ Own(t, b)' = value_[b]
    BY DEF Own, Writes
  <1> QED
    BY <1>1, StepContent

\* A call begins and takes its first lock; it has read nothing yet.
LEMMA BeginSteps ==
  ASSUME IInv, IInv', NEW t \in Threads,
         (\E o \in Ops : Calls(t, o) \/ Try(t, o)) \/ LockFirst(t)
  PROVE  Reg!Next
  <1>1. PICK o \in Ops : Calls(t, o) \/ LockStep(t, o, "idle") \/ LockStep(t, o, "lock")
    BY DEF Try, LockFirst, LockStep, IInv, CallInv
  <1>2. Entered(o) \in {"lock_self", "user", "first"}
    BY OpFacts DEF Entered, Assigns
  <1>3. /\ pc[t] \in {"idle", "lock"} /\ got' = [got EXCEPT ![t] = Nothing]
        /\ pc' \in {[pc EXCEPT ![t] = to] : to \in {"lock", "idle", Entered(o)}}
        /\ op' \in {[op EXCEPT ![t] = x] : x \in {o, NoOp}}
        /\ UNCHANGED <<value_, half>>
    BY <1>1 DEF Calls, BeginCall, LockStep, Goto
  <1>4. pc'[t] # "second"
    BY <1>2, <1>3 DEF IInv, TypeOK
  <1>5. \A u \in Threads : u # t => pc'[u] = pc[u] /\ op'[u] = op[u] /\ half'[u] = half[u]
    BY <1>3 DEF IInv, TypeOK
  <1>6. \A b \in Boxes : Content(b)' = Content(b)
    BY <1>3, <1>4, <1>5, QuietContent
  <1>7. Reg!Begin(t)
    BY <1>3, <1>6 DEF Reg!Begin
  <1> QED
    BY <1>7 DEF Reg!Next

\* The second lock, the first half of the copy and leaving get_mutex() change no register.
LEMMA SilentSteps ==
  ASSUME IInv, IInv', NEW t \in Threads,
         LockSelf(t) \/ CopyFirst(t) \/ UserUnlock(t) \/ UserEnds(t)
  PROVE  UNCHANGED Reg!registers
  <1> DEFINE Others == \A u \in Threads :
                 u # t => pc'[u] = pc[u] /\ op'[u] = op[u] /\ half'[u] = half[u]
  <1>1. SUFFICES ASSUME NEW b \in Boxes PROVE Content(b)' = Content(b)
    BY DEF Reg!registers, LockSelf, CopyFirst, UserUnlock, UserEnds
  <1>2. CASE CopyFirst(t)
    <2> DEFINE o == op[t]
               S == Values \cup {Moved}
    <2>1. /\ pc[t] = "first" /\ o \in Ops /\ o.box \in Boxes /\ o.box \in Held(t)
      <3>1. pc[t] = "first" /\ o \in Ops
        BY <1>2 DEF CopyFirst, Goto, IInv, CallInv
      <3> QED
        BY <3>1, OpFacts, HeldFacts
    <2>2. /\ pc' = [pc EXCEPT ![t] = "second"] /\ UNCHANGED op
          /\ half' = [half EXCEPT ![t] = value_[o.box][1]]
          /\ value_' = IF Reads(o) THEN value_ ELSE [value_ EXCEPT ![o.box][1] = Stored(o, 1)]
      BY <1>2 DEF CopyFirst, Goto
    <2>3. value_ \in [Boxes -> S \X S] /\ half'[t] = value_[o.box][1] /\ pc'[t] = "second"
      BY <2>2 DEF IInv, TypeOK
    <2>4. Others
      BY <2>2
    <2>5. b # o.box => value_'[b] = value_[b]
      BY <2>2, <2>3
    <2>6. Own(t, b) = value_[b]
      BY <2>1 DEF Own, Writes
    <2>7. Own(t, b)' = value_[b]
      <3>1. CASE Reads(o)
        BY <2>2, <3>1 DEF Own, Writes
      <3>2. CASE ~Reads(o) /\ b # o.box
        BY <2>2, <2>5, <3>2 DEF Own, Writes
      <3>3. CASE ~Reads(o) /\ b = o.box
        <4>1. Own(t, b)' = <<value_[b][1], value_'[b][2]>>
          BY <2>2, <2>3, <3>3 DEF Own, Writes
        <4>2. value_'[b][2] = value_[b][2]
          BY <2>2, <2>3, <3>3
        <4>3. value_[b] = <<value_[b][1], value_[b][2]>>
          BY <2>3, HalfFacts
        <4> QED
          BY <4>1, <4>2, <4>3
      <3> QED
        BY <3>1, <3>2, <3>3
    <2> HIDE DEF o
    <2>8. b \notin Held(t) => value_'[b] = value_[b]
      BY <2>1, <2>5
    <2> QED
      BY <2>4, <2>6, <2>7, <2>8, StepContent
  <1>3. CASE ~CopyFirst(t)
    <2>1. /\ pc[t] \in {"lock_self", "user"} /\ UNCHANGED value_
          /\ pc' \in {[pc EXCEPT ![t] = to] : to \in {"idle", "first", "ended"}}
          /\ op' \in {[op EXCEPT ![t] = x] : x \in {op[t], NoOp}}
          /\ UNCHANGED half \/ half' = [half EXCEPT ![t] = Nothing]
      BY <1>3 DEF LockSelf, UserUnlock, UserEnds, Return, Goto
    <2>2. pc'[t] # "second"
      BY <2>1 DEF IInv, TypeOK
    <2>3. Others
      BY <2>1 DEF IInv, TypeOK
    <2> QED
      BY <2>1, <2>2, <2>3, QuietContent
  <1> QED
    BY <1>2, <1>3

\* A call that returns from the copy: what it held before, and holds now.
LEMMA ReturnContent ==
  ASSUME IInv, IInv', NEW t \in Threads, pc[t] = "second", Return(t),
         pc' = [pc EXCEPT ![t] = "idle"],
         \A b \in Boxes : b \notin Held(t) => value_'[b] = value_[b]
  PROVE  /\ \A b \in Held(t) : b \in Boxes /\ Content(b) = Own(t, b) /\ Content(b)' = value_'[b]
         /\ \A b \in Boxes : b \notin Held(t) => Content(b)' = Content(b)
  <1>1. /\ \A u \in Threads : u # t => pc'[u] = pc[u] /\ op'[u] = op[u] /\ half'[u] = half[u]
        /\ pc'[t] = "idle"
    BY DEF Return, IInv, TypeOK
  <1>2. Held(t) \subseteq Boxes
    BY HeldFacts
  <1>3. \A b \in Boxes : Own(t, b)' = value_'[b]
    BY <1>1 DEF Own, Writes
  <1>4. \A b \in Boxes : Writes(t, b) => b \in Held(t)
    BY HeldFacts DEF Writes
  <1>5. \A b \in Boxes : b \notin Held(t) => Own(t, b) = value_[b]
    BY <1>4 DEF Own
  <1>6. ASSUME NEW b \in Boxes
        PROVE  \/ Content(b) = Own(t, b) /\ Content(b)' = Own(t, b)'
               \/ Content(b)' = Content(b) /\ b \notin Held(t)
    BY <1>1, StepContent
  <1> QED
    BY <1>2, <1>3, <1>5, <1>6

\* get() reads the register at its end; the move constructor empties it then.
LEMMA ReadSecondStep ==
  ASSUME IInv, IInv', NEW t \in Threads, ReadSecond(t)
  PROVE  Reg!Next
  <1> DEFINE S == Values \cup {Moved}
  <1>1. PICK b : b = op[t].box
    OBVIOUS
  <1>2. /\ pc[t] = "second" /\ Reads(op[t]) /\ ~Assigns(op[t]) /\ b \in Boxes /\ Held(t) = {b}
        /\ FirstLocked(op[t]) = b
    <2>1. pc[t] = "second" /\ Reads(op[t]) /\ ~Assigns(op[t])
      BY DEF ReadSecond, Goto, Reads, Assigns
    <2> QED
      BY <1>1, <2>1, OpFacts, HeldFacts DEF IInv, CallInv, FirstLocked
  <1>3. value_ \in [Boxes -> S \X S] /\ value_[b] = <<value_[b][1], value_[b][2]>>
    BY <1>2, HalfFacts DEF IInv, TypeOK
  <1>4. got' = [got EXCEPT ![t] = value_[b]]
    <2>1. half[t] = value_[b][1]
      BY <1>1, <1>2 DEF IInv, DataInv, Copied
    <2> QED
      BY <1>1, <1>3, <2>1 DEF ReadSecond
  <1>5. PICK left \in Left(op[t]) : value_' = [value_ EXCEPT ![b] = left]
    BY <1>1 DEF ReadSecond
  <1>6. left \in {value_[b], Halves(Moved)}
    BY <1>2, <1>5 DEF Left
  <1>7. pc' = [pc EXCEPT ![t] = "idle"] /\ Return(t)
    BY DEF ReadSecond, Goto
  <1>8. Own(t, b) = value_[b]
    BY <1>2 DEF Own, Writes
  <1>9. value_'[b] = left /\ \A c \in Boxes : c # b => value_'[c] = value_[c]
    BY <1>2, <1>3, <1>5
  <1>10. /\ Content(b) = value_[b] /\ Content(b)' = left
        /\ \A c \in Boxes : c # b => Content(c)' = Content(c)
    BY <1>2, <1>7, <1>8, <1>9, ReturnContent
  <1>11. CASE left = value_[b]
    <2>1. Reg!Get(t, b)
      BY <1>2, <1>4, <1>10, <1>11 DEF Reg!Get
    <2> QED
      BY <1>2, <2>1 DEF Reg!Next
  <1>12. CASE left = Halves(Moved)
    <2>1. Reg!Take(t, b)
      BY <1>2, <1>4, <1>10, <1>12 DEF Reg!Take
    <2> QED
      BY <1>2, <2>1 DEF Reg!Next
  <1> QED
    BY <1>6, <1>11, <1>12

\* set() writes the register at its end.
LEMMA SetSecondStep ==
  ASSUME IInv, IInv', NEW t \in Threads, SetSecond(t)
  PROVE  Reg!Next
  <1> DEFINE v == op[t].value
             S == Values \cup {Moved}
  <1>1. PICK b : b = op[t].box
    OBVIOUS
  <1>2. /\ pc[t] = "second" /\ b \in Boxes /\ v \in Values /\ op[t].kind = "set"
        /\ Held(t) = {b}
    <2>1. pc[t] = "second" /\ op[t].kind = "set" /\ op[t] \in Ops /\ ~Assigns(op[t])
      BY DEF SetSecond, Goto, IInv, CallInv, Assigns
    <2> QED
      BY <1>1, <2>1, OpFacts, HeldFacts
  <1>3. /\ value_' = [value_ EXCEPT ![b][2] = v] /\ UNCHANGED got
        /\ pc' = [pc EXCEPT ![t] = "idle"] /\ Return(t)
    BY <1>1, <1>2 DEF SetSecond, Stored, Goto
  <1>4. value_ \in [Boxes -> S \X S] /\ value_[b][1] = v
    BY <1>1, <1>2 DEF IInv, TypeOK, DataInv, Copied
  <1> HIDE DEF v
  <1>5. value_'[b] = Halves(v) /\ \A c \in Boxes : c # b => value_'[c] = value_[c]
    <2>1. value_[b] \in S \X S
      BY <1>2, <1>4
    <2>2. [value_[b] EXCEPT ![2] = v] = Halves(v)
      BY <1>2, <1>4, <2>1, HalfFacts DEF Halves
    <2>3. value_' = [value_ EXCEPT ![b] = Halves(v)]
      BY <1>3, <2>2
    <2> QED
      BY <1>2, <1>4, <2>3
  <1>6. Content(b)' = Halves(v) /\ \A c \in Boxes : c # b => Content(c)' = Content(c)
    BY <1>2, <1>3, <1>5, ReturnContent
  <1>7. Reg!Set(b, Halves(v))
    BY <1>3, <1>6 DEF Reg!Set
  <1> QED
    BY <1>2, <1>7 DEF Reg!Next

\* operator= copies or moves one register into the other at its end.
LEMMA AssignSecondStep ==
  ASSUME IInv, IInv', NEW t \in Threads, AssignSecond(t)
  PROVE  Reg!Next
  <1>1. PICK b, c : b = op[t].box /\ c = op[t].from
    OBVIOUS
  <1>2. pc[t] = "second" /\ Held(t) = {b, c} /\ b # c /\ b \in Boxes /\ c \in Boxes
    BY <1>1, AssignFacts
  <1>3. PICK left \in Left(op[t]) : value_' = [value_ EXCEPT ![b] = value_[c], ![c] = left]
    BY <1>1, AssignFacts
  <1>4. /\ left \in {value_[c], Halves(Moved)} /\ UNCHANGED got
        /\ pc' = [pc EXCEPT ![t] = "idle"] /\ Return(t)
    BY <1>1, <1>3 DEF AssignSecond, FirstLocked, Left, Goto
  <1>5. DOMAIN value_ = Boxes
    BY DEF IInv, TypeOK
  <1>6. Own(t, c) = value_[c]
    BY <1>1, <1>2 DEF Own, Writes
  <1>7. /\ value_'[b] = value_[c] /\ value_'[c] = left
        /\ \A d \in Boxes : d \notin {b, c} => value_'[d] = value_[d]
    BY <1>2, <1>3, <1>5
  <1>8. /\ Content(c) = value_[c] /\ Content(b)' = value_[c] /\ Content(c)' = left
        /\ \A d \in Boxes : d \notin {b, c} => Content(d)' = Content(d)
    BY <1>2, <1>4, <1>6, <1>7, ReturnContent
  <1>9. CASE left = value_[c]
    <2>1. \A d \in Boxes : Content(d)' = IF d = b THEN Content(c) ELSE Content(d)
      BY <1>8, <1>9
    <2>2. Reg!Copy(b, c)
      BY <1>2, <1>4, <2>1 DEF Reg!Copy
    <2> QED
      BY <1>2, <2>2 DEF Reg!Next
  <1>10. CASE left = Halves(Moved)
    <2>1. \A d \in Boxes : Content(d)' = IF d = c THEN Halves(Moved)
                                         ELSE IF d = b THEN Content(c) ELSE Content(d)
      BY <1>2, <1>8, <1>10
    <2>2. Reg!Move(b, c)
      BY <1>2, <1>4, <2>1 DEF Reg!Move
    <2> QED
      BY <1>2, <2>2 DEF Reg!Next
  <1> QED
    BY <1>4, <1>9, <1>10

\* A call that throws has written no more than the first half.
LEMMA CopyThrowsStep ==
  ASSUME IInv, IInv', NEW t \in Threads, CopyThrows(t)
  PROVE  Reg!Next
  <1>1. PICK b, c : b = op[t].box /\ c = op[t].from
    OBVIOUS
  <1>2. /\ pc[t] = "second" /\ op[t].kind \in {"set", "get", "copy"} /\ op[t] \in Ops /\ b # c
        /\ pc' = [pc EXCEPT ![t] = "idle"] /\ Return(t) /\ UNCHANGED value_
        /\ got' = [got EXCEPT ![t] = Thrown]
    BY <1>1 DEF CopyThrows, Goto, IInv, CallInv
  <1>3. /\ b \in Boxes /\ b \in Held(t)
        /\ op[t].kind = "copy" => c \in Boxes /\ c \in Held(t)
        /\ op[t].kind = "set" => op[t].value \in Values
    BY <1>1, <1>2, OpFacts, HeldFacts DEF Assigns
  <1>4. /\ \A d \in Held(t) : Content(d) = Own(t, d) /\ Content(d)' = value_[d]
        /\ \A d \in Boxes : d \notin Held(t) => Content(d)' = Content(d)
    BY <1>2, ReturnContent
  <1>5. \A d \in Held(t) : d # b => Own(t, d) = value_[d]
    BY <1>1, <1>2 DEF Own, Writes
  <1>6. Own(t, b)[2] = value_[b][2]
    BY DEF Own
  <1>7. value_[b] = <<value_[b][1], value_[b][2]>>
    BY <1>3, HalfFacts DEF IInv, TypeOK
  <1>8. \E v \in {Halves(x) : x \in Values} \cup {Content(d) : d \in Boxes} :
            v[1] = value_[b][1]
    <2>1. CASE op[t].kind = "set"
      <3>1. value_[b][1] = op[t].value
        BY <1>1, <1>2, <2>1 DEF IInv, DataInv, Copied
      <3>2. Halves(op[t].value)[1] = op[t].value
        BY DEF Halves
      <3> QED
        BY <1>3, <2>1, <3>1, <3>2
    <2>2. CASE op[t].kind = "get"
      <3>1. Content(b)[1] = value_[b][1]
        BY <1>1, <1>3, <1>4, <2>2 DEF Own, Writes, Reads
      <3> QED
        BY <1>3, <3>1
    <2>3. CASE op[t].kind = "copy"
      <3>1. value_[b][1] = value_[c][1]
        BY <1>1, <1>2, <2>3 DEF IInv, DataInv, Copied, Assigns
      <3>2. Content(c)[1] = value_[c][1]
        BY <1>2, <1>3, <1>4, <1>5, <2>3
      <3> QED
        BY <1>3, <2>3, <3>1, <3>2
    <2> QED
      BY <1>2, <2>1, <2>2, <2>3
  <1>9. PICK v \in {Halves(x) : x \in Values} \cup {Content(d) : d \in Boxes} :
            v[1] = value_[b][1]
    BY <1>8
  <1>10. Content(b)' = <<v[1], Content(b)[2]>>
    BY <1>3, <1>4, <1>6, <1>7, <1>9
  <1>11. \A d \in Boxes : d # b => Content(d)' = Content(d)
    BY <1>4, <1>5
  <1>12. Reg!Fail(t, b, v)
    BY <1>2, <1>3, <1>10, <1>11 DEF Reg!Fail
  <1>13. v \in {Halves(x) : x \in Values} \cup {[e \in Boxes |-> Content(e)][d] : d \in Boxes}
    BY <1>9
  <1> QED
    BY <1>3, <1>12, <1>13 DEF Reg!Next

\* A call that throws before it has written leaves the register as it was.
LEMMA NestedThrowsStep ==
  ASSUME IInv, IInv', NEW t \in Threads, Nested(t), Throws(lock_[op[t].box], t)
  PROVE  Reg!Next
  <1>1. PICK b : b = op[t].box
    OBVIOUS
  <1>2. /\ pc[t] \in {"first", "user"} /\ pc' = [pc EXCEPT ![t] = "idle"] /\ Return(t)
        /\ got' = [got EXCEPT ![t] = Thrown] /\ UNCHANGED value_
    BY DEF Nested
  <1>3. b \in Boxes /\ b \in Held(t)
    BY <1>1, <1>2, OpFacts, HeldFacts DEF IInv, CallInv
  <1>4. /\ pc'[t] # "second"
        /\ \A u \in Threads : u # t => pc'[u] = pc[u] /\ op'[u] = op[u] /\ half'[u] = half[u]
    BY <1>2 DEF Return, IInv, TypeOK
  <1>5. \A d \in Boxes : Content(d)' = Content(d)
    BY <1>2, <1>4, QuietContent
  <1>6. Content(b) = value_[b] /\ value_[b] = <<value_[b][1], value_[b][2]>>
    <2>1. value_[b] = <<value_[b][1], value_[b][2]>>
      BY <1>3, HalfFacts DEF IInv, TypeOK
    <2> QED
      BY <1>2, <1>3, <2>1, NobodyAssumption DEF IInv, LockInv, Content, Writes
  <1>7. Reg!Fail(t, b, Content(b))
    BY <1>2, <1>3, <1>5, <1>6 DEF Reg!Fail
  <1>8. Content(b) \in {[e \in Boxes |-> Content(e)][d] : d \in Boxes}
    BY <1>3
  <1> QED
    BY <1>3, <1>7, <1>8 DEF Reg!Next

\* Every step is a step of Registers or changes no register.
LEMMA NextRegisters == IInv /\ [Next]_vars => [Reg!Next]_(Reg!registers)
  <1> SUFFICES ASSUME IInv, [Next]_vars
               PROVE  Reg!Next \/ UNCHANGED Reg!registers
    OBVIOUS
  <1>1. IInv'
    BY NextIInv
  <1>2. ASSUME NEW t \in Threads,
               (\E o \in Ops : Calls(t, o) \/ Try(t, o)) \/ LockFirst(t)
        PROVE  Reg!Next
    BY <1>1, <1>2, BeginSteps
  <1>3. ASSUME NEW t \in Threads,
               LockSelf(t) \/ CopyFirst(t) \/ UserUnlock(t) \/ UserEnds(t)
        PROVE  UNCHANGED Reg!registers
    BY <1>1, <1>3, SilentSteps
  <1>4. ASSUME NEW t \in Threads, ReadSecond(t)
        PROVE  Reg!Next
    BY <1>1, <1>4, ReadSecondStep
  <1>5. ASSUME NEW t \in Threads, SetSecond(t)
        PROVE  Reg!Next
    BY <1>1, <1>5, SetSecondStep
  <1>6. ASSUME NEW t \in Threads, AssignSecond(t)
        PROVE  Reg!Next
    BY <1>1, <1>6, AssignSecondStep
  <1>7. ASSUME NEW t \in Threads, CopyThrows(t)
        PROVE  Reg!Next
    BY <1>1, <1>7, CopyThrowsStep
  <1>8. ASSUME NEW t \in Threads, Nested(t)
        PROVE  Reg!Next \/ UNCHANGED Reg!registers
    <2>1. CASE Throws(lock_[op[t].box], t)
      BY <1>1, <1>8, <2>1, NestedThrowsStep
    <2>2. CASE ~Throws(lock_[op[t].box], t)
      <3> DEFINE b == op[t].box
      <3>1. /\ b \in Boxes /\ b \in Held(t) /\ pc[t] # "second"
            /\ got' = [got EXCEPT ![t] = value_[b]]
            /\ UNCHANGED <<value_, lock_, pc, op, half>>
        BY <1>8, <2>2, NestedGet
      <3> HIDE DEF b
      <3>2. \A d \in Boxes : Content(d)' = Content(d)
        BY <3>1 DEF Content, Writes
      <3>3. Content(b) = value_[b]
        BY <3>1, NobodyAssumption DEF IInv, LockInv, Content, Writes
      <3>4. Reg!Get(t, b)
        BY <3>1, <3>2, <3>3 DEF Reg!Get
      <3> QED
        BY <3>1, <3>4 DEF Reg!Next
    <2> QED
      BY <2>1, <2>2
  <1>9. CASE UNCHANGED vars
    <2>1. \A d \in Boxes : Content(d)' = Content(d)
      BY <1>9 DEF vars, Content, Writes
    <2> QED
      BY <1>9, <2>1 DEF vars, Reg!registers
  <1> QED
    BY <1>2, <1>3, <1>4, <1>5, <1>6, <1>7, <1>8, <1>9 DEF Next, Locks, Copies, AllEnded

\* The boxes implement Registers: every set, get, copy and move happens at one
\* moment, nobody sees what a call is writing or a box between the two locks of an
\* assignment, and only a call that throws leaves half of what it was to write.
THEOREM RegistersCorrect == Safety => ImplementsRegisters
  <1>1. Init => Reg!Init
    <2> SUFFICES ASSUME Init PROVE Reg!Init
      OBVIOUS
    <2>1. \A b \in Boxes : Content(b) = value_[b]
      BY DEF Init, Content, Fresh
    <2>2. value_ \in [Boxes -> {Halves(v) : v \in Values}]
      BY DEF Init
    <2>3. [b \in Boxes |-> Content(b)] \in [Boxes -> {Halves(v) : v \in Values}]
      BY <2>1, <2>2
    <2> QED
      BY <2>3 DEF Init, Reg!Init
  <1> QED
    BY <1>1, NextRegisters, Invariance, PTL DEF Safety, ImplementsRegisters, Reg!Spec

=============================================================================
