----------------------- MODULE RealtimeThreadSafeBox -----------------------
(***************************************************************************)
(* realtime_tools::RealtimeThreadSafeBox<T, mutex_type>: boxes with a      *)
(* value_ and a lock_ each, used by any number of threads.                 *)
(*                                                                         *)
(* A value is copied in two steps, so that a reader that is not kept out   *)
(* sees half of it.  set() and get() stand for their overloads with a      *)
(* value and with a function, for operator=(const T &) and the conversion  *)
(* operators; get() also stands for the copy constructor and take for the  *)
(* move constructor, which take the lock of the other box only.  A function*)
(* given to set() or get() makes its own calls before it writes or reads,  *)
(* and may throw at any time, as the copy of a value may.                  *)
(***************************************************************************)
EXTENDS Mutex

CONSTANTS
    Threads, Boxes,
    Assignments,     \* pairs <<to, from>> of boxes the program assigns
    Values,          \* what is stored
    Moved,           \* a value that was moved from
    Nothing,         \* a thread whose call has read nothing yet
    Thrown           \* a thread whose call threw

ASSUME NobodyAssumption == Nobody \notin Threads \cup Boxes
ASSUME AssignmentsAssumption == Assignments \subseteq Boxes \X Boxes

VARIABLES
    value_, lock_,   \* of every box
    pc,              \* program counter of every thread
    op,              \* the call a thread is in
    half,            \* the first half of what a get() is copying; for the other calls,
                     \* of what they overwrite (auxiliary)
    got,             \* what the last call of a thread has read, or that it threw
    failed           \* threads for which a lock() failed

vars == <<value_, lock_, pc, op, half, got, failed>>

Halves(v) == <<v, v>>

\* The calls; only the assignments have another box.
Ops ==
    [kind : {"set"}, box : Boxes, from : {Nobody}, value : Values]
    \cup [kind : {"get", "take", "user"}, box : Boxes, from : {Nobody}, value : {Nothing}]
    \cup {[kind |-> k, box |-> p[1], from |-> p[2], value |-> Nothing] :
              k \in {"copy", "move"}, p \in Assignments}
NoOp == [kind |-> "none", box |-> Nobody, from |-> Nobody, value |-> Nothing]

Assigns(o) == o.kind \in {"copy", "move"}
Reads(o) == o.kind \in {"get", "take"}

\* The box whose mutex is locked first: operator= begins with the other box.
FirstLocked(o) == IF Assigns(o) THEN o.from ELSE o.box

Goto(t, from, to) == pc[t] = from /\ pc' = [pc EXCEPT ![t] = to]

Init ==
    /\ value_ \in [Boxes -> {Halves(v) : v \in Values}]
    /\ \E recursive \in BOOLEAN : lock_ = [b \in Boxes |-> Fresh(recursive)]
    /\ pc = [t \in Threads |-> "idle"]
    /\ op = [t \in Threads |-> NoOp]
    /\ half = [t \in Threads |-> Nothing]
    /\ got = [t \in Threads |-> Nothing]
    /\ failed = {}

-----------------------------------------------------------------------------
(* The locks                                                               *)

BeginCall(t, o) ==
    /\ Goto(t, "idle", "lock")
    /\ op' = [op EXCEPT ![t] = o]
    /\ got' = [got EXCEPT ![t] = Nothing]
    /\ UNCHANGED <<value_, lock_, half, failed>>

\* A call that blocks; an assignment of a box to itself returns at once.
Calls(t, o) == o.box # o.from /\ BeginCall(t, o)

Entered(o) == CASE Assigns(o) -> "lock_self"
                [] o.kind = "user" -> "user"
                [] o.kind \in {"set", "get", "take"} -> "first"

\* lock() or try_lock() on the first mutex of the call o; it may throw.
LockStep(t, o, from) ==
    LET m == lock_[FirstLocked(o)] IN
    /\ pc[t] = from /\ Result(m, t) # "EBUSY"
    /\ Goto(t, from, IF Throws(m, t) THEN "idle" ELSE Entered(o))
    /\ lock_' = [lock_ EXCEPT ![FirstLocked(o)] = Lock(@, t)]
    /\ op' = [op EXCEPT ![t] = IF Throws(m, t) THEN NoOp ELSE o]
    /\ failed' = IF Throws(m, t) THEN failed \cup {t} ELSE failed
    /\ got' = [got EXCEPT ![t] = Nothing]
    /\ UNCHANGED <<value_, half>>

\* A mutant: lock() tries again on EOWNERDEAD.
LockFirstSpins(t) ==
    IF pc[t] = "lock" /\ Result(lock_[FirstLocked(op[t])], t) = "EOWNERDEAD"
    THEN UNCHANGED vars
    ELSE LockStep(t, op[t], "lock")

LockFirst(t) == LockStep(t, op[t], "lock")

\* try_set() and try_get(): they return at once when another thread has the lock.
Try(t, o) == o.kind \in {"set", "get"} /\ LockStep(t, o, "idle")

\* The mutexes after the guards of the call have gone out of scope.
Released(t) == [b \in Boxes |-> IF b \in {op[t].box, op[t].from} THEN Unlock(lock_[b], t)
                                                                 ELSE lock_[b]]

\* A mutant: operator= does not lock its own mutex.
LockSelfSkipped(t) ==
    /\ Goto(t, "lock_self", "first")
    /\ UNCHANGED <<value_, lock_, op, half, got, failed>>

\* operator=: the second lock.
LockSelf(t) ==
    LET b == op[t].box IN
    /\ pc[t] = "lock_self" /\ Result(lock_[b], t) # "EBUSY"
    /\ Goto(t, "lock_self", IF Throws(lock_[b], t) THEN "idle" ELSE "first")
    /\ lock_' = IF Throws(lock_[b], t) THEN Released(t)
                                       ELSE [lock_ EXCEPT ![b] = Lock(@, t)]
    /\ op' = [op EXCEPT ![t] = IF Throws(lock_[b], t) THEN NoOp ELSE @]
    /\ failed' = IF Throws(lock_[b], t) THEN failed \cup {t} ELSE failed
    /\ UNCHANGED <<value_, half, got>>

-----------------------------------------------------------------------------
(* The copy, with the locks held                                           *)

\* Half n of what the call stores.
Stored(o, n) == IF o.kind = "set" THEN o.value ELSE value_[o.from][n]

CopyFirst(t) ==
    LET o == op[t] IN
    /\ Goto(t, "first", "second")
    /\ half' = [half EXCEPT ![t] = value_[o.box][1]]
    /\ value_' = IF Reads(o) THEN value_ ELSE [value_ EXCEPT ![o.box][1] = Stored(o, 1)]
    /\ UNCHANGED <<lock_, op, got, failed>>

\* A mutant: the mutex of the other box stays locked.
ReturnLocked(t) ==
    /\ lock_' = [lock_ EXCEPT ![op[t].box] = Unlock(@, t)]
    /\ op' = [op EXCEPT ![t] = NoOp]
    /\ half' = [half EXCEPT ![t] = Nothing]

Return(t) ==
    /\ lock_' = Released(t)
    /\ op' = [op EXCEPT ![t] = NoOp]
    /\ half' = [half EXCEPT ![t] = Nothing]

\* What a call may leave in the box it reads from: a move may empty it.
Left(o) ==
    {value_[FirstLocked(o)]} \cup (IF o.kind \in {"move", "take"} THEN {Halves(Moved)} ELSE {})

\* The end of get() and of the move constructor: the copy is complete.
ReadSecond(t) ==
    LET b == op[t].box IN
    /\ Reads(op[t])
    /\ Goto(t, "second", "idle")
    /\ got' = [got EXCEPT ![t] = <<half[t], value_[b][2]>>]
    /\ \E left \in Left(op[t]) : value_' = [value_ EXCEPT ![b] = left]
    /\ Return(t)
    /\ UNCHANGED failed

\* The end of set().
SetSecond(t) ==
    /\ op[t].kind = "set"
    /\ Goto(t, "second", "idle")
    /\ value_' = [value_ EXCEPT ![op[t].box][2] = Stored(op[t], 2)]
    /\ Return(t)
    /\ UNCHANGED <<got, failed>>

\* The end of operator=.
AssignSecond(t) ==
    /\ Assigns(op[t])
    /\ Goto(t, "second", "idle")
    /\ \E left \in Left(op[t]) :
           value_' = [value_ EXCEPT ![op[t].box][2] = Stored(op[t], 2),
                                    ![op[t].from] = left]
    /\ Return(t)
    /\ UNCHANGED <<got, failed>>

\* A function given to set() or get(), or the copy of a value, throws half way: what
\* it has written stays.  Moves do not throw.
CopyThrows(t) ==
    /\ op[t].kind \in {"set", "get", "copy"}
    /\ Goto(t, "second", "idle")
    /\ got' = [got EXCEPT ![t] = Thrown]
    /\ Return(t)
    /\ UNCHANGED <<value_, failed>>

\* A function given to set() or get(), or a thread that has locked get_mutex(),
\* calls get() on the same box.  The error checking mutex throws, which ends the
\* outer call (CopyThrows if it has written already); the recursive one is locked and
\* unlocked once more.
Nested(t) ==
    LET o == op[t] IN
    /\ pc[t] \in {"first", "user"} /\ o.kind \in {"set", "get", "user"}
    /\ IF Throws(lock_[o.box], t)
       THEN /\ Return(t)
            /\ pc' = [pc EXCEPT ![t] = "idle"]
            /\ got' = [got EXCEPT ![t] = Thrown]
       ELSE /\ got' = [got EXCEPT ![t] = value_[o.box]]
            /\ lock_' = [lock_ EXCEPT ![o.box] = Unlock(Lock(@, t), t)]
            /\ UNCHANGED <<pc, op, half>>
    /\ UNCHANGED <<value_, failed>>

-----------------------------------------------------------------------------
(* get_mutex(): a thread holds the mutex by itself                         *)

UserUnlock(t) ==
    /\ Goto(t, "user", "idle")
    /\ Return(t)
    /\ UNCHANGED <<value_, got, failed>>

\* The thread ends with the mutex locked.
UserEnds(t) ==
    /\ Goto(t, "user", "ended")
    /\ lock_' = [b \in Boxes |-> Abandon(lock_[b], t)]
    /\ op' = [op EXCEPT ![t] = NoOp]
    /\ UNCHANGED <<value_, half, got, failed>>

-----------------------------------------------------------------------------
(* Specification                                                           *)

Locks(t) == LockFirst(t) \/ LockSelf(t)

Copies(t) ==
    \/ CopyFirst(t) \/ ReadSecond(t) \/ SetSecond(t) \/ AssignSecond(t)
    \/ UserUnlock(t) \/ UserEnds(t)

AllEnded == (\A t \in Threads : pc[t] = "ended") /\ UNCHANGED vars

Next ==
    \/ \E t \in Threads :
           \/ \E o \in Ops : Calls(t, o) \/ Try(t, o)
           \/ Locks(t) \/ Copies(t) \/ CopyThrows(t) \/ Nested(t)
    \/ AllEnded

Safety == Init /\ [][Next]_vars

\* A begun call goes on and whoever holds get_mutex() gives it back or ends.  A
\* thread blocked on a mutex that is released again and again gets it: the
\* mutexes are priority inheriting and hand over to the first of their waiters.
Fairness == \A t \in Threads : WF_vars(Copies(t)) /\ SF_vars(LockFirst(t))
                                /\ SF_vars(LockSelf(t))

Spec == Safety /\ Fairness

-----------------------------------------------------------------------------
(* Properties                                                              *)

\* The boxes whose mutex a thread holds, by where it is in its call.
Held(t) ==
    CASE pc[t] = "user" -> {op[t].box}
      [] pc[t] = "lock_self" -> {op[t].from}
      [] pc[t] \in {"first", "second"} -> {op[t].box, op[t].from} \ {Nobody}
      [] OTHER -> {}

\* Types, and a mutex is held only by a thread inside a call that locked it: every
\* call, also one that ends with an exception, leaves all it has locked.
TypeOK ==
    /\ value_ \in [Boxes -> (Values \cup {Moved}) \X (Values \cup {Moved})]
    /\ pc \in [Threads -> {"idle", "lock", "lock_self", "first", "second", "user", "ended"}]
    /\ op \in [Threads -> Ops \cup {NoOp}]
    /\ half \in [Threads -> Values \cup {Moved, Nothing}]
    /\ got \in [Threads -> ((Values \cup {Moved}) \X (Values \cup {Moved}))
                            \cup {Nothing, Thrown}]
    /\ failed \subseteq Threads
    /\ \A b \in Boxes : /\ DOMAIN lock_[b] = DOMAIN Fresh(FALSE)
                        /\ lock_[b].depth = IF lock_[b].owner = Nobody THEN 0 ELSE 1
                        /\ \A t \in Threads : lock_[b].owner = t => b \in Held(t)

\* However threads end with a mutex locked, and whatever is assigned, no lock()
\* or try_lock() of a call throws, but for a call made from within another one on
\* the same box (Nested): a mutex whose owner died is made consistent before it is
\* unlocked again, and operator= locks no mutex its thread has.
LockNeverFails == failed = {}

\* The thread t has written the first half of the value of box b.
Writes(t, b) == pc[t] = "second" /\ ~Reads(op[t]) /\ op[t].box = b

\* What the box b holds: what it held before, while the owner of its mutex writes.
Content(b) ==
    LET t == lock_[b].owner IN
    IF t # Nobody /\ Writes(t, b) THEN <<half[t], value_[b][2]>> ELSE value_[b]

\* The boxes are registers: nobody sees what a call is writing or a box between the
\* two locks of an assignment.  Only a call that throws leaves half of what it was to
\* write, which everybody then sees, until the next call replaces it.
Reg == INSTANCE Registers WITH
    Contents <- {Halves(v) : v \in Values},
    MovedFrom <- Halves(Moved),
    content <- [b \in Boxes |-> Content(b)]
ImplementsRegisters == Reg!Spec

\* Every blocking call returns, although threads end with a mutex locked, as long
\* as the boxes are not assigned in a circle.
CallsEnd == \A t \in Threads : pc[t] = "lock" ~> pc[t] \in {"idle", "user", "ended"}

\* The comment at lock_: "guaranteed to be locked for no longer than the duration
\* of the copy".
LockIsReleased == \A b \in Boxes : lock_[b].owner # Nobody ~> lock_[b].owner = Nobody

=============================================================================
