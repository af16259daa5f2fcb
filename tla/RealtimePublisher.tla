------------------------- MODULE RealtimePublisher -------------------------
(***************************************************************************)
(* realtime_tools::RealtimePublisher<MessageT>: realtime clients hand a    *)
(* message over with try_publish(), a thread of the object (publishingLoop)*)
(* copies it under msg_mutex_ and publishes it.  The atomic turn_ says who *)
(* may use msg_.                                                           *)
(*                                                                         *)
(* Every thread has a program counter; a step is what the thread does      *)
(* between two points where another thread can see a difference.  The      *)
(* clients are the threads that hold a reference to the object; the Owner  *)
(* is the one that constructs and destroys it.  As for any C++ object, the *)
(* destructor is not run while another thread is inside a call.            *)
(***************************************************************************)
EXTENDS Naturals, Sequences

CONSTANTS
    Clients,         \* threads that use the publisher
    Owner,           \* the client that constructs and destroys it
    Loop,            \* the publishing thread, thread_
    Nobody,          \* the holder of a free mutex
    Messages,        \* messages the clients publish
    DefaultMsg,      \* a default constructed MessageT
    MaxAccepted      \* bound: try_publish is not called after that many messages

ASSUME ThreadsAssumption ==
    /\ Owner \in Clients
    /\ Loop \notin Clients
    /\ Nobody \notin Clients \cup {Loop}

ASSUME MessagesAssumption == DefaultMsg \notin Messages

ASSUME BoundAssumption == MaxAccepted \in Nat

VARIABLES
    turn_, keep_running_, is_running_, msg_, msg_mutex_,  \* the members
    outgoing,        \* local of publishingLoop
    loop,            \* program counter of the publishing thread
    pc,              \* program counter of every client
    arg,             \* msg, the argument of a client's try_publish
    destroying,      \* TRUE once the destructor has been entered
    ready,           \* clients told TRUE by can_publish since the last hand-over
    accepted,        \* the messages try_publish stored into msg_, in order
    published        \* the messages given to publisher_->publish, in order

flags   == <<turn_, keep_running_, is_running_>>
buffers == <<msg_, outgoing>>
client  == <<pc, arg, destroying>>
history == <<ready, accepted, published>>
vars    == <<flags, buffers, msg_mutex_, loop, client, history>>

State == {"REALTIME", "NON_REALTIME", "LOOP_NOT_STARTED"}

LoopPC == {"start", "while", "turn", "lock", "pred", "block", "wait", "relock",
           "take", "check", "send", "exit", "done"}

ClientPC == {"constructing", "idle", "tp_turn", "tp_write", "tp_notify",
             "cp_turn", "user", "stop_lock", "stop_set", "stop_notify",
             "dtor_poll", "dtor_join", "destroyed"}

-----------------------------------------------------------------------------
(* Construction                                                            *)

\* initialize(): the members are set and the thread is started; the Owner is
\* in the loop that waits for the thread.
Init ==
    /\ turn_ = "LOOP_NOT_STARTED"
    /\ keep_running_ = TRUE
    /\ is_running_ = FALSE
    /\ msg_ = DefaultMsg /\ outgoing = DefaultMsg
    /\ msg_mutex_ = Nobody
    /\ loop = "start"
    /\ pc = [c \in Clients |-> IF c = Owner THEN "constructing" ELSE "idle"]
    /\ arg = [c \in Clients |-> DefaultMsg]
    /\ destroying = FALSE
    /\ ready = {} /\ accepted = << >> /\ published = << >>

\* The object may be used: the constructor has returned and the destructor has
\* not been called.
Alive == pc[Owner] # "constructing" /\ ~destroying

\* Client c, the publishing thread, go from one label to another.
Goto(c, from, to) == pc[c] = from /\ pc' = [pc EXCEPT ![c] = to]
LoopGoto(from, to) == loop = from /\ loop' = to

\* msg_mutex_, a std::mutex.
Lock(thread) == msg_mutex_ = Nobody /\ msg_mutex_' = thread
Unlock == msg_mutex_' = Nobody

\* A step that only moves the thread, and one that takes the mutex.
Move(c, from, to) ==
    /\ Goto(c, from, to)
    /\ UNCHANGED <<flags, buffers, msg_mutex_, loop, arg, destroying, history>>
Acquire(c, from, to) ==
    /\ Goto(c, from, to) /\ Lock(c)
    /\ UNCHANGED <<flags, buffers, loop, arg, destroying, history>>
LoopMove(from, to) ==
    LoopGoto(from, to) /\ UNCHANGED <<flags, buffers, msg_mutex_, client, history>>
LoopAcquire(from, to) ==
    LoopGoto(from, to) /\ Lock(Loop) /\ UNCHANGED <<flags, buffers, client, history>>

\* A mutant: the constructor returns without waiting for the thread.
ConstructedEarly == Move(Owner, "constructing", "idle")

\* The constructor returns when it sees that the loop has set turn_.
Constructed == turn_ # "LOOP_NOT_STARTED" /\ Move(Owner, "constructing", "idle")

-----------------------------------------------------------------------------
(* try_publish() and can_publish()                                         *)

\* try_publish(m): the try_lock.  When another thread has the mutex the call
\* returns false at once, which changes nothing.
TryPublish(c, m) ==
    /\ Alive /\ Len(accepted) < MaxAccepted
    /\ Goto(c, "idle", "tp_turn")
    /\ Lock(c)
    /\ arg' = [arg EXCEPT ![c] = m]
    /\ UNCHANGED <<flags, buffers, loop, destroying, history>>

\* A mutant: the state of the hand-over is not looked at.
TryPublishIgnoresTurn(c) == Move(c, "tp_turn", "tp_write")

\* can_publish(lock) inside try_publish: on REALTIME go on with the lock held,
\* otherwise unlock and return false.
TryPublishTurn(c) ==
    /\ \/ /\ turn_ = "REALTIME"
          /\ Goto(c, "tp_turn", "tp_write")
          /\ UNCHANGED msg_mutex_
       \/ /\ turn_ # "REALTIME"
          /\ Goto(c, "tp_turn", "idle")
          /\ Unlock
    /\ UNCHANGED <<flags, buffers, loop, arg, destroying, history>>

\* The block of the scoped lock: msg_ and turn_ are written, the lock is left.
TryPublishWrite(c) ==
    /\ Goto(c, "tp_write", "tp_notify")
    /\ msg_' = arg[c]
    /\ turn_' = "NON_REALTIME"
    /\ Unlock
    /\ accepted' = Append(accepted, arg[c])
    /\ ready' = {}
    /\ UNCHANGED <<keep_running_, is_running_, outgoing, loop, arg, destroying,
                   published>>

\* updated_cond_.notify_one(): only the publishing thread ever waits.
NotifyOne == loop' = IF loop = "wait" THEN "relock" ELSE loop

\* A mutant: the notification of try_publish is forgotten.
TryPublishSilent(c) == Move(c, "tp_notify", "idle")

\* notify_one and return true.
TryPublishNotify(c) ==
    /\ Goto(c, "tp_notify", "idle")
    /\ NotifyOne
    /\ UNCHANGED <<flags, buffers, msg_mutex_, arg, destroying, history>>

\* can_publish(): the try_lock (false at once when the mutex is taken).
CanPublish(c) == Alive /\ Acquire(c, "idle", "cp_turn")

\* A mutant: can_publish() answers TRUE whenever it got the lock.
CanPublishIgnoresTurn(c) ==
    /\ Goto(c, "cp_turn", "idle")
    /\ ready' = ready \cup {c}
    /\ Unlock
    /\ UNCHANGED <<flags, buffers, loop, arg, destroying, accepted, published>>

\* can_publish(lock): the answer; the lock is left on return.
CanPublishTurn(c) ==
    /\ Goto(c, "cp_turn", "idle")
    /\ ready' = IF turn_ = "REALTIME" THEN ready \cup {c} ELSE ready \ {c}
    /\ Unlock
    /\ UNCHANGED <<flags, buffers, loop, arg, destroying, accepted, published>>

-----------------------------------------------------------------------------
(* get_mutex(): a client holds msg_mutex_ for a while                      *)

UserLock(c) == Alive /\ Acquire(c, "idle", "user")

UserUnlock(c) ==
    /\ Goto(c, "user", "idle")
    /\ Unlock
    /\ UNCHANGED <<flags, buffers, loop, arg, destroying, history>>

-----------------------------------------------------------------------------
(* stop() and the destructor                                               *)

Stop(c) == Alive /\ Move(c, "idle", "stop_lock")

\* ~RealtimePublisher() starts with a stop().
Destroy ==
    /\ Alive
    /\ \A c \in Clients : pc[c] = "idle"
    /\ Goto(Owner, "idle", "stop_lock")
    /\ destroying' = TRUE
    /\ UNCHANGED <<flags, buffers, msg_mutex_, loop, arg, history>>

\* A mutant: keep_running_ is cleared without taking the mutex.
StopWithoutLock(c) ==
    /\ Goto(c, "stop_lock", "stop_notify")
    /\ keep_running_' = FALSE
    /\ UNCHANGED <<turn_, is_running_, buffers, msg_mutex_, loop, arg, destroying,
                   history>>

StopLock(c) == Acquire(c, "stop_lock", "stop_set")

\* keep_running_ = false under the lock, then the end of the block.
StopSet(c) ==
    /\ Goto(c, "stop_set", "stop_notify")
    /\ keep_running_' = FALSE
    /\ Unlock
    /\ UNCHANGED <<turn_, is_running_, buffers, loop, arg, destroying, history>>

\* notify_one; stop() returns to its caller or to the destructor.
StopNotify(c) ==
    /\ Goto(c, "stop_notify",
            IF c = Owner /\ destroying THEN "dtor_poll" ELSE "idle")
    /\ NotifyOne
    /\ UNCHANGED <<flags, buffers, msg_mutex_, arg, destroying, history>>

\* The destructor sleeps until it sees is_running_ FALSE.
DestructorPoll == ~is_running_ /\ Move(Owner, "dtor_poll", "dtor_join")

\* thread_.join(), after which the members are gone.
DestructorJoin == loop = "done" /\ Move(Owner, "dtor_join", "destroyed")

-----------------------------------------------------------------------------
(* publishingLoop()                                                        *)

LoopStart ==
    /\ LoopGoto("start", "while")
    /\ is_running_' = TRUE
    /\ UNCHANGED <<turn_, keep_running_, buffers, msg_mutex_, client, history>>

\* while (keep_running_), read without the mutex; outgoing is constructed anew.
LoopWhile ==
    /\ LoopGoto("while", IF keep_running_ THEN "turn" ELSE "exit")
    /\ outgoing' = DefaultMsg
    /\ UNCHANGED <<flags, msg_, msg_mutex_, client, history>>

\* The turn goes to the clients, before the mutex is taken.
LoopTurn ==
    /\ LoopGoto("turn", "lock")
    /\ turn_' = "REALTIME"
    /\ UNCHANGED <<keep_running_, is_running_, buffers, msg_mutex_, client, history>>

LoopLock == LoopAcquire("lock", "pred")

\* A mutant: wait() returns on any wake-up.
LoopPredicateTrue == LoopMove("pred", "take")

\* wait() evaluates its predicate with the mutex held.
LoopPredicate ==
    LoopMove("pred", IF turn_ = "NON_REALTIME" \/ ~keep_running_
                        THEN "take" ELSE "block")

\* wait() releases the mutex and blocks, in one step.
LoopBlock ==
    /\ LoopGoto("block", "wait")
    /\ Unlock
    /\ UNCHANGED <<flags, buffers, client, history>>

\* A condition variable may wake up without a notification.
LoopSpurious == LoopMove("wait", "relock")

LoopRelock == LoopAcquire("relock", "pred")

\* outgoing = msg_, then the end of the block of the lock.
LoopTake ==
    /\ LoopGoto("take", "check")
    /\ outgoing' = msg_
    /\ Unlock
    /\ UNCHANGED <<flags, msg_, client, history>>

\* if (keep_running_), read without the mutex.
LoopCheck == LoopMove("check", IF keep_running_ THEN "send" ELSE "while")

\* publisher_->publish(outgoing).
LoopSend ==
    /\ LoopGoto("send", "while")
    /\ published' = Append(published, outgoing)
    /\ UNCHANGED <<flags, buffers, msg_mutex_, client, ready, accepted>>

\* is_running_ = false is the last thing the thread does.
LoopExit ==
    /\ LoopGoto("exit", "done")
    /\ is_running_' = FALSE
    /\ UNCHANGED <<turn_, keep_running_, buffers, msg_mutex_, client, history>>

-----------------------------------------------------------------------------
(* Specification                                                           *)

LoopSteps ==
    \/ LoopStart \/ LoopWhile \/ LoopTurn \/ LoopLock \/ LoopPredicate
    \/ LoopBlock \/ LoopRelock \/ LoopTake \/ LoopCheck \/ LoopSend \/ LoopExit

\* The rest of a call that has begun.
ClientSteps(c) ==
    \/ TryPublishTurn(c) \/ TryPublishWrite(c) \/ TryPublishNotify(c)
    \/ CanPublishTurn(c) \/ UserUnlock(c)
    \/ StopLock(c) \/ StopSet(c) \/ StopNotify(c)

ClientCalls(c) ==
    \/ \E m \in Messages : TryPublish(c, m)
    \/ CanPublish(c)
    \/ UserLock(c)
    \/ Stop(c)

OwnerSteps == Constructed \/ DestructorPoll \/ DestructorJoin

\* Everything is over: both threads of the object's life have ended.
Finished == pc[Owner] = "destroyed" /\ UNCHANGED vars

Next ==
    \/ LoopSteps
    \/ LoopSpurious
    \/ \E c \in Clients : ClientSteps(c) \/ ClientCalls(c)
    \/ OwnerSteps
    \/ Destroy
    \/ Finished

Safety == Init /\ [][Next]_vars

\* A runnable thread runs: the publishing thread and every begun call go on.
\* Nobody has to call anything, and nothing makes a spurious wake-up happen.
\* A thread blocked on msg_mutex_ gets it when the mutex is free again and
\* again: critical sections are short and clients leave the mutex alone between
\* their calls.
Fairness ==
    /\ WF_vars(LoopSteps)
    /\ SF_vars(LoopLock)
    /\ SF_vars(LoopRelock)
    /\ WF_vars(OwnerSteps)
    /\ \A c \in Clients : WF_vars(ClientSteps(c)) /\ SF_vars(StopLock(c))

Spec == Safety /\ Fairness

-----------------------------------------------------------------------------
(* Properties                                                              *)

\* Types of the members and of the bookkeeping.  Only messages of clients are
\* ever published: never the default constructed message of a loop that was
\* woken up without one.
TypeOK ==
    /\ turn_ \in State
    /\ keep_running_ \in BOOLEAN
    /\ is_running_ \in BOOLEAN
    /\ msg_ \in Messages \cup {DefaultMsg}
    /\ msg_mutex_ \in Clients \cup {Loop, Nobody}
    /\ outgoing \in Messages \cup {DefaultMsg}
    /\ loop \in LoopPC
    /\ pc \in [Clients -> ClientPC]
    /\ arg \in [Clients -> Messages \cup {DefaultMsg}]
    /\ destroying \in BOOLEAN
    /\ ready \subseteq Clients
    /\ accepted \in Seq(Messages)
    /\ published \in Seq(Messages)

\* try_publish() stores a message only when the one before it has been given to
\* publisher_->publish: no message is overwritten in msg_, published twice or
\* out of order, whoever calls and however the loop wakes up.
HandoffOrder ==
    \/ accepted = published
    \/ \E m \in Messages : accepted = Append(published, m)

\* A client that can_publish() told TRUE can be refused afterwards only because
\* the mutex is taken, until some client hands a message over: the loop never
\* takes the turn back by itself.
ReadyIsStable == ready # {} => turn_ = "REALTIME" /\ accepted = published

\* The destructor reaches thread_.join() only when the thread is past its last
\* access to the object: it never joins a thread that has not started yet and
\* whose is_running_ is FALSE for that reason.
JoinNeverBlocks == pc[Owner] \in {"dtor_join", "destroyed"} => loop = "done"

\* With the threads hidden the publisher is a one-message mailbox, delivery of
\* what it accepted included (until stop() is called).
MB == INSTANCE Mailbox WITH open <- keep_running_
ImplementsMailbox == MB!Spec

\* The destructor returns: the stop() it makes is never lost between the loop's
\* test of its wait predicate and its blocking, and is_running_ comes down.
DestructorTerminates == destroying ~> pc[Owner] = "destroyed"

\* While nobody has called stop(), the clients get the turn back again and
\* again, so that a client that keeps trying is not refused for ever.
TurnComesBack == []<>(turn_ = "REALTIME" \/ ~keep_running_)

=============================================================================
