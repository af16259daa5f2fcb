---------------------- MODULE RealtimePublisherProofs ----------------------
(***************************************************************************)
(* Proofs about RealtimePublisher for any set of clients and of messages   *)
(* and any number of hand-overs.  IInv is the inductive invariant: who     *)
(* holds msg_mutex_, what turn_ says for every place of the loop, and which*)
(* messages are outstanding there.                                         *)
(***************************************************************************)
EXTENDS RealtimePublisher, TLAPS

\* Labels at which a client, the publishing thread, is inside msg_mutex_.
Inside == {"tp_turn", "tp_write", "cp_turn", "user", "stop_set"}
LoopInside == {"pred", "block", "take"}

\* Where the loop is between giving the turn away and copying the message.
Listening == {"lock", "pred", "block", "wait", "relock", "take"}

MutexInv ==
    /\ \A c \in Clients : pc[c] \in Inside => msg_mutex_ = c
    /\ loop \in LoopInside => msg_mutex_ = Loop

\* A client about to write msg_ still has the turn it tested.
WriterInv ==
    \A c \in Clients :
        /\ pc[c] \in {"tp_turn", "tp_write"} => arg[c] \in Messages
        /\ pc[c] = "tp_write" => turn_ = "REALTIME"

\* What turn_ may be at each place of the loop.
TurnInv ==
    /\ loop = "start" => turn_ = "LOOP_NOT_STARTED"
    /\ loop \in Listening \cup {"check", "send"} => turn_ # "LOOP_NOT_STARTED"
    /\ loop \in {"start", "turn", "send"} => turn_ # "REALTIME"
    /\ loop \in {"take", "check", "while", "exit", "done"} /\ turn_ = "REALTIME"
            => ~keep_running_

\* Which message is outstanding at each place of the loop.
MailInv ==
    /\ HandoffOrder
    /\ turn_ # "NON_REALTIME" => accepted = published
    /\ loop \in Listening /\ turn_ = "NON_REALTIME"
            => msg_ \in Messages /\ accepted = Append(published, msg_)
    /\ loop = "send" \/ (loop = "check" /\ keep_running_)
            => outgoing \in Messages /\ accepted = Append(published, outgoing)
    /\ loop = "turn" \/ (loop = "while" /\ keep_running_) => accepted = published

ReadyInv == ready # {} => turn_ = "REALTIME"

\* is_running_ and the life of the object.
LifeInv ==
    /\ is_running_ <=> loop \notin {"start", "done"}
    /\ pc[Owner] # "constructing" => loop # "start"
    /\ pc[Owner] \in {"dtor_join", "destroyed"} => loop = "done"

IInv ==
    /\ TypeOK
    /\ MutexInv
    /\ WriterInv
    /\ TurnInv
    /\ MailInv
    /\ ReadyInv
    /\ LifeInv

-----------------------------------------------------------------------------
\* The inductive invariant holds when initialize() has set the members.
LEMMA InitIInv == Init => IInv
  <1> SUFFICES ASSUME Init PROVE IInv
    OBVIOUS
  <1> USE ThreadsAssumption DEF Init
  <1>1. TypeOK
    <2>1. << >> \in Seq(Messages)
      OBVIOUS
    <2>2. pc \in [Clients -> ClientPC]
      BY DEF ClientPC
    <2>3. arg \in [Clients -> Messages \cup {DefaultMsg}]
      OBVIOUS
    <2> QED
      BY <2>1, <2>2, <2>3 DEF TypeOK, State, LoopPC
  <1>2. MutexInv /\ WriterInv
    BY DEF MutexInv, WriterInv, Inside, LoopInside
  <1>3. TurnInv /\ ReadyInv
    BY DEF TurnInv, ReadyInv, Listening
  <1>4. MailInv
    BY DEF MailInv, HandoffOrder, Listening
  <1>5. LifeInv
    BY DEF LifeInv
  <1> QED
    BY <1>1, <1>2, <1>3, <1>4, <1>5 DEF IInv

\* Every step of the publishing thread and of the clients keeps it.
LEMMA NextIInv == IInv /\ [Next]_vars => IInv'
  <1> SUFFICES ASSUME IInv, [Next]_vars PROVE IInv'
    OBVIOUS
  <1> USE ThreadsAssumption, MessagesAssumption, BoundAssumption
      DEF IInv, TypeOK, MutexInv, WriterInv, TurnInv, MailInv, ReadyInv, LifeInv,
          HandoffOrder, State, LoopPC, ClientPC, Inside, LoopInside, Listening,
          flags, buffers, client, history, Goto, LoopGoto, Lock, Unlock,
          Move, Acquire, LoopMove, LoopAcquire, NotifyOne
  <1>1. CASE LoopStart
    BY <1>1 DEF LoopStart
  <1>2. CASE LoopWhile
    BY <1>2 DEF LoopWhile
  <1>3. CASE LoopTurn
    <2>1. TypeOK'
      BY <1>3 DEF LoopTurn
    <2>2. MutexInv' /\ WriterInv'
      BY <1>3 DEF LoopTurn
    <2>3. TurnInv' /\ ReadyInv'
      BY <1>3 DEF LoopTurn
    <2>4. MailInv'
      BY <1>3 DEF LoopTurn
    <2>5. LifeInv'
      BY <1>3 DEF LoopTurn
    <2> QED
      BY <2>1, <2>2, <2>3, <2>4, <2>5
  <1>4. CASE LoopLock
    BY <1>4 DEF LoopLock
  <1>5. CASE LoopPredicate
    BY <1>5 DEF LoopPredicate
  <1>6. CASE LoopBlock
    BY <1>6 DEF LoopBlock
  <1>7. CASE LoopSpurious
    BY <1>7 DEF LoopSpurious
  <1>8. CASE LoopRelock
    BY <1>8 DEF LoopRelock
  <1>9. CASE LoopTake
    <2>1. TypeOK'
      BY <1>9 DEF LoopTake
    <2>2. MutexInv' /\ WriterInv'
      BY <1>9 DEF LoopTake
    <2>3. TurnInv' /\ ReadyInv'
      BY <1>9 DEF LoopTake
    <2>4. MailInv'
      BY <1>9 DEF LoopTake
    <2>5. LifeInv'
      BY <1>9 DEF LoopTake
    <2> QED
      BY <2>1, <2>2, <2>3, <2>4, <2>5
  <1>10. CASE LoopCheck
    BY <1>10 DEF LoopCheck
  <1>11. CASE LoopSend
    <2>1. TypeOK'
      BY <1>11 DEF LoopSend
    <2>2. MutexInv' /\ WriterInv'
      BY <1>11 DEF LoopSend
    <2>3. TurnInv' /\ ReadyInv'
      BY <1>11 DEF LoopSend
    <2>4. MailInv'
      BY <1>11 DEF LoopSend
    <2>5. LifeInv'
      BY <1>11 DEF LoopSend
    <2> QED
      BY <2>1, <2>2, <2>3, <2>4, <2>5
  <1>12. CASE LoopExit
    <2>1. TypeOK'
      BY <1>12 DEF LoopExit
    <2>2. MutexInv' /\ WriterInv'
      BY <1>12 DEF LoopExit
    <2>3. TurnInv' /\ ReadyInv'
      BY <1>12 DEF LoopExit
    <2>4. MailInv'
      BY <1>12 DEF LoopExit
    <2>5. LifeInv'
      BY <1>12 DEF LoopExit
    <2> QED
      BY <2>1, <2>2, <2>3, <2>4, <2>5
  <1>13. ASSUME NEW c \in Clients, NEW m \in Messages, TryPublish(c, m) PROVE IInv'
    BY <1>13 DEF TryPublish, Alive
  <1>14. ASSUME NEW c \in Clients, TryPublishTurn(c) PROVE IInv'
    BY <1>14 DEF TryPublishTurn
  <1>15. ASSUME NEW c \in Clients, TryPublishWrite(c) PROVE IInv'
    <2>1. TypeOK'
      BY <1>15 DEF TryPublishWrite
    <2>2. MutexInv' /\ WriterInv'
      BY <1>15 DEF TryPublishWrite
    <2>3. TurnInv' /\ ReadyInv'
      BY <1>15 DEF TryPublishWrite
    <2>4. MailInv'
      BY <1>15 DEF TryPublishWrite
    <2>5. LifeInv'
      BY <1>15 DEF TryPublishWrite
    <2> QED
      BY <2>1, <2>2, <2>3, <2>4, <2>5
  <1>16. ASSUME NEW c \in Clients, TryPublishNotify(c) PROVE IInv'
    BY <1>16 DEF TryPublishNotify
  <1>17. ASSUME NEW c \in Clients, CanPublishTurn(c) PROVE IInv'
    BY <1>17 DEF CanPublishTurn
  <1>18. ASSUME NEW c \in Clients, UserUnlock(c) PROVE IInv'
    BY <1>18 DEF UserUnlock
  <1>19. ASSUME NEW c \in Clients, StopLock(c) PROVE IInv'
    BY <1>19 DEF StopLock
  <1>20. ASSUME NEW c \in Clients, StopSet(c) PROVE IInv'
    <2>1. TypeOK'
      BY <1>20 DEF StopSet
    <2>2. MutexInv' /\ WriterInv'
      BY <1>20 DEF StopSet
    <2>3. TurnInv' /\ ReadyInv'
      BY <1>20 DEF StopSet
    <2>4. MailInv'
      BY <1>20 DEF StopSet
    <2>5. LifeInv'
      BY <1>20 DEF StopSet
    <2> QED
      BY <2>1, <2>2, <2>3, <2>4, <2>5
  <1>21. ASSUME NEW c \in Clients, StopNotify(c) PROVE IInv'
    BY <1>21 DEF StopNotify
  <1>22. ASSUME NEW c \in Clients, CanPublish(c) PROVE IInv'
    BY <1>22 DEF CanPublish, Alive
  <1>23. ASSUME NEW c \in Clients, UserLock(c) PROVE IInv'
    BY <1>23 DEF UserLock, Alive
  <1>24. ASSUME NEW c \in Clients, Stop(c) PROVE IInv'
    BY <1>24 DEF Stop, Alive
  <1>25. CASE Constructed
    BY <1>25 DEF Constructed
  <1>26. CASE DestructorPoll
    BY <1>26 DEF DestructorPoll
  <1>27. CASE DestructorJoin
    BY <1>27 DEF DestructorJoin
  <1>28. CASE Destroy
    BY <1>28 DEF Destroy, Alive
  <1>29. CASE Finished \/ UNCHANGED vars
    BY <1>29 DEF Finished, vars
  <1> QED
    BY <1>1, <1>2, <1>3, <1>4, <1>5, <1>6, <1>7, <1>8, <1>9, <1>10, <1>11, <1>12,
       <1>13, <1>14, <1>15, <1>16, <1>17, <1>18, <1>19, <1>20, <1>21, <1>22, <1>23,
       <1>24, <1>25, <1>26, <1>27, <1>28, <1>29
    DEF Next, LoopSteps, ClientSteps, ClientCalls, OwnerSteps

\* The inductive invariant is an invariant.
THEOREM Invariance == Safety => []IInv
  BY InitIInv, NextIInv, PTL DEF Safety

\* The members keep their types, and publisher_->publish is only ever given a
\* message that a client handed over with try_publish().
THEOREM TypeCorrect == Safety => []TypeOK
  <1>1. IInv => TypeOK
    BY DEF IInv
  <1> QED
    BY <1>1, Invariance, PTL

\* try_publish() and publishingLoop() hand the messages over one at a time and
\* in order: at most the last accepted message is outstanding.
THEOREM HandoffCorrect == Safety => []HandoffOrder
  <1>1. IInv => HandoffOrder
    BY DEF IInv, MailInv
  <1> QED
    BY <1>1, Invariance, PTL

\* After can_publish() returned true the turn stays with the clients until one
\* of them hands a message over.
THEOREM ReadyCorrect == Safety => []ReadyIsStable
  <1>1. IInv => ReadyIsStable
    BY DEF IInv, MailInv, ReadyInv, ReadyIsStable
  <1> QED
    BY <1>1, Invariance, PTL

\* The destructor joins a thread that has run to its end.
THEOREM JoinCorrect == Safety => []JoinNeverBlocks
  <1>1. IInv => JoinNeverBlocks
    BY DEF IInv, LifeInv, JoinNeverBlocks
  <1> QED
    BY <1>1, Invariance, PTL

-----------------------------------------------------------------------------
(* Refinement: the steps of the threads are steps of the mailbox.          *)

LEMMA InitMailbox == Init => MB!Init
  BY DEF Init, MB!Init

\* The write of try_publish() is the Accept of the mailbox, the call of
\* publisher_->publish its Deliver, the store of stop() its Close; nothing else
\* in the code touches what the mailbox shows.
LEMMA NextMailbox == IInv /\ [Next]_vars => [MB!Next]_(MB!mailboxVars)
  <1> SUFFICES ASSUME IInv, [Next]_vars PROVE [MB!Next]_(MB!mailboxVars)
    OBVIOUS
  <1> USE DEF flags, buffers, client, history, Goto, LoopGoto, Lock, Unlock,
      Move, Acquire, LoopMove, LoopAcquire, NotifyOne
  <1>1. ASSUME NEW c \in Clients, TryPublishWrite(c) PROVE MB!Next
    <2>1. arg[c] \in Messages /\ accepted = published
      BY <1>1 DEF TryPublishWrite, IInv, WriterInv, MailInv
    <2>2. MB!Accept(arg[c])
      BY <1>1, <2>1 DEF TryPublishWrite, MB!Accept
    <2> QED
      BY <2>1, <2>2 DEF MB!Next
  <1>2. CASE LoopSend
    <2>1. outgoing \in Messages /\ accepted = Append(published, outgoing)
      BY <1>2 DEF LoopSend, IInv, MailInv
    <2>2. accepted # published
      BY <2>1 DEF IInv, TypeOK
    <2> QED
      BY <1>2, <2>1, <2>2 DEF LoopSend, MB!Next, MB!Deliver
  <1>3. ASSUME NEW c \in Clients, StopSet(c) PROVE MB!Next
    BY <1>3 DEF StopSet, MB!Next, MB!Close
  <1>4. CASE LoopStart \/ LoopWhile \/ LoopTurn \/ LoopLock \/ LoopPredicate
             \/ LoopBlock \/ LoopSpurious \/ LoopRelock \/ LoopTake \/ LoopCheck
             \/ LoopExit
    BY <1>4 DEF MB!mailboxVars, LoopStart, LoopWhile, LoopTurn, LoopLock,
         LoopPredicate, LoopBlock, LoopSpurious, LoopRelock, LoopTake, LoopCheck,
         LoopExit
  <1>5. ASSUME NEW c \in Clients,
               \/ TryPublishTurn(c) \/ TryPublishNotify(c) \/ CanPublishTurn(c)
               \/ UserUnlock(c) \/ StopLock(c) \/ StopNotify(c) \/ ClientCalls(c)
        PROVE UNCHANGED MB!mailboxVars
    BY <1>5 DEF MB!mailboxVars, TryPublishTurn, TryPublishNotify, CanPublishTurn,
         UserUnlock, StopLock, StopNotify, ClientCalls, TryPublish, CanPublish,
         UserLock, Stop
  <1>6. CASE OwnerSteps \/ Destroy \/ Finished \/ UNCHANGED vars
    BY <1>6 DEF MB!mailboxVars, OwnerSteps, Constructed, DestructorPoll,
         DestructorJoin, Destroy, Finished, vars
  <1> QED
    BY <1>1, <1>2, <1>3, <1>4, <1>5, <1>6 DEF Next, LoopSteps, ClientSteps

\* With the threads hidden, every behaviour of the publisher is one of the
\* one-message mailbox.
THEOREM RefinesMailbox == Safety => MB!Safety
  BY InitMailbox, NextMailbox, Invariance, PTL DEF Safety, MB!Safety

=============================================================================
