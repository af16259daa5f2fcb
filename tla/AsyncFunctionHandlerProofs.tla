--------------------- MODULE AsyncFunctionHandlerProofs ---------------------
(***************************************************************************)
(* Proofs about AsyncFunctionHandler for any clients, of which one starts  *)
(* and stops the handler, and any number of triggers.  IInv says what the  *)
(* mutex and the second look at stop_async_callback_ are good for: what    *)
(* the worker found in its predicate still holds when it runs the callback.*)
(***************************************************************************)
EXTENDS AsyncFunctionHandler, TLAPS

\* A handler that is not joinable has no worker, and only one client starts one.
ThreadInv ==
    /\ ~thread_ => worker = "none"
    /\ \A c \in Clients :
          pc[c] \in {"start_reset", "start_spawn"} => ~thread_ /\ "start" \in May[c]

\* A trigger in progress is the last one; it has run only at the end of the cycle,
\* and the one before it is done.  Without one in progress the last one is done.
TriggerInv ==
    /\ trigger_in_progress_ =>
          /\ 0 < triggered /\ current_callback_time_ = triggered /\ dropped < triggered
          /\ worker # "end" => ran < triggered /\ triggered - 1 \in {ran, dropped}
    /\ ~trigger_in_progress_ => triggered \in {ran, dropped}

\* SYNCHRONIZED: nobody takes the trigger away from a worker that has seen it.
SyncInv ==
    Sync => /\ worker = "test" => stop_async_callback_ \/ trigger_in_progress_
            /\ worker = "callback" => trigger_in_progress_

\* DETACHED: a quiet handler is paused, and a worker that has left its wait although
\* it is paused has seen the request to stop.
QuietInv ==
    /\ quiet => pause_thread_
    /\ quiet /\ ~Sync => /\ worker = "test" => stop_async_callback_
                         /\ worker # "callback"

IInv ==
    /\ TypeOK
    /\ ThreadInv
    /\ TriggerInv
    /\ SyncInv
    /\ QuietInv
    /\ WaitMeansFinished

-----------------------------------------------------------------------------
\* The inductive invariant holds for a new handler.
LEMMA InitIInv == Init => IInv
  <1> SUFFICES ASSUME Init PROVE IInv
    OBVIOUS
  <1>1. TypeOK
    <2>1. params_ \in Params
      BY DEF Init, Params
    <2>2. /\ triggered \in 0 .. MaxTriggers /\ current_callback_time_ \in 0 .. triggered
          /\ ran \in 0 .. triggered /\ dropped \in 0 .. triggered
          /\ since \in [Clients -> 0 .. triggered]
      BY MaxTriggersAssumption DEF Init
    <2>3. pc \in [Clients -> ClientPC] /\ worker \in WorkerPC
      BY DEF Init, WorkerPC, ClientPC
    <2> QED
      BY <2>1, <2>2, <2>3 DEF Init, TypeOK
  <1>2. ThreadInv /\ TriggerInv /\ SyncInv /\ QuietInv /\ WaitMeansFinished
    BY DEF Init, ThreadInv, TriggerInv, SyncInv, QuietInv, WaitMeansFinished
  <1> QED
    BY <1>1, <1>2 DEF IInv

\* Every step of the worker keeps it.
LEMMA WorkerIInv == IInv /\ (WorkerSteps \/ WorkerSpurious) => IInv'
  <1> SUFFICES ASSUME IInv, WorkerSteps \/ WorkerSpurious PROVE IInv'
    OBVIOUS
  <1> USE MaxTriggersAssumption
      DEF IInv, TypeOK, ThreadInv, TriggerInv, SyncInv, QuietInv, WaitMeansFinished,
          WorkerPC, ClientPC, Sync, WorkerGoto, WorkerMove,
          members, request, flags, counts, history
  <1>1. CASE WorkerBegin
    BY <1>1 DEF WorkerBegin
  <1>2. CASE WorkerWhile
    BY <1>2 DEF WorkerWhile
  <1>3. CASE WorkerLock
    BY <1>3 DEF WorkerLock
  <1>4. CASE WorkerPredicate
    BY <1>4 DEF WorkerPredicate, WorkerWaits
  <1>5. CASE WorkerBlock
    BY <1>5 DEF WorkerBlock
  <1>6. CASE WorkerTest
    BY <1>6 DEF WorkerTest
  <1>7. CASE WorkerCallback
    <2>1. TypeOK' /\ ThreadInv'
      BY <1>7 DEF WorkerCallback
    <2>2. TriggerInv'
      BY <1>7 DEF WorkerCallback
    <2>3. SyncInv' /\ QuietInv'
      BY <1>7 DEF WorkerCallback
    <2>4. WaitMeansFinished'
      BY <1>7 DEF WorkerCallback
    <2> QED
      BY <2>1, <2>2, <2>3, <2>4
  <1>8. CASE WorkerEnd
    <2>1. TypeOK' /\ ThreadInv'
      BY <1>8 DEF WorkerEnd
    <2>2. TriggerInv'
      BY <1>8 DEF WorkerEnd
    <2>3. SyncInv' /\ QuietInv'
      BY <1>8 DEF WorkerEnd
    <2>4. WaitMeansFinished'
      BY <1>8 DEF WorkerEnd
    <2> QED
      BY <2>1, <2>2, <2>3, <2>4
  <1>9. CASE WorkerNotify
    BY <1>9 DEF WorkerNotify
  <1>10. CASE WorkerSpurious
    BY <1>10 DEF WorkerSpurious
  <1> QED
    BY <1>1, <1>2, <1>3, <1>4, <1>5, <1>6, <1>7, <1>8, <1>9, <1>10 DEF WorkerSteps

\* Every step of a client keeps it.
LEMMA ClientIInv ==
  ASSUME IInv, NEW c \in Clients, ClientSteps(c) \/ ClientCalls(c) \/ WaitSpurious(c)
  PROVE  IInv'
  <1> USE MaxTriggersAssumption, MayAssumption, ParamSetsAssumption
      DEF IInv, TypeOK, ThreadInv, TriggerInv, SyncInv, QuietInv, WaitMeansFinished,
          WorkerPC, ClientPC, Sync, Free, Goto, Move, NotifyOne,
          members, request, flags, counts, history
  <1>1. CASE StartReset(c)
    <2>1. TypeOK' /\ ThreadInv'
      <3>1. dropped' \in 0 .. triggered /\ 0 \in 0 .. triggered
        BY <1>1 DEF StartReset, ResetVariables
      <3>2. pc' \in [Clients -> ClientPC]
        BY <1>1 DEF StartReset, ResetVariables
      <3> QED
        BY <1>1, <3>1, <3>2 DEF StartReset, ResetVariables
    <2>2. TriggerInv'
      BY <1>1 DEF StartReset, ResetVariables
    <2>3. SyncInv' /\ QuietInv'
      BY <1>1 DEF StartReset, ResetVariables
    <2>4. WaitMeansFinished'
      BY <1>1 DEF StartReset, ResetVariables
    <2> QED
      BY <2>1, <2>2, <2>3, <2>4
  <1>2. CASE StartSpawn(c)
    BY <1>2 DEF StartSpawn
  <1>3. CASE Rethrow(c)
    BY <1>3 DEF Rethrow
  <1>4. CASE TriggerCheck(c)
    BY <1>4 DEF TriggerCheck
  <1>5. CASE TriggerTry(c)
    <2>1. TypeOK' /\ ThreadInv'
      <3>1. triggered' \in 0 .. MaxTriggers /\ since' \in [Clients -> 0 .. triggered']
        BY <1>5 DEF TriggerTry, AcceptTrigger
      <3>2. pc' \in [Clients -> ClientPC]
        BY <1>5 DEF TriggerTry, AcceptTrigger
      <3>3. /\ current_callback_time_' \in 0 .. triggered'
            /\ ran' \in 0 .. triggered' /\ dropped' \in 0 .. triggered'
        BY <1>5 DEF TriggerTry, AcceptTrigger
      <3> QED
        BY <1>5, <3>1, <3>2, <3>3 DEF TriggerTry, AcceptTrigger
    <2>2. TriggerInv'
      BY <1>5 DEF TriggerTry, AcceptTrigger
    <2>3. SyncInv' /\ QuietInv'
      BY <1>5 DEF TriggerTry, AcceptTrigger
    <2>4. WaitMeansFinished'
      BY <1>5 DEF TriggerTry, AcceptTrigger
    <2> QED
      BY <2>1, <2>2, <2>3, <2>4
  <1>6. CASE TriggerRefused(c)
    BY <1>6 DEF TriggerRefused
  <1>7. CASE TriggerResume(c)
    BY <1>7 DEF TriggerResume
  <1>8. CASE TriggerNotify(c) \/ StopNotify(c)
    BY <1>8 DEF TriggerNotify, StopNotify
  <1>9. CASE ResetLock(c)
    <2>1. TypeOK' /\ ThreadInv'
      <3>1. dropped' \in 0 .. triggered /\ 0 \in 0 .. triggered
        BY <1>9 DEF ResetLock, ResetVariables
      <3>2. pc' \in [Clients -> ClientPC]
        BY <1>9 DEF ResetLock, ResetVariables
      <3> QED
        BY <1>9, <3>1, <3>2 DEF ResetLock, ResetVariables
    <2>2. TriggerInv'
      BY <1>9 DEF ResetLock, ResetVariables
    <2>3. SyncInv' /\ QuietInv'
      BY <1>9 DEF ResetLock, ResetVariables
    <2>4. WaitMeansFinished'
      BY <1>9 DEF ResetLock, ResetVariables
    <2> QED
      BY <2>1, <2>2, <2>3, <2>4
  <1>10. CASE WaitLock(c)
    BY <1>10 DEF WaitLock
  <1>11. CASE WaitReturn(c)
    BY <1>11 DEF WaitReturn
  <1>12. CASE PauseLock(c)
    BY <1>12 DEF PauseLock, PauseReturn
  <1>13. CASE StopLock(c) \/ WaitSpurious(c)
    BY <1>13 DEF StopLock, WaitSpurious
  <1>14. CASE Join(c)
    BY <1>14 DEF Join
  <1>15. CASE InitFunction(c)
    BY <1>15 DEF InitFunction
  <1>16. ASSUME NEW p \in ParamSets, InitParams(c, p) PROVE IInv'
    BY <1>16 DEF InitParams, Params
  <1>17. CASE Start(c)
    BY <1>17 DEF Start
  <1>18. CASE Trigger(c)
    BY <1>18 DEF Trigger
  <1>19. CASE Reset(c) \/ JoinThread(c)
    BY <1>19 DEF Reset, JoinThread
  <1>20. CASE Wait(c)
    BY <1>20 DEF Wait
  <1>21. CASE PauseSync(c)
    BY <1>21 DEF PauseSync
  <1>22. CASE PauseDetached(c)
    BY <1>22 DEF PauseDetached
  <1>23. CASE Stop(c)
    BY <1>23 DEF Stop
  <1> QED
    BY <1>1, <1>2, <1>3, <1>4, <1>5, <1>6, <1>7, <1>8, <1>9, <1>10, <1>11, <1>12, <1>13,
       <1>14, <1>15, <1>16, <1>17, <1>18, <1>19, <1>20, <1>21, <1>22, <1>23
    DEF ClientSteps, ClientCalls

\* Every step keeps it; after std::terminate there is none.
LEMMA NextIInv == IInv /\ [Next]_vars => IInv'
  <1>1. IInv /\ UNCHANGED vars => IInv'
    BY DEF vars, members, request, flags, counts, history, IInv, TypeOK, ThreadInv,
           TriggerInv, SyncInv, QuietInv, WaitMeansFinished, Sync
  <1> QED
    BY <1>1, WorkerIInv, ClientIInv DEF Next, Running

-----------------------------------------------------------------------------
\* The inductive invariant holds in every state.
THEOREM Invariance == Safety => []IInv
  BY InitIInv, NextIInv, PTL DEF Safety

\* Types, and every callback time is one of an accepted trigger, for any clients.
THEOREM TypeCorrect == Safety => []TypeOK
  <1>1. IInv => TypeOK
    BY DEF IInv
  <1> QED
    BY <1>1, Invariance, PTL

\* SYNCHRONIZED: the callback runs once per accepted trigger, for the last one and
\* with its time, however clients trigger, reset, stop and start.
THEOREM CallbackCorrect == Safety => []CallbackOncePerTrigger
  <1>1. IInv => CallbackOncePerTrigger
    BY DEF IInv, TriggerInv, SyncInv, CallbackOncePerTrigger
  <1> QED
    BY <1>1, Invariance, PTL

\* wait_for_trigger_cycle_to_finish() waits for every trigger accepted before it.
THEOREM WaitCorrect == Safety => []WaitMeansFinished
  <1>1. IInv => WaitMeansFinished
    BY DEF IInv
  <1> QED
    BY <1>1, Invariance, PTL

\* DETACHED: after pause_execution() has returned no callback runs before a trigger.
THEOREM PauseCorrect == Safety => []PauseIsQuiet
  <1>1. IInv => PauseIsQuiet
    BY DEF IInv, QuietInv, PauseIsQuiet
  <1> QED
    BY <1>1, Invariance, PTL

=============================================================================
