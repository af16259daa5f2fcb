------------------- MODULE RealtimeServerGoalHandleProofs -------------------
(***************************************************************************)
(* Proofs about RealtimeServerGoalHandle for any set of realtime threads.  *)
(* That a client gets the result that belongs to its outcome is proved for *)
(* handles with one requesting thread: with two of them the tests that     *)
(* setAborted() and setSucceeded() make without the mutex may both succeed.*)
(***************************************************************************)
EXTENDS RealtimeServerGoalHandle, TLAPS

\* The controller requests the end of a goal from one thread.
OneRequester == \A s, t \in Requesters : s = t

\* Only requesting threads are on their way to a request.
PcInv == \A t \in Threads : pc[t] \in Outcome => t \in Requesters

\* A request that has passed its test finds no other one when it gets the mutex, ...
PendingInv ==
    OneRequester => \A t \in Threads : pc[t] \in Outcome => NothingRequested

\* ... so that the stored result is the one of the request that is pending, ...
StoredInv == OneRequester => \A o \in Outcome : req[o] => req_result_ = o

\* ... which is still pending when runNonRealtime() acts upon it.
ActingInv ==
    /\ acting => stage # "idle"
    /\ acting /\ stage \in Outcome => req[stage]

IInv ==
    /\ TypeOK
    /\ PcInv
    /\ PendingInv
    /\ StoredInv
    /\ ActingInv
    /\ FeedbackIsSound
    /\ OneRequester => ResultMatchesOutcome

-----------------------------------------------------------------------------
\* The inductive invariant holds for a new handle.
LEMMA InitIInv == Init => IInv
  BY RequestersAssumption, RunnerAssumption
  DEF Init, IInv, TypeOK, PcInv, PendingInv, StoredInv, ActingInv, FeedbackIsSound,
      ResultMatchesOutcome, NothingRequested, Outcome, Active, Following

Blocks == {"execute", "feedback"} \cup Outcome

\* The blocks of runNonRealtime() follow each other, feedback is the last one.
LEMMA FollowingFacts ==
  /\ DOMAIN Following = Blocks
  /\ \A s \in Blocks : /\ Following[s] \in Blocks \cup {"idle"}
                      /\ Following[s] = "idle" <=> s = "feedback"
  BY DEF Following, Blocks, Outcome

\* Every step of the client, the timer and the realtime threads keeps it.
LEMMA NextIInv == IInv /\ [Next]_vars => IInv'
  <1> SUFFICES ASSUME IInv, [Next]_vars PROVE IInv'
    OBVIOUS
  <1> USE RequestersAssumption, RunnerAssumption
      DEF IInv, TypeOK, PcInv, PendingInv, StoredInv, ActingInv, FeedbackIsSound,
          ResultMatchesOutcome, NothingRequested, OneRequester, Outcome, Active, Following,
          handle, run, Goto
  <1>1. CASE ClientCancels
    BY <1>1 DEF ClientCancels
  <1>2. CASE RunBegin
    BY <1>2 DEF RunBegin
  <1>3. CASE RunTest
    <2>1. CASE RunCondition(stage)
      <3>1. /\ stage # "idle" /\ acting' = TRUE
            /\ UNCHANGED <<goal, handle, mutex_, stage, pc, delivered>>
        BY <1>3, <2>1 DEF RunTest
      <3>2. stage \in Outcome => req[stage]
        BY <2>1 DEF RunCondition, Requested
      <3>3. stage = "feedback" => goal = "EXECUTING"
        BY <2>1 DEF RunCondition, RunStates
      <3> QED
        BY <3>1, <3>2, <3>3
    <2>2. CASE ~RunCondition(stage)
      <3>1. /\ stage # "idle" /\ acting' = FALSE
            /\ stage' = Following[stage]
            /\ mutex_' = IF stage' = "idle" THEN Nobody ELSE mutex_
            /\ UNCHANGED <<goal, handle, pc, delivered>>
        BY <1>3, <2>2 DEF RunTest, RunGoto
      <3>2. stage' \in DOMAIN Following \cup {"idle"}
        BY <3>1, FollowingFacts DEF Blocks
      <3>3. mutex_' = Runner <=> stage' # "idle"
        BY <3>1
      <3>4. \A t \in Threads : mutex_' = t <=> pc'[t] = "updating"
        BY <3>1
      <3> HIDE DEF Following
      <3>5. TypeOK'
        BY <3>1, <3>2, <3>3, <3>4
      <3> QED
        BY <3>1, <3>5
    <2> QED
      BY <2>1, <2>2
  <1>4. CASE RunExecute
    BY <1>4 DEF RunExecute, RunGoto, LegalIn
  <1>5. CASE RunEnd
    <2>1. /\ stage \in Outcome /\ acting' = FALSE
          /\ goal' = stage /\ delivered' = req_result_
          /\ req' = [req EXCEPT ![stage] = FALSE]
          /\ stage' = Following[stage] /\ stage' # "idle"
          /\ UNCHANGED <<req_execute_, req_result_, req_feedback_, mutex_, pc>>
      BY <1>5 DEF RunEnd, RunGoto
    <2>2. OneRequester => req_result_ = stage
      BY <1>5, <2>1 DEF RunEnd
    <2>3. TypeOK'
      <3>1. req' \in [Outcome -> BOOLEAN]
        BY <2>1
      <3>2. stage' \in DOMAIN Following \cup {"idle"}
        BY <2>1, FollowingFacts DEF Blocks
      <3> HIDE DEF Following
      <3> QED
        BY <2>1, <3>1, <3>2
    <2>4. PcInv' /\ ActingInv' /\ FeedbackIsSound'
      BY <2>1
    <2>5. PendingInv' /\ StoredInv' /\ (OneRequester => ResultMatchesOutcome')
      BY <2>1, <2>2
    <2> QED
      BY <2>3, <2>4, <2>5
  <1>6. CASE RunFeedback
    BY <1>6 DEF RunFeedback, RunGoto
  <1>7. CASE RunThrows
    BY <1>7 DEF RunThrows, RunGoto
  <1>8. ASSUME NEW t \in Threads, ThreadSteps(t) PROVE IInv'
    <2>1. ASSUME NEW o \in Outcome, RequestLocked(t, o) PROVE IInv'
      BY <2>1 DEF RequestLocked
    <2>2. CASE ExecuteLocked(t)
      BY <2>2 DEF ExecuteLocked
    <2>3. CASE TrySetFeedbackEnd(t)
      BY <2>3 DEF TrySetFeedbackEnd
    <2> QED
      BY <1>8, <2>1, <2>2, <2>3 DEF ThreadSteps
  <1>9. ASSUME NEW t \in Threads, ThreadCalls(t) PROVE IInv'
    <2>1. ASSUME NEW o \in Outcome, Request(t, o) PROVE IInv'
      BY <2>1 DEF Request
    <2>2. CASE Execute(t)
      BY <2>2 DEF Execute
    <2>3. ASSUME NEW isset \in BOOLEAN, SetFeedback(t, isset) PROVE IInv'
      BY <2>3 DEF SetFeedback
    <2>4. CASE TrySetFeedback(t)
      BY <2>4 DEF TrySetFeedback
    <2> QED
      BY <1>9, <2>1, <2>2, <2>3, <2>4 DEF ThreadCalls
  <1>10. CASE UNCHANGED vars
    BY <1>10 DEF vars
  <1> QED
    BY <1>1, <1>2, <1>3, <1>4, <1>5, <1>6, <1>7, <1>8, <1>9, <1>10 DEF Next, RunSteps

-----------------------------------------------------------------------------
\* The inductive invariant holds in every state.
THEOREM Invariance == Safety => []IInv
  BY InitIInv, NextIInv, PTL DEF Safety

\* Types, and a mutex that is held exactly where runNonRealtime() and
\* trySetFeedback() are inside it, for any number of threads.
THEOREM TypeCorrect == Safety => []TypeOK
  <1>1. IInv => TypeOK
    BY DEF IInv
  <1> QED
    BY <1>1, Invariance, PTL

\* runNonRealtime() publishes no feedback for an ended goal and none that
\* trySetFeedback() is writing, for any number of threads.
THEOREM FeedbackCorrect == Safety => []FeedbackIsSound
  <1>1. IInv => FeedbackIsSound
    BY DEF IInv
  <1> QED
    BY <1>1, Invariance, PTL

\* The client gets the result made for the outcome it is told, if one thread calls
\* setAborted(), setCanceled() and setSucceeded(), whoever else uses the handle.
THEOREM ResultCorrect ==
  ASSUME OneRequester
  PROVE  Safety => []ResultMatchesOutcome
  <1>1. IInv => ResultMatchesOutcome
    BY OneRequester DEF IInv
  <1> QED
    BY <1>1, Invariance, PTL

=============================================================================
