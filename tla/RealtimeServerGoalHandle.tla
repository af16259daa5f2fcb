--------------------- MODULE RealtimeServerGoalHandle ---------------------
(***************************************************************************)
(* realtime_tools::RealtimeServerGoalHandle<Action>: a realtime controller *)
(* requests the end of an action goal with setAborted(), setCanceled() or  *)
(* setSucceeded() and hands over feedback; runNonRealtime(), called again  *)
(* and again from a timer, carries the requests out on gh_, the goal handle*)
(* of rclcpp_action, whose state the action client may turn to CANCELING   *)
(* at any moment.                                                          *)
(*                                                                         *)
(* runNonRealtime() holds mutex_ from its first to its last step, and so   *)
(* does trySetFeedback() while the user's callback writes the message.     *)
(* The critical sections of the other calls are one step each.  The tests  *)
(* the realtime calls make before they lock, and every look at gh_ and     *)
(* what is done after it, are steps of their own.                          *)
(***************************************************************************)
EXTENDS Naturals

CONSTANTS
    Threads,          \* realtime threads that hold the handle
    Requesters,       \* the ones that call execute() and set...()
    Runner,           \* the thread of runNonRealtime()
    Nobody            \* the holder of a free mutex

ASSUME RequestersAssumption == Requesters \subseteq Threads
ASSUME RunnerAssumption == Runner \notin Threads /\ Nobody \notin Threads \cup {Runner}

VARIABLES
    goal,             \* state of gh_
    req,              \* req_abort_, req_cancel_, req_succeed_
    req_execute_,
    req_result_,      \* the outcome the stored result was made for
    req_feedback_,    \* a feedback message is stored
    mutex_,
    stage,            \* where runNonRealtime() is
    acting,           \* runNonRealtime() is about to call what its test allowed
    pc,               \* program counter of every realtime thread
    delivered         \* the outcome the result sent to the client was made for

handle == <<req, req_execute_, req_result_, req_feedback_>>
run    == <<stage, acting>>
vars   == <<goal, handle, mutex_, run, pc, delivered>>

Outcome == {"ABORTED", "CANCELED", "SUCCEEDED"}
Active  == {"ACCEPTED", "EXECUTING", "CANCELING"}

Init ==
    /\ goal = "ACCEPTED"
    /\ req = [o \in Outcome |-> FALSE]
    /\ req_execute_ = FALSE
    /\ req_result_ = "null"
    /\ req_feedback_ = FALSE
    /\ mutex_ = Nobody
    /\ stage = "idle"
    /\ acting = FALSE
    /\ pc = [t \in Threads |-> "idle"]
    /\ delivered = "null"

Goto(t, from, to) == pc[t] = from /\ pc' = [pc EXCEPT ![t] = to]

-----------------------------------------------------------------------------
(* rclcpp_action: the states of a goal                                     *)

\* The action client cancels and the server accepts that.
ClientCancels ==
    /\ goal \in {"ACCEPTED", "EXECUTING"}
    /\ goal' = "CANCELING"
    /\ UNCHANGED <<handle, mutex_, run, pc, delivered>>

\* The states in which gh_->execute(), abort(), canceled(), succeed() are legal;
\* they throw in the others.  Feedback may always be published.
LegalIn(call) ==
    CASE call = "execute" -> {"ACCEPTED"}
      [] call = "CANCELED" -> {"CANCELING"}
      [] call \in {"ABORTED", "SUCCEEDED"} -> {"EXECUTING", "CANCELING"}
      [] call = "feedback" -> Active \cup Outcome

-----------------------------------------------------------------------------
(* The realtime calls                                                      *)

NothingRequested == \A o \in Outcome : ~req[o]

\* A mutant: a request that is pending is not looked at.
RequestAlways(t, o) ==
    /\ t \in Requesters /\ req_execute_
    /\ Goto(t, "idle", o)
    /\ UNCHANGED <<goal, handle, mutex_, run, delivered>>

\* setAborted(), setCanceled(), setSucceeded(): the test, without the mutex.
Request(t, o) ==
    /\ t \in Requesters /\ req_execute_ /\ NothingRequested
    /\ Goto(t, "idle", o)
    /\ UNCHANGED <<goal, handle, mutex_, run, delivered>>

\* With the mutex, the result and the flag.
RequestLocked(t, o) ==
    /\ mutex_ = Nobody
    /\ Goto(t, o, "idle")
    /\ req_result_' = o
    /\ req' = [req EXCEPT ![o] = TRUE]
    /\ UNCHANGED <<goal, req_execute_, req_feedback_, mutex_, run, delivered>>

\* execute(): the test, without the mutex.
Execute(t) ==
    /\ t \in Requesters /\ NothingRequested
    /\ Goto(t, "idle", "execute")
    /\ UNCHANGED <<goal, handle, mutex_, run, delivered>>

ExecuteLocked(t) ==
    /\ mutex_ = Nobody
    /\ Goto(t, "execute", "idle")
    /\ req_execute_' = TRUE
    /\ UNCHANGED <<goal, req, req_result_, req_feedback_, mutex_, run, delivered>>

\* setFeedback(): try_lock, false otherwise; a nullptr clears.
SetFeedback(t, isset) ==
    /\ mutex_ = Nobody /\ pc[t] = "idle"
    /\ req_feedback_' = isset
    /\ UNCHANGED <<goal, req, req_execute_, req_result_, mutex_, run, pc, delivered>>

\* A mutant: the preallocated message is written without the lock.
TrySetFeedbackUnlocked(t) ==
    /\ Goto(t, "idle", "updating")
    /\ UNCHANGED <<goal, handle, mutex_, run, delivered>>

\* trySetFeedback(): try_lock, false otherwise; the user's callback begins.
TrySetFeedback(t) ==
    /\ mutex_ = Nobody
    /\ mutex_' = t
    /\ Goto(t, "idle", "updating")
    /\ UNCHANGED <<goal, handle, run, delivered>>

TrySetFeedbackEnd(t) ==
    /\ Goto(t, "updating", "idle")
    /\ req_feedback_' = TRUE
    /\ mutex_' = Nobody
    /\ UNCHANGED <<goal, req, req_execute_, req_result_, run, delivered>>

-----------------------------------------------------------------------------
(* runNonRealtime()                                                        *)

\* The order of the five blocks.
Following == [execute |-> "ABORTED", ABORTED |-> "CANCELED", CANCELED |-> "SUCCEEDED",
              SUCCEEDED |-> "feedback", feedback |-> "idle"]

RunBegin ==
    /\ stage = "idle" /\ mutex_ = Nobody
    /\ mutex_' = Runner
    /\ stage' = "execute"
    /\ UNCHANGED <<goal, handle, acting, pc, delivered>>

\* What was requested, and what gh_ must say, for each block.
Requested(s) ==
    CASE s = "execute" -> req_execute_
      [] s \in Outcome -> req[s]
      [] s = "feedback" -> req_feedback_

RunStates(s) ==
    CASE s \in {"ABORTED", "feedback"} -> {"EXECUTING"}   \* is_executing()
      [] s = "execute" -> {"ACCEPTED"}                    \* active, in no other state
      [] s = "CANCELED" -> Active                         \* is_active()
      [] s = "SUCCEEDED" -> (Outcome \cup Active) \ {"CANCELING"}

\* A mutant: feedback is published in every state.
RunAnyFeedback(s) == Requested(s) /\ (goal \in RunStates(s) \/ s = "feedback")

\* A mutant: gh_->execute() is not called.
RunNoExecute(s) == s # "execute" /\ Requested(s) /\ goal \in RunStates(s)

\* A mutant: a goal is canceled only while it is executing.
RunCancelExecuting(s) ==
    Requested(s) /\ goal \in RunStates(IF s = "CANCELED" THEN "ABORTED" ELSE s)

\* The conditions of the five blocks.
RunCondition(s) == Requested(s) /\ goal \in RunStates(s)

\* Go on with the next block; the mutex is left after the last one.
RunGoto(next) ==
    /\ stage' = next
    /\ acting' = FALSE
    /\ mutex_' = IF next = "idle" THEN Nobody ELSE mutex_

RunTest ==
    /\ stage # "idle" /\ ~acting
    /\ IF RunCondition(stage)
       THEN acting' = TRUE /\ UNCHANGED <<stage, mutex_>>
       ELSE RunGoto(Following[stage])
    /\ UNCHANGED <<goal, handle, pc, delivered>>

\* gh_->execute()
RunExecute ==
    /\ acting /\ stage = "execute" /\ goal \in LegalIn(stage)
    /\ goal' = "EXECUTING"
    /\ RunGoto(Following[stage])
    /\ UNCHANGED <<handle, pc, delivered>>

\* gh_->abort(), canceled(), succeed() with the stored result; the flag is cleared.
RunEnd ==
    /\ acting /\ stage \in Outcome /\ goal \in LegalIn(stage)
    /\ goal' = stage
    /\ delivered' = req_result_
    /\ req' = [req EXCEPT ![stage] = FALSE]
    /\ RunGoto(Following[stage])
    /\ UNCHANGED <<req_execute_, req_result_, req_feedback_, pc>>

\* gh_->publish_feedback(); req_feedback_ is kept.
RunFeedback ==
    /\ acting /\ stage = "feedback"
    /\ RunGoto("idle")
    /\ UNCHANGED <<goal, handle, pc, delivered>>

\* The call throws: the rest of the blocks is skipped and the flag stays set.
RunThrows ==
    /\ acting /\ goal \notin LegalIn(stage)
    /\ RunGoto("idle")
    /\ UNCHANGED <<goal, handle, pc, delivered>>

-----------------------------------------------------------------------------
(* Specification                                                           *)

RunSteps == RunBegin \/ RunTest \/ RunExecute \/ RunEnd \/ RunFeedback \/ RunThrows

ThreadSteps(t) ==
    \/ \E o \in Outcome : RequestLocked(t, o)
    \/ ExecuteLocked(t)
    \/ TrySetFeedbackEnd(t)

ThreadCalls(t) ==
    \/ \E o \in Outcome : Request(t, o)
    \/ Execute(t)
    \/ \E isset \in BOOLEAN : SetFeedback(t, isset)
    \/ TrySetFeedback(t)

Next ==
    \/ ClientCancels
    \/ RunSteps
    \/ \E t \in Threads : ThreadSteps(t) \/ ThreadCalls(t)

Safety == Init /\ [][Next]_vars

\* The timer calls runNonRealtime() again and again, and a begun call goes on.
\* mutex_ is a prio_inherit_mutex, and neither runNonRealtime() nor the feedback
\* calls keep it: whoever waits for it gets it when it is free again and again.
Fairness ==
    /\ WF_vars(RunSteps)
    /\ SF_vars(RunBegin)
    /\ \A t \in Threads : SF_vars(ThreadSteps(t))

Spec == Safety /\ Fairness

\* A controller that reacts to a cancel request with setCanceled().
Answers ==
    SF_vars(goal = "CANCELING" /\ \E t \in Threads : Request(t, "CANCELED"))

AnsweringSpec == Spec /\ Answers

-----------------------------------------------------------------------------
(* Properties                                                              *)

\* Types; mutex_ is held exactly where the code is inside it.
TypeOK ==
    /\ goal \in Active \cup Outcome
    /\ req \in [Outcome -> BOOLEAN]
    /\ req_execute_ \in BOOLEAN
    /\ req_result_ \in Outcome \cup {"null"}
    /\ req_feedback_ \in BOOLEAN
    /\ mutex_ \in Threads \cup {Runner, Nobody}
    /\ stage \in DOMAIN Following \cup {"idle"}
    /\ acting \in BOOLEAN
    /\ pc \in [Threads -> {"idle", "execute", "updating"} \cup Outcome]
    /\ delivered \in Outcome \cup {"null"}
    /\ mutex_ = Runner <=> stage # "idle"
    /\ \A t \in Threads : mutex_ = t <=> pc[t] = "updating"

\* The result a client receives is the one the controller made for the outcome
\* the client is told: setSucceeded() and setAborted() do not mix up their
\* results, although flag and result are tested and stored in separate steps.
\* (With one requesting thread.)
ResultMatchesOutcome == goal \in Outcome => delivered = goal

\* No feedback is sent for a goal whose result has been sent, and no message is
\* sent while trySetFeedback() writes it.
FeedbackIsSound ==
    stage = "feedback" /\ acting =>
        /\ goal \notin Outcome
        /\ \A t \in Threads : pc[t] # "updating"

\* A requested end of a goal is carried out, or the client cancels first.
RequestIsServed ==
    req["ABORTED"] \/ req["SUCCEEDED"] ~> goal \in Outcome \cup {"CANCELING"}

\* setCanceled() on a goal that is canceling ends it.
CancelIsServed == req["CANCELED"] /\ goal = "CANCELING" ~> goal \in Outcome

\* The test set_canceled: a goal the client cancels, and for which the controller
\* calls setCanceled(), comes to an end.
CancelingGoalEnds == goal = "CANCELING" /\ req_execute_ ~> goal \in Outcome

=============================================================================
