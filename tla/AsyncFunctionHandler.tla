----------------------- MODULE AsyncFunctionHandler -----------------------
(***************************************************************************)
(* realtime_tools::AsyncFunctionHandler<T>: a worker thread runs a user    *)
(* callback, once per trigger (SYNCHRONIZED) or in a cycle of its own that *)
(* can be paused and resumed (DETACHED).  Clients trigger, wait, pause,    *)
(* reset, start and stop.                                                  *)
(*                                                                         *)
(* async_mtx_ is held over several steps by the worker only: while wait()  *)
(* tests its predicate and while the callback runs (and, DETACHED, sleeps  *)
(* to the end of its period).  A critical section of a client is one step. *)
(* What is not protected by the mutex is a step of its own: the stores of  *)
(* stop_async_callback_ and pause_thread_, the reads of                    *)
(* async_exception_ptr_ and of thread_.joinable(), the notifications.      *)
(*                                                                         *)
(* Times, periods and return values are left out, but for the time of a    *)
(* SYNCHRONIZED trigger: the n-th accepted one has time n, and 0 is the    *)
(* uninitialised time.                                                     *)
(***************************************************************************)
EXTENDS Naturals

CONSTANTS
    Clients,          \* threads that use the handler
    May,              \* May[c]: the operations client c calls
    ParamSets,        \* the parameters init() may be given
    MaxTriggers       \* bound: number of accepted triggers

Operations == {"init", "start", "stop", "join", "trigger", "wait", "pause", "reset"}

\* AsyncFunctionHandlerParams as far as it matters: valid is a set clock and a
\* positive exec_rate, wait is wait_until_initial_trigger.
Params == [policy : {"SYNCHRONIZED", "DETACHED"}, valid : BOOLEAN, wait : BOOLEAN]

ASSUME ParamSetsAssumption == ParamSets \subseteq Params
ASSUME MaxTriggersAssumption == MaxTriggers \in Nat

\* The threads are expected to agree on one that starts, stops and joins.
ASSUME MayAssumption ==
    /\ May \in [Clients -> SUBSET Operations]
    /\ \A c, d \in Clients :
          c # d => May[c] \cap {"init", "start", "stop", "join"} = {}
                   \/ May[d] \cap {"init", "start", "stop", "join"} = {}

VARIABLES
    initialized,      \* async_function_ and trigger_predicate_ are set
    params_, thread_, \* thread_ : joinable()
    stop_async_callback_, trigger_in_progress_, pause_thread_,
    async_exception_ptr_,
    current_callback_time_,
    worker,           \* program counter of the worker thread
    initial,          \* the DETACHED worker is in its wait before the loop
    pc,               \* program counter of every client
    aborted,          \* std::terminate was called
    triggered,        \* number of accepted triggers, the time of the last one
    ran,              \* time of the last trigger whose callback ended
    dropped,          \* time of the last trigger discarded by a reset or a stop
    since,            \* triggered when a client began to wait
    quiet             \* the callback may not run before the next trigger

members == <<params_, thread_, initialized>>
request == <<trigger_in_progress_, current_callback_time_>>
flags   == <<stop_async_callback_, pause_thread_, async_exception_ptr_, request>>
counts  == <<triggered, ran, dropped>>
history == <<counts, since, quiet>>
vars    == <<members, flags, worker, initial, pc, aborted, history>>

WorkerPC == {"none", "begin", "while", "lock", "pred", "block", "wait", "test",
             "callback", "end", "notify", "done"}

ClientPC == {"idle", "rethrow", "check", "try", "notify", "resume", "wait_lock",
             "waiting", "waited", "pause_lock", "reset", "start_reset",
             "start_spawn", "stop_lock", "stop_notify", "join"}

Sync == params_.policy = "SYNCHRONIZED"

\* async_mtx_ is free.
Free == worker \notin {"pred", "block", "test", "callback", "end"}

Goto(c, from, to) == pc[c] = from /\ pc' = [pc EXCEPT ![c] = to]
WorkerGoto(from, to) == worker = from /\ worker' = to

\* A step that does nothing but move a client, the worker.
Move(c, from, to) ==
    Goto(c, from, to) /\ UNCHANGED <<members, flags, worker, initial, aborted, history>>
WorkerMove(from, to) ==
    WorkerGoto(from, to) /\ UNCHANGED <<members, flags, initial, pc, aborted, history>>

Init ==
    /\ initialized = FALSE
    /\ params_ = [policy |-> "SYNCHRONIZED", valid |-> FALSE, wait |-> TRUE]
    /\ thread_ = FALSE
    /\ stop_async_callback_ = FALSE
    /\ trigger_in_progress_ = FALSE
    /\ pause_thread_ = FALSE
    /\ async_exception_ptr_ = FALSE
    /\ current_callback_time_ = 0
    /\ worker = "none"
    /\ initial = FALSE
    /\ pc = [c \in Clients |-> "idle"]
    /\ aborted = FALSE
    /\ triggered = 0 /\ ran = 0 /\ dropped = 0
    /\ since = [c \in Clients |-> 0]
    /\ quiet = FALSE

-----------------------------------------------------------------------------
(* init(), start_thread()                                                  *)

\* init(callback, priority) and init(callback, predicate, priority): params_ and
\* pause_thread_ stay as they are.  The members init() writes are not protected,
\* so no other client is inside a call.
InitFunction(c) ==
    /\ "init" \in May[c] /\ \A d \in Clients : pc[d] = "idle"
    /\ ~thread_
    /\ initialized' = TRUE
    /\ UNCHANGED <<params_, thread_, flags, worker, initial, pc, aborted, history>>

\* init(callback, params): the result of validate() is not looked at.
InitParams(c, p) ==
    /\ "init" \in May[c] /\ \A d \in Clients : pc[d] = "idle"
    /\ ~thread_
    /\ initialized' = TRUE
    /\ params_' = p
    /\ pause_thread_' = p.wait
    /\ quiet' = p.wait
    /\ UNCHANGED <<thread_, stop_async_callback_, async_exception_ptr_, request, worker,
                   initial, pc, aborted, counts, since>>

\* start_thread(): nothing happens when the thread is running.
Start(c) ==
    /\ "start" \in May[c] /\ initialized /\ ~thread_
    /\ Move(c, "idle", "start_reset")

\* reset_variables() under the lock; a trigger in progress is forgotten.
ResetVariables ==
    /\ Free
    /\ stop_async_callback_' = FALSE
    /\ trigger_in_progress_' = FALSE
    /\ current_callback_time_' = 0
    /\ async_exception_ptr_' = FALSE
    /\ dropped' = IF trigger_in_progress_ THEN triggered ELSE dropped
    /\ UNCHANGED <<members, pause_thread_, worker, initial, aborted, triggered, ran,
                   since, quiet>>

StartReset(c) == Goto(c, "start_reset", "start_spawn") /\ ResetVariables

StartSpawn(c) ==
    /\ Goto(c, "start_spawn", "idle")
    /\ thread_' = TRUE
    /\ worker' = "begin"
    /\ UNCHANGED <<params_, initialized, flags, initial, aborted, history>>

-----------------------------------------------------------------------------
(* trigger_async_callback()                                                *)

\* The first read of async_exception_ptr_ (it throws when not initialized).
Trigger(c) ==
    /\ "trigger" \in May[c] /\ initialized
    /\ Move(c, "idle", IF async_exception_ptr_ THEN "rethrow" ELSE "check")

\* The second read, by rethrow_exception; it terminates the program on a null
\* pointer.  The exception leaves trigger_async_callback().
Rethrow(c) ==
    /\ Goto(c, "rethrow", "idle")
    /\ aborted' = ~async_exception_ptr_
    /\ UNCHANGED <<members, flags, worker, initial, history>>

\* DETACHED: return at once when not paused.  SYNCHRONIZED: throw when the
\* thread is not running.
TriggerCheck(c) ==
    Move(c, "check", CASE ~Sync /\ pause_thread_ -> "resume"
                       [] Sync /\ thread_ -> "try"
                       [] OTHER -> "idle")

\* The block of the scoped lock.
AcceptTrigger(c) ==
    /\ Free /\ triggered < MaxTriggers
    /\ Goto(c, "try", "notify")
    /\ trigger_in_progress_' = TRUE
    /\ current_callback_time_' = triggered + 1
    /\ triggered' = triggered + 1
    /\ quiet' = FALSE
    /\ UNCHANGED <<members, stop_async_callback_, pause_thread_, async_exception_ptr_,
                   worker, initial, aborted, ran, dropped, since>>

\* SYNCHRONIZED: the try_lock, no trigger in progress, and the user's predicate.
TriggerTry(c) == ~trigger_in_progress_ /\ AcceptTrigger(c)

\* A mutant: the time of a refused trigger is stored all the same.
TriggerRefusedStores(c) ==
    /\ Goto(c, "try", "idle")
    /\ current_callback_time_' = triggered + 1
    /\ UNCHANGED <<members, stop_async_callback_, pause_thread_, async_exception_ptr_,
                   trigger_in_progress_, worker, initial, aborted, history>>

\* One of the three was not the case: return false.
TriggerRefused(c) == Move(c, "try", "idle")

\* DETACHED: clear pause_thread_ under the lock; 1'000'000'000 / exec_rate and
\* clock->now() end the program when exec_rate is 0 or clock is null.
TriggerResume(c) ==
    /\ Free
    /\ Goto(c, "resume", "notify")
    /\ pause_thread_' = FALSE
    /\ aborted' = ~params_.valid
    /\ quiet' = FALSE
    /\ UNCHANGED <<members, stop_async_callback_, async_exception_ptr_, request, worker,
                   initial, counts, since>>

\* async_callback_condition_.notify_one(): only the worker waits on it.
NotifyOne == worker' = IF worker = "wait" THEN "lock" ELSE worker

\* A mutant: the worker is not notified.
TriggerSilent(c) == Move(c, "notify", "idle")

TriggerNotify(c) ==
    /\ Goto(c, "notify", "idle")
    /\ NotifyOne
    /\ UNCHANGED <<members, flags, initial, aborted, history>>

-----------------------------------------------------------------------------
(* reset_variables(), wait_for_trigger_cycle_to_finish(), pause_execution() *)

Reset(c) == "reset" \in May[c] /\ Move(c, "idle", "reset")

ResetLock(c) == Goto(c, "reset", "idle") /\ ResetVariables

\* is_running() (false is returned otherwise).
Wait(c) ==
    /\ "wait" \in May[c] /\ thread_
    /\ Goto(c, "idle", "wait_lock")
    /\ since' = [since EXCEPT ![c] = triggered]
    /\ UNCHANGED <<members, flags, worker, initial, aborted, counts, quiet>>

\* pause_execution(), SYNCHRONIZED: a wait after the store.
PauseSync(c) ==
    /\ "pause" \in May[c] /\ Sync
    /\ pause_thread_' = TRUE
    /\ Goto(c, "idle", IF thread_ THEN "wait_lock" ELSE "idle")
    /\ since' = [since EXCEPT ![c] = IF thread_ THEN triggered ELSE 0]
    /\ UNCHANGED <<members, stop_async_callback_, async_exception_ptr_, request, worker,
                   initial, aborted, counts, quiet>>

\* A mutant: cycle_end_condition_ is waited for without a predicate.
WaitLockOnce(c) == Free /\ Move(c, "wait_lock", "waited")

\* With the lock, the predicate of wait(): block, or return true.
WaitLock(c) ==
    /\ Free
    /\ Move(c, "wait_lock", IF trigger_in_progress_ THEN "waiting" ELSE "waited")

WaitSpurious(c) == Move(c, "waiting", "wait_lock")

WaitReturn(c) ==
    /\ Goto(c, "waited", "idle")
    /\ since' = [since EXCEPT ![c] = 0]
    /\ UNCHANGED <<members, flags, worker, initial, aborted, counts, quiet>>

\* pause_execution(), DETACHED: pause_thread_ is stored before the lock is taken.
PauseDetached(c) ==
    /\ "pause" \in May[c] /\ ~Sync /\ thread_
    /\ pause_thread_' = TRUE
    /\ Goto(c, "idle", "pause_lock")
    /\ UNCHANGED <<members, stop_async_callback_, async_exception_ptr_, request, worker,
                   initial, aborted, history>>

\* Unless a trigger came in between, the callback is now paused.
PauseReturn(c) ==
    /\ Goto(c, "pause_lock", "idle")
    /\ quiet' = pause_thread_
    /\ UNCHANGED <<members, flags, worker, initial, aborted, counts, since>>

\* The lock is taken and left.
PauseLock(c) == Free /\ PauseReturn(c)

-----------------------------------------------------------------------------
(* stop_thread(), join_async_callback_thread()                             *)

\* is_running(), then the store before the lock.
Stop(c) ==
    /\ "stop" \in May[c] /\ thread_
    /\ Goto(c, "idle", "stop_lock")
    /\ stop_async_callback_' = TRUE
    /\ UNCHANGED <<members, pause_thread_, async_exception_ptr_, request, worker, initial,
                   aborted, history>>

\* A mutant: the lock is not taken.
StopWithoutLock(c) == Move(c, "stop_lock", "stop_notify")

\* The lock is taken and left.
StopLock(c) == Free /\ Move(c, "stop_lock", "stop_notify")

StopNotify(c) ==
    /\ Goto(c, "stop_notify", "join")
    /\ NotifyOne
    /\ UNCHANGED <<members, flags, initial, aborted, history>>

\* join_async_callback_thread() on a thread that nobody has told to stop.
JoinThread(c) == "join" \in May[c] /\ thread_ /\ Move(c, "idle", "join")

\* thread_.join()
Join(c) ==
    /\ worker = "done"
    /\ Goto(c, "join", "idle")
    /\ thread_' = FALSE
    /\ worker' = "none"
    /\ UNCHANGED <<params_, initialized, flags, initial, aborted, history>>

-----------------------------------------------------------------------------
(* The worker: execute_synchronized_callback() and                         *)
(* execute_detached_callback()                                             *)

\* DETACHED: an exception that leaves the thread ends the program; a paused
\* worker waits before it enters its loop.
WorkerBegin ==
    /\ aborted' = (~Sync /\ ~params_.valid)
    /\ initial' = (~Sync /\ pause_thread_)
    /\ WorkerGoto("begin", IF initial' THEN "lock" ELSE "while")
    /\ UNCHANGED <<members, flags, pc, history>>

\* while (!stop_async_callback_), without the lock.
WorkerWhile == WorkerMove("while", IF stop_async_callback_ THEN "done" ELSE "lock")

WorkerLock == WorkerMove("lock", "pred")

\* wait(), with the lock, on a predicate whose value is go.  The wait before the
\* loop ends with the lock released.
WorkerWaits(go) ==
    /\ WorkerGoto("pred", CASE ~go -> "block"
                            [] go /\ initial -> "while"
                            [] go /\ ~initial -> "test")
    /\ initial' = (initial /\ ~go)
    /\ UNCHANGED <<members, flags, pc, aborted, history>>

\* A mutant: the cycle of a DETACHED worker ignores pause_thread_.
WorkerIgnoresPause == WorkerWaits(stop_async_callback_ \/ ~Sync \/ trigger_in_progress_)

WorkerPredicate ==
    WorkerWaits(\/ stop_async_callback_
                \/ IF Sync THEN trigger_in_progress_ ELSE ~pause_thread_)

WorkerBlock == WorkerMove("block", "wait")

WorkerSpurious == WorkerMove("wait", "lock")

\* if (!stop_async_callback_): a second read.
WorkerTest == WorkerMove("test", IF stop_async_callback_ THEN "end" ELSE "callback")

\* The callback returns or throws.
WorkerCallback ==
    /\ WorkerGoto("callback", "end")
    /\ async_exception_ptr_' \in {async_exception_ptr_, TRUE}
    /\ ran' = IF Sync THEN current_callback_time_ ELSE ran
    /\ UNCHANGED <<members, stop_async_callback_, pause_thread_, request, initial, pc,
                   aborted, triggered, dropped, since, quiet>>

\* trigger_in_progress_ = false, whether the callback has run or not; unlock.
WorkerEnd ==
    /\ WorkerGoto("end", "notify")
    /\ trigger_in_progress_' = FALSE
    /\ dropped' = IF trigger_in_progress_ /\ ran # triggered THEN triggered ELSE dropped
    /\ UNCHANGED <<members, stop_async_callback_, pause_thread_, async_exception_ptr_,
                   current_callback_time_, initial, pc, aborted, triggered, ran, since,
                   quiet>>

\* A mutant: the end of the cycle is not notified.
WorkerNotifyNobody == WorkerMove("notify", "while")

\* cycle_end_condition_.notify_all()
WorkerNotify ==
    /\ WorkerGoto("notify", "while")
    /\ pc' = [c \in Clients |-> IF pc[c] = "waiting" THEN "wait_lock" ELSE pc[c]]
    /\ UNCHANGED <<members, flags, initial, aborted, history>>

-----------------------------------------------------------------------------
(* Specification                                                           *)

WorkerSteps ==
    \/ WorkerBegin \/ WorkerWhile \/ WorkerLock \/ WorkerPredicate \/ WorkerBlock
    \/ WorkerTest \/ WorkerCallback \/ WorkerEnd \/ WorkerNotify

\* The rest of a call that has begun.
ClientSteps(c) ==
    \/ StartReset(c) \/ StartSpawn(c)
    \/ Rethrow(c) \/ TriggerCheck(c) \/ TriggerTry(c) \/ TriggerRefused(c)
    \/ TriggerResume(c) \/ TriggerNotify(c)
    \/ ResetLock(c) \/ WaitLock(c) \/ WaitReturn(c) \/ PauseLock(c)
    \/ StopLock(c) \/ StopNotify(c) \/ Join(c)

ClientCalls(c) ==
    \/ InitFunction(c) \/ \E p \in ParamSets : InitParams(c, p)
    \/ Start(c) \/ Trigger(c) \/ Reset(c) \/ Wait(c) \/ PauseSync(c)
    \/ PauseDetached(c) \/ Stop(c) \/ JoinThread(c)

Running ==
    \/ WorkerSteps
    \/ WorkerSpurious
    \/ \E c \in Clients : ClientSteps(c) \/ ClientCalls(c) \/ WaitSpurious(c)

\* After std::terminate nothing moves.
Next ==
    \/ ~aborted /\ Running
    \/ aborted /\ UNCHANGED vars

Safety == Init /\ [][Next]_vars

\* Every runnable thread runs.  async_mtx_ is not assumed to be fair: the worker
\* may take it again and again before a client that is blocked on it.  Spurious
\* wake-ups do not go on for ever.
Fairness ==
    /\ WF_vars(~aborted /\ WorkerSteps)
    /\ \A c \in Clients : WF_vars(~aborted /\ ClientSteps(c))
    /\ <>[][~WorkerSpurious]_vars

Spec == Safety /\ Fairness

-----------------------------------------------------------------------------
(* Properties                                                              *)

\* Types; the time a callback is given is the one of an accepted trigger.
TypeOK ==
    /\ initialized \in BOOLEAN /\ params_ \in Params /\ thread_ \in BOOLEAN
    /\ stop_async_callback_ \in BOOLEAN
    /\ trigger_in_progress_ \in BOOLEAN
    /\ pause_thread_ \in BOOLEAN
    /\ async_exception_ptr_ \in BOOLEAN
    /\ triggered \in 0 .. MaxTriggers
    /\ current_callback_time_ \in 0 .. triggered
    /\ ran \in 0 .. triggered /\ dropped \in 0 .. triggered
    /\ worker \in WorkerPC /\ initial \in BOOLEAN
    /\ pc \in [Clients -> ClientPC]
    /\ aborted \in BOOLEAN
    /\ since \in [Clients -> 0 .. triggered]
    /\ quiet \in BOOLEAN

\* SYNCHRONIZED: the callback runs for the last accepted trigger, with the time
\* of that trigger, and for no trigger that ran before, was dropped by
\* reset_variables() or was left over by a stopped worker.  The trigger before it
\* was not overwritten: it has run or was dropped.
CallbackOncePerTrigger ==
    worker = "callback" /\ Sync =>
        /\ trigger_in_progress_
        /\ current_callback_time_ = triggered
        /\ ran < triggered /\ dropped < triggered
        /\ triggered - 1 \in {ran, dropped}

\* wait_for_trigger_cycle_to_finish() returns true only when every trigger that
\* was accepted before the call has run or was dropped by a reset or a stop.
WaitMeansFinished ==
    \A c \in Clients :
        pc[c] = "waited" => ran >= since[c] \/ dropped >= since[c]

\* DETACHED: from the return of pause_execution(), or from init() with
\* wait_until_initial_trigger, to the next trigger no callback runs.
PauseIsQuiet == quiet /\ ~Sync => worker # "callback"

\* stop_thread() returns: the worker sees the request wherever it is, although
\* the store is not protected and async_mtx_ need not be fair.
StopTerminates ==
    \A c \in Clients : pc[c] \in {"stop_lock", "stop_notify"} ~> pc[c] = "idle" \/ aborted

\* pause_execution() of a DETACHED handler returns even if the worker is always
\* first to take the mutex, unless the handler is resumed in the meantime.
PauseTerminates ==
    \A c \in Clients :
        pc[c] = "pause_lock" ~> pc[c] = "idle" \/ ~pause_thread_ \/ aborted

\* A SYNCHRONIZED trigger that was accepted is served as long as nobody stops.
TriggerIsServed ==
    trigger_in_progress_ /\ thread_
        ~> ~trigger_in_progress_ \/ stop_async_callback_ \/ aborted

\* A DETACHED worker that runs and is not paused calls the callback again and
\* again.
DetachedCycles ==
    []<>(\/ worker = "callback" \/ aborted \/ Sync
         \/ pause_thread_ \/ stop_async_callback_ \/ ~thread_)

\* A client blocked in wait_for_trigger_cycle_to_finish() is woken up: the cycle
\* it waits for comes to an end and the end is notified.
WaiterIsNotified ==
    \A c \in Clients : pc[c] = "waiting" ~> pc[c] # "waiting" \/ aborted

-----------------------------------------------------------------------------
(* What the documentation says and the code does not do; see README.md.    *)

\* "If an exception is caught in the async callback thread, it will be rethrown
\* in the current thread": with valid parameters the program never terminates.
ExceptionIsRethrown == aborted => ~params_.valid

=============================================================================
