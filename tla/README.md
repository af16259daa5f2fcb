# A TLA+ model of realtime_tools

`realtime_tools` is a C++ library for ROS 2 controllers. Each of its classes lets a
realtime thread exchange something with ordinary threads without being held up by
them: a message to publish, a callback to run, the end of an action goal, a value, a
queue. Each is a small concurrent algorithm in one header, and that is what these
modules model: the threads, the atomics, the mutexes and condition variables, and what
the users of the class may call at any moment.

Paths such as `realtime_publisher.hpp:257` are relative to
`src/realtime_tools/include/realtime_tools/`.

## 1. Inventory

| Component | State | Operations | What is hard |
|---|---|---|---|
| `RealtimePublisher` | `turn_`, `keep_running_`, `is_running_` (atomics), `msg_` under `msg_mutex_`, a condition variable, `thread_` | `try_publish`, `can_publish`, `get_mutex`, `stop`, construction, destruction, `publishingLoop` | the turn is passed between threads through an atomic and a mutex; a stop that comes between the test of the wait predicate and the wait; destruction |
| `AsyncFunctionHandler` | `thread_`, `stop_async_callback_`, `trigger_in_progress_`, `pause_thread_`, `async_exception_ptr_`, `current_callback_time_`, `async_mtx_`, two condition variables | `init`, `start_thread`, `trigger_async_callback`, `wait_for_trigger_cycle_to_finish`, `pause_execution`, `reset_variables`, `stop_thread`, `join_async_callback_thread`, two worker loops | members that are read and written with and without the mutex; exceptions carried from thread to thread; stop, pause, reset and trigger in any order |
| `AsyncFunctionHandlerParams`, `AsyncSchedulingPolicy` | parameters | `initialize`, `validate`, the policy from a string | `initialize` throws half way and is called again; what `validate` returns is ignored; casts to `int` |
| `RealtimeServerGoalHandle` | `req_abort_`, `req_cancel_`, `req_succeed_`, `req_execute_`, the stored result and feedback, `mutex_`, the goal handle `gh_` of rclcpp_action | `execute`, `setAborted`, `setCanceled`, `setSucceeded`, `setFeedback`, `trySetFeedback`, `runNonRealtime` | flags tested outside the mutex; the action client changes the state of the goal at any moment; calls of `gh_` throw |
| `mutex` (`prio_inherit_mutex`, `prio_inherit_recursive_mutex`) | a robust pthread mutex | `lock`, `try_lock`, `unlock` | the owner dies; the owner locks again |
| `RealtimeThreadSafeBox` | `value_`, `lock_` | `set`, `get`, `try_set`, `try_get`, copy and move, `get_mutex` | two locks in an assignment, functions called with the lock held |
| `RealtimeBuffer` | two cells, two pointers, `new_data_available_`, `mutex_` | `readFromRT`, `readFromNonRT`, `writeFromNonRT`, `initRT`, `reset` | pointers used after the mutex was left |
| `LockFreeQueueBase` | a boost lock-free queue | `push`, `bounded_push`, `pop`, `get_latest` | operations made of several atomic ones; nodes that run out |
| `realtime_helpers` | none of its own; the attributes of threads, `errno`, memory locks | `configure_sched_fifo`, `configure_sched_rr`, `set_thread_affinity`, `set_current_thread_name`, `lock_memory` | requests refused by the system; errors returned or in `errno`; two threads that set the affinity of one |

The components do not call each other, with two exceptions: `RealtimeThreadSafeBox` is
built on `mutex`, and `AsyncFunctionHandler` reads its parameters and calls
`realtime_helpers` for the priority, the affinity and the name of its thread. What they interact with are their users' threads, and
for the goal handle and the publisher the ROS 2 objects `gh_` and `publisher_`.

## 2. Modules

| Module | Models |
|---|---|
| `Mailbox` | abstract: a one-message mailbox that can be closed |
| `RealtimePublisher` | `realtime_publisher.hpp` |
| `AsyncFunctionHandler`, `MCAsyncFunctionHandler` | `async_function_handler.hpp`: the handler, its worker and concurrent clients, without time |
| `DetachedCycle` | the DETACHED loop of the same file with its times |
| `AsyncFunctionHandlerParams` | the parameters: `initialize`, `validate` as functions |
| `RealtimeHelpers` | `realtime_helpers.cpp`: what each call makes of the threads of a process |
| `AsyncThreadSetup`, `MCAsyncThreadSetup` | composes the last two with `init`, `start_thread` and the beginning of the worker |
| `RealtimeServerGoalHandle` | `realtime_server_goal_handle.hpp` |
| `Mutex` | `mutex.hpp`: what `lock`, `try_lock` and `unlock` make of a mutex |
| `Registers` | abstract: boxes as atomic registers |
| `RealtimeThreadSafeBox`, `MCRealtimeThreadSafeBox` | `realtime_thread_safe_box.hpp` over `Mutex` |
| `RealtimeBuffer` | `realtime_buffer.hpp` |
| `LockFreeQueue` | `lock_free_queue.hpp` |
| `RealtimePublisherProofs`, `AsyncFunctionHandlerProofs`, `DetachedCycleProofs`, `AsyncThreadSetupProofs`, `RealtimeServerGoalHandleProofs`, `RealtimeThreadSafeBoxProofs`, `RealtimeBufferProofs`, `LockFreeQueueProofs` | the theorems about the module they are named after (section 5) |

Variables carry the names of the members (with their trailing underscore). Every thread
has a program counter, `pc[t]` for the users of the object and `loop`, `worker` or
`stage` for the object's own thread. A step is what a thread does between two points
where another thread could see a difference. A critical section is one step where all
accesses to what it changes are inside the same mutex, and several steps where they are
not. Variables that no member corresponds to are history variables (`accepted`, `ran`,
`seen`, ...); they record what the properties speak of and no guard reads them, except to
bound the run.

**RealtimePublisher.** Construction (`Init`, `Constructed`), the calls of the clients and
the destructor are actions of the clients; `Loop...` are the steps of `publishingLoop`.
Waiting on the condition variable is `LoopPredicate`, `LoopBlock`, the wake-up (a
notification, or `LoopSpurious`) and `LoopRelock`. `try_publish` may be called by several
threads, after `stop`, and before the loop has started. The destructor is entered when no
other thread is inside a call. `publisher_->publish` is an append to `published`.

**AsyncFunctionHandler.** `May[c]` says what client `c` calls, so that each run states the
threads it is about. Only one client may `init`, `start`, `stop` and `join`, as `thread_`
is not protected at all. The callback may throw. `aborted` stands for `std::terminate`
and for exceptions the code throws on purpose out of a misuse. `triggered` counts accepted
triggers, and the n-th has time n.

**DetachedCycle.** The loop of `execute_detached_callback` with `period`,
`next_iteration_time`, `previous_time_` and the overrun arithmetic. A time is kept relative
to now, so `Tick` moves all of them back and the state space is finite; times of the past
are cut off where nothing tells them apart any more (`Far`, `Ago`). Time may pass between
any two steps. `ceil(time_diff / cm_period)` is exact up to a floating point error that can
only add one where the quotient is an integer (below a million missed cycles, where a double
still tells a nanosecond), and its cast to `int` gives the smallest or the largest one where it
does not fit. `grid` is a history variable: the schedule the loop started with.

**AsyncFunctionHandlerParams, RealtimeHelpers, AsyncThreadSetup.** A node is a function from
the parameters it has to their values, which are wider than an `int`. `Init` of
`RealtimeHelpers` chooses the machine: which processors are online, which of them the
process may use, its privileges and limits. The results of `sched_setscheduler`,
`pthread_setaffinity_np` and `mlockall` are external and follow from these; `errno` is kept
per thread and only changed by calls that set it. In `AsyncThreadSetup` each call of the
new thread is a step, between which the owner may act. An exception that leaves the worker
ends the program (`aborted`).

**RealtimeServerGoalHandle.** `goal` is the state machine of rclcpp_action, with the calls
that throw when the goal has changed between `runNonRealtime`'s test and its call.

**Mutex, RealtimeThreadSafeBox.** The results of the pthread functions (`EBUSY`,
`EOWNERDEAD`, `EDEADLK`, `ENOTRECOVERABLE`) are external; `Lock` and `Unlock` are what the
wrapper does with them. A value has two halves that are copied in two steps, so that a
copy another thread interferes with is seen. A user of `get_mutex` may end with the mutex
locked. `Init` chooses the type of the mutexes. A function passed to `set` or `get` may call
the box again before it reads or writes, and may throw at any time, as the copy of a value
may; what it has written by then stays in the box (`CopyThrows`).

**RealtimeBuffer.** Values are numbered, and have two halves. Two cells, two pointers.
`initRT` and `reset` take no lock, so they are modelled as called while the buffer is idle.

**LockFreeQueue.** `Init` chooses the kind of queue. The boost queue is external. For the MPMC
queue it is a sequence and a number of nodes: a push takes a free node in one step
(`Allocate`), or fails if there is none, and links it to the queue in a second (`Link`); a pop
takes the element in one step and gives its node back in a second (`Release`). So the queue
may refuse a push and be empty at the same time. An element has the number of its linking. The
SPSC queue is a ring whose only producer pushes in one step. `raced` is a history variable:
the producers in `bounded_push` since whose pop another producer has taken a node.

## 3. Runs

Passing runs:

| Run | Instance | Shows |
|---|---|---|
| `publisher` | 2 clients, one of them the owner, 2 messages, 3 hand-overs | `TypeOK`, `HandoffOrder`, `ReadyIsStable`, `JoinNeverBlocks`, `ImplementsMailbox` (with delivery), `DestructorTerminates`, `TurnComesBack` |
| `async_safety` | 2 clients, all operations, all parameters, 3 triggers | `TypeOK`, `CallbackOncePerTrigger`, `WaitMeansFinished`, `PauseIsQuiet` |
| `async_live` | an owner and a realtime loop, 2 triggers | `StopTerminates`, `PauseTerminates`, `TriggerIsServed`, `DetachedCycles`, `WaiterIsNotified` |
| `goal` | a controller, a thread that sends feedback, the runner, an action client | `TypeOK`, `ResultMatchesOutcome`, `FeedbackIsSound`, `RequestIsServed`, `CancelIsServed` |
| `box` | 2 threads, 2 boxes with mutexes of either type, `a = b` and `a = a` | `TypeOK`, `LockNeverFails`, `ImplementsRegisters`, `CallsEnd` |
| `buffer` | the realtime thread, a writer, a thread that writes and reads, 3 writes | `TypeOK`, `RtReadsWhole`, `RtNeverGoesBack`, `NonRtReadsLast`, `RtGetsLast` |
| `queue` | MPMC: 2 `bounded_push` producers, 1 `push` producer, 1 consumer, 4 nodes; SPSC: the last two | `TypeOK` (order of the elements, nodes), `BoundedPushSucceeds`, `LatestIsLast`, `NewestSurvives` |
| `cycle` | a second of 12 units, rates that divide it and that do not, an `int` up to 4 | `TypeOK` (no drift, no sleep longer than a period), `CallbackSpacing` |
| `setup` | 3 machines, 8 nodes, `initialize` twice, 2 calls of the owner to `realtime_helpers`, an `int` of 8 bits | `TypeOK`, `RetryEqualsFresh`, `ValidatedNeverAborts`, `WorkerAsConfigured` |

Bounds, and why they are enough. Three hand-overs are one that is being sent, one that is
accepted meanwhile and one that is refused or follows; the owner publishes too, so two
clients compete, and the proofs cover any number. Three triggers are one that ran, one that was
dropped and one that runs. Three writes fill both cells and one of them again. In the queue there
is a node for every thread, which `BoundedPushSucceeds` needs, and the bound on the pushes is
twice the number of nodes, so that it is full, empty and full again. In the
boxes one value and the value that was moved from are enough to tell halves apart. Where a
number of calls is not bounded by the state (polling, pausing, waiting, resetting, reading)
there is no bound. In `cycle` the rates 5 and 7 do not divide the second, a pause or a
callback may last long enough for the number of missed cycles to leave the `int`, and time
itself is not bounded. In `setup` a second `initialize` meets what the first left behind,
and two calls of the owner are one before the worker starts (which it inherits from) and one
that races it.

Runs that find a difference between the code and what its documentation, a comment or a
test says (each is a finding in `PROJECT.json`, with the quotation):

| Run | Property | What happens |
|---|---|---|
| `async_rethrow` | `ExceptionIsRethrown` | the exception pointer is tested and read without the mutex and is null the second time |
| `goal_cancel` | `CancelingGoalEnds` | a request to succeed that was tested before the client cancelled, and is stored or still pending after it, keeps the goal in CANCELING for ever |
| `box_assign` | `LockIsReleased` | `a = b` and `b = a` in two threads lock each other out |

The models also have these behaviours, for which no run is kept; each was reproduced with
TLC by checking the statement in parentheses:

- `try_publish` returns true and the message is not published, because `stop` came before
  the loop sent it or before the call (`loop = "done" => accepted = published`;
  `realtime_publisher.hpp:153`: "true if the message was successfully published");
- `reset_variables`, which the triggering thread calls after an exception, undoes the request
  of `stop_thread`, whose join never returns (`StopTerminates` with `May <- MayRecover`;
  `async_function_handler.hpp:520`: "it will notify the async thread to stop and then joins
  the async thread");
- a trigger is accepted after the worker has left its loop, and a third thread that waits
  for it waits for ever (`WaiterIsNotified` with three clients that stop, trigger and wait;
  `async_function_handler.hpp:421`: "it will wait for the current async method call to
  finish");
- `reset_variables` ends a trigger without notifying who waits for it (`WaiterIsNotified`
  with a third client that waits while the realtime loop resets;
  `async_function_handler.hpp:411`);
- `is_paused` is true while a SYNCHRONIZED callback runs (`pause_thread_ => worker #
  "callback"`; `async_function_handler.hpp:490`);
- a DETACHED handler with `wait_until_initial_trigger` runs its callback although its
  predicate was never called (`worker = "callback" /\ params_.wait => triggered > 0`;
  `async_function_handler.hpp:124`);
- `bounded_push` drops an element though a consumer has made room (`lock_free_queue.hpp:203`:
  "pops the oldest data if the queue is full"), and takes the last element away from a
  `get_latest` that is emptying the queue, which then returns an older one
  (`lock_free_queue.hpp:230`: "returns the last element of the queue"). What remains true
  is `NewestSurvives`;
- `bounded_push` is refused although it has dropped an element, because another producer took
  the node (`pc[p] = "again" => ~Full` for every `p`), and with fewer nodes than threads
  although nobody took one since its pop: the others hold all nodes, unlinked or popped
  (`BoundedPushSucceeds` with `Capacity = 3`);
- the message of a refused affinity names another error, or success: it is chosen by `errno`,
  which `pthread_setaffinity_np` does not set (`stage = "name" /\ ~answer[Worker].ok =>
  answer[Worker].message \in {answer[Worker].error, "invalid core numbers"}`;
  `realtime_helpers.cpp:188`);
- `validate` returns false instead of throwing for an unknown policy when the priority is
  out of range as well (`~PriorityOk(params_) => params_.scheduling_policy # "UNKNOWN"`;
  `async_function_handler.hpp:134`: "@throws std::runtime_error if the scheduling policy is
  UNKNOWN"), and `init`, which ignores what it returns, goes on;
- `initialize` appends the cores of every call, so that a retry has some twice and a core
  that is no longer configured stays (`RetryEqualsFresh` with equality of the cores;
  `async_function_handler.hpp:198`); with a node whose list has become empty the worker is
  still pinned to the cores of the earlier call (`RetryEqualsFresh` with such a node;
  `async_function_handler.hpp:194`);
- without `cpu_affinity_cores` the worker has the processors of the thread that started it,
  which may be one (`cores = << >> => attr[Worker].cpus = machine.allowed`;
  `async_function_handler.hpp:113`: "the thread will not be pinned to any CPU core");
- two callbacks in one period after an overrun, for a rate that does not divide a second or
  when the number of missed cycles is not an `int` (`CallbackSpacing` without its premises).

Deadlock is checked in every passing run. States in which everything is over (the publisher
destroyed, all threads ended) stutter explicitly. `box_assign` does not check it, as the
deadlock is its subject. In `cycle` time can always pass, so there it says nothing.

## 4. Fairness

- A thread that can go on goes on (weak fairness of the object's own thread and of every
  call that has begun). Nobody is obliged to call anything, and no spurious wake-up has to
  happen.
- `RealtimePublisher`: whoever is blocked on `msg_mutex_` gets it if it is free again and
  again (strong fairness of the loop's and of `stop`'s lock). Its critical sections are
  short and its clients do not hold it between calls. `try_publish` only tries and needs
  nothing.
- `AsyncFunctionHandler`: the mutex is not assumed to be fair, as the DETACHED worker gives
  it up only to take it again. That `stop_thread` and `pause_execution` return all the same
  is what the run shows. Only finitely many wake-ups of the worker are spurious.
- `RealtimeServerGoalHandle`: `runNonRealtime` is called again and again, by a timer, and
  gets the mutex; a call of the controller that has begun gets it too. `goal_cancel` adds a
  controller that answers a cancel request with `setCanceled`, the situation of the test it
  quotes.
- `RealtimeThreadSafeBox`: a waiter gets a mutex that is released again and again. These
  are priority inheriting mutexes, which the kernel hands to a waiter.
- `RealtimeBuffer`: the realtime thread reads in every cycle, and a write that has begun
  ends. Only finitely many writes happen (`MaxWrites`), so the last value is defined. The
  realtime thread only tries the mutex; that it finds it free at some time is a premise of
  `RtGetsLast`, not an assumption.
- `LockFreeQueue`, `DetachedCycle`, `AsyncThreadSetup`: safety only. That the DETACHED loop goes
  on and can be stopped is shown by `async_live`, without time.

## 5. Proofs

Every module with a specification of its own has a proof module, and every safety
invariant, the action property and both refinements that the runs check are proved there
without the bounds of the runs: for any sets of threads, messages, values, boxes, nodes and
machines and for any bound on the number of calls.

| Proof module | Theorems (property) |
|---|---|
| `RealtimePublisherProofs` | `TypeCorrect`, `HandoffCorrect` (`HandoffOrder`), `ReadyCorrect` (`ReadyIsStable`), `JoinCorrect` (`JoinNeverBlocks`), `RefinesMailbox` (safety part of `ImplementsMailbox`) |
| `AsyncFunctionHandlerProofs` | `TypeCorrect`, `CallbackCorrect` (`CallbackOncePerTrigger`), `WaitCorrect` (`WaitMeansFinished`), `PauseCorrect` (`PauseIsQuiet`) |
| `DetachedCycleProofs` | `TypeCorrect` (no drift, no sleep longer than a period), `SpacingCorrect` (`CallbackSpacing`, an action property) |
| `AsyncThreadSetupProofs` | `TypeCorrect`, `RetryCorrect` (`RetryEqualsFresh`), `ValidatedCorrect` (`ValidatedNeverAborts`), `ConfiguredCorrect` (`WorkerAsConfigured`) |
| `RealtimeServerGoalHandleProofs` | `TypeCorrect`, `ResultCorrect` (`ResultMatchesOutcome`), `FeedbackCorrect` (`FeedbackIsSound`) |
| `RealtimeThreadSafeBoxProofs` | `TypeCorrect`, `LocksCorrect` (`LockNeverFails`), `RegistersCorrect` (`ImplementsRegisters`) |
| `RealtimeBufferProofs` | `TypeCorrect`, `WholeCorrect` (`RtReadsWhole`), `NoStepBack` (`RtNeverGoesBack`), `LastCorrect` (`NonRtReadsLast`) |
| `LockFreeQueueProofs` | `TypeCorrect`, `PushCorrect` (`BoundedPushSucceeds`), `NewestCorrect` (`NewestSurvives`), `LatestCorrect` (`LatestIsLast`) |

All follow one pattern. `IInv` is the inductive invariant, a conjunction of named parts;
`InitIInv` and `NextIInv` (one step or one lemma per action) make it an invariant
(`Invariance`), and each theorem follows from it. It was checked by TLC on the instance of
the run before it was proved.

### Assumptions

The assumptions on the constants are stated in the modules that declare them, and TLC
evaluates them in every run. Most keep things apart that are different objects (threads and
"nobody", the realtime thread and the others) or say that a bound is a number. The ones that
say something about the users of the library:

- `MayAssumption`: one client starts, stops and joins a handler; `thread_` is not protected.
- `NodesAssumption`: a parameter of a node has the type that `as_int()` and the others ask for;
  they throw otherwise.
- `IntHalfAssumption`, `IntAssumption`, `RatesAssumption`: an `int` can hold a priority, and a
  period is at least one unit of the clock.
- `SpscAssumption`: an SPSC queue has at most one producer and one consumer, and
  `bounded_push` is not called concurrently on it (`lock_free_queue.hpp:209`).
- `FiniteAssumption`: there are finitely many threads, so that nodes can be counted.

Four of the theorems need a hypothesis of their own, which the run's instance satisfies and without
which the property is false:

- `ResultCorrect`: one thread requests the end of a goal (`OneRequester`). With two of them,
  the tests that `setAborted` and `setSucceeded` make without the mutex may both succeed.
- `PushCorrect`: a node for every thread (`EnoughNodes`). With fewer, the others may hold all
  nodes, not linked yet or not given back yet, when the pop of a `bounded_push` finds the queue
  empty.
- `LatestCorrect`: one consumer (`OneConsumer`). Another one may take the newest element.
- `RetryCorrect`: a node that has the list of cores has a core in it (`NonEmptyCores`). With an
  empty list the cores of an earlier call stay.

### The inductive invariants

**RealtimePublisher.** That `try_publish` overwrites nothing depends on what the loop is
about to do. `MutexInv`: who is inside a critical section holds `msg_mutex_`. `WriterInv`: a
client about to write `msg_` still has the turn it tested; the loop could take the turn only
through the mutex that the client holds. `TurnInv`: the values of `turn_` at each place of the
loop. `MailInv`: which message is outstanding at each place of the loop: none, `msg_` or
`outgoing`. `ReadyInv`: a client that was told `can_publish` has the turn. `LifeInv`:
`is_running_` and the place of the loop agree from construction to the join. For the
refinement, `TryPublishWrite` is the mailbox's `Accept`, `LoopSend` its `Deliver`, `StopSet`
its `Close`, and every other action leaves the mailbox alone.

**AsyncFunctionHandler.** What the worker found in its predicate has to hold still when it
calls the callback, although other threads reset, stop and pause in between. `ThreadInv`: a
handler that is not joinable has no worker. `TriggerInv`: a trigger in progress is the last
one and has not run before the end of its cycle, and the one before it is done. `SyncInv`:
nobody takes the trigger away from a worker that has seen it. `QuietInv`: a worker that has
left its wait although it is paused has seen the request to stop, and looks at it again.

**DetachedCycle.** `TimeInv`: an iteration under way is due, and the measured period has begun
before the first callback. `SpacingInv`: the iteration a worker sleeps for comes after the
last call. The work is in the arithmetic (`OverdueFacts`, `CeilingFacts`, `CycleEndIInv`): a
catch-up by any `overrun_count`, one too large by a rounding error or cut to an `int` too,
moves `next_iteration_time` by whole periods and not further than one period ahead of now; if
nothing was cut and the period is exactly `1 / exec_rate`, it leaves no iteration overdue.

**AsyncThreadSetup.** `FieldInv`, `LoadedInv` and `CoresInv` say what any number of calls of
`initialize`, some of which threw half way, may have left in each field of the parameters;
`RetryEqualsFresh` follows field by field. `HelpersInv` is about the state behind
`realtime_helpers`, with what `errno` says of the memory limit. `StageInv`, `PriorityInv` and
`CpusInv` give the attributes of the worker before and after each of its own calls, from what
it inherited, what it asked for and where its owner pinned it. `ValidInv`: what `validate`
accepted is something the worker can run with.

**RealtimeServerGoalHandle.** `PcInv`: only requesting threads are on their way to a request.
`PendingInv`: a request that has passed its test outside the mutex finds no other one
when it gets the mutex; `StoredInv`: so the stored result is that of the pending request;
`ActingInv`: which is still pending when `runNonRealtime` acts on it.

**RealtimeThreadSafeBox.** `LockInv`: a mutex is held by exactly the thread that is inside, once,
and is then consistent; one whose owner died is held by nobody. `CallInv`: which call is
where. `DataInv`: what a thread has copied is still the first half of the value. A register
(`Content`) is the value of its box, or what it was before the first half was written while
the owner of the mutex is writing. `ImplementsRegisters` is proved step by step: the beginning
of a call is the register's `Begin`, the second half of a `get` its `Get` or `Take`, of a `set`
its `Set`, of an assignment its `Copy` or `Move`, a call from within another one that does not
throw is a `Get`, a call that throws is a `Fail`, and every other step changes no register. So
only a call that throws leaves half a value. It holds for assignments in a circle as
well: these block each other (`box_assign`), but show no one half a value.

**RealtimeBuffer.** `PtrInv`: the realtime thread uses its own cell and never holds the mutex.
`CellInv`: only the writer with the mutex leaves a cell that is not whole, never the one of
the realtime thread. `AgeInv`: what the realtime thread may get next is not older than what
it has. `LastInv`: the value written last is where `readFromNonRT` looks for it. `CalmInv`:
readers that no writer disturbed still point to it.

**LockFreeQueue.** `NodeInv` counts nodes: a `bounded_push` at its second push, since whose pop
no other producer has taken a node, finds a free one. `QueueInv`, `CountInv`, `TakenInv` and `NewestInv` follow
`get_latest`: what it has taken is older than what is in the queue, and the element that was
the last has been taken or will be. `PcInv`: who is where. `NewestCorrect` has a second
invariant on top of `IInv`: when the newest element was dropped the queue is empty
and a producer has a node, to link or to give back, or is at its second push and will find
one (`DropInv`). As the queue is empty no consumer can take a node, and a producer that takes
one links it. That needs no minimum of nodes.

### Only model-checked

Liveness under fairness is out of the prover's reach: `DestructorTerminates`, `TurnComesBack`
and the delivery part of `ImplementsMailbox`; `StopTerminates`, `PauseTerminates`,
`TriggerIsServed`, `DetachedCycles`, `WaiterIsNotified`; `RequestIsServed`, `CancelIsServed`;
`CallsEnd`; `RtGetsLast`. Absence of deadlock and the three violated properties are TLC's too.

## 6. What is not modelled

- `has_realtime_kernel`, which reads two files and changes nothing; `logger`,
  `print_warnings` and `to_string`, which only serve messages; `get_last_execution_time`.
- Clocks that jump or differ: `DetachedCycle` has one clock where the code has
  `params_.clock` (for the measured period) and `steady_clock`; a simulated clock would only
  change the measured period. Rates above 10^9, for which the period is 0, are excluded by
  an assumption.
- A policy that is UNKNOWN after the worker has entered its loop: `AsyncThreadSetup` has it
  up to there; `AsyncFunctionHandler` has the two policies that `validate` accepts.
- Several threads that request the outcome of one goal, and several that use the pointers of
  `readFromNonRT` while one of them writes: the classes expect one.
- Weak memory: the atomics of the library are read and written in program order. The
  members that are accessed without a mutex and are not atomic (`async_exception_ptr_`,
  the pointers of `initRT` and `reset`) are read and written in single steps.
- Moves of values that throw, and a function given to `set` that calls `get` on its own box
  after it has written part of the value: it would see what it has written so far.
- The inside of boost's queues beyond the nodes, of rclcpp_action and of the pthread library.
- The branches for Windows and macOS.

## 7. Plan

Done: all components with their runs, and the proofs of every safety invariant, of the
action property and of both refinements. What is left, in this order:

1. Lemmas about the operators of `Mutex` and `RealtimeHelpers` for recursive use and for several
   threads, so that the box may be locked more than once by one thread.
2. What `bounded_push` and `get_latest` still promise without the hypotheses `EnoughNodes` and
   `OneConsumer`.
3. A controller as a composition: the action goal and the realtime box it is kept in.
