-------------------------- MODULE AsyncThreadSetup --------------------------
(***************************************************************************)
(* From the parameters of a node to a worker thread in its place: an owner *)
(* reads AsyncFunctionHandlerParams, gives them to init() and start_thread *)
(* of an AsyncFunctionHandler, and the new thread sets its priority, its   *)
(* affinity and its name with realtime_helpers before it enters its loop.  *)
(* Meanwhile the owner may change its own attributes, which a new thread   *)
(* inherits, and pin the worker through get_thread().  What the loop does  *)
(* is in AsyncFunctionHandler and DetachedCycle.                           *)
(***************************************************************************)
EXTENDS AsyncFunctionHandlerParams, RealtimeHelpers

CONSTANTS
    Owner, Worker,
    Nodes,           \* the parameters a node may have
    Priorities,      \* the owner's own, and the ones given to init() alone
    Cores,           \* for the owner itself and for the worker
    Names,
    MaxLoads,        \* bound: number of calls of initialize()
    MaxCalls         \* bound: number of the owner's calls of realtime_helpers

ASSUME SetupAssumption ==
    /\ Threads = {Owner, Worker} /\ Owner # Worker
    /\ MaxLoads \in Nat /\ MaxCalls \in Nat
    /\ Priorities \subseteq Int /\ Cores \subseteq Int /\ Names \subseteq Nat

\* The parameters of a node have the types as_int(), as_integer_array(), as_bool()
\* and as_string() want; they would throw otherwise.
ASSUME NodesAssumption == \A m \in Nodes :
    /\ "thread_priority" \in DOMAIN m => m["thread_priority"] \in Int
    /\ "cpu_affinity" \in DOMAIN m => m["cpu_affinity"] \in Seq(Int)
    /\ "execution_rate" \in DOMAIN m => m["execution_rate"] \in Int
    /\ "wait_until_initial_trigger" \in DOMAIN m => m["wait_until_initial_trigger"] \in BOOLEAN
    /\ "thread_name" \in DOMAIN m => m["thread_name"] \in Nat

VARIABLES
    params,          \* the owner's AsyncFunctionHandlerParams
    node, loads,     \* what initialize() was called with last, and how often
    loaded,          \* it did not throw
    params_, thread_priority_, initialized,
    thread_,         \* joinable()
    stage,           \* place of the worker thread
    aborted,         \* an exception has left the worker: std::terminate
    validated,       \* what validate() returned for params_
    spawned,         \* the attributes the worker began with
    pinned,          \* the processors the owner has pinned the worker to, {} if not
    calls            \* number of the owner's calls of realtime_helpers

handler == <<params_, thread_priority_, initialized, thread_, validated>>
config  == <<params, node, loads, loaded>>
worker  == <<stage, aborted, spawned>>
owner   == <<pinned, calls>>
vars    == <<helpers, config, handler, worker, owner>>

Init ==
    /\ HelpersInit /\ alive = {Owner}
    /\ \E clock, predicate \in BOOLEAN : params = Defaults(clock, predicate)
    /\ node = << >> /\ loads = 0 /\ loaded = FALSE
    /\ params_ = Defaults(FALSE, TRUE) /\ thread_priority_ = 0 /\ initialized = FALSE
    /\ thread_ = FALSE /\ validated = TRUE
    /\ stage = "none" /\ aborted = FALSE
    /\ spawned = attr[Owner] /\ pinned = {} /\ calls = 0

-----------------------------------------------------------------------------
(* The owner                                                               *)

\* params.initialize(node): a node has the parameters it had before and maybe more.
Load(m) ==
    /\ loads < MaxLoads /\ DOMAIN node \subseteq DOMAIN m
    /\ node' = m /\ loads' = loads + 1
    /\ params' = Initialize(params, m)
    /\ loaded' = ~InitializeThrows(params, m)
    /\ UNCHANGED <<helpers, handler, worker, owner>>

\* init(callback, params): what validate() returns is not looked at, what it throws
\* leaves init(), as do a null predicate and a running thread.
InitParams ==
    /\ ~ValidateThrows(params) /\ params.trigger_predicate /\ ~thread_
    /\ params_' = params /\ thread_priority_' = params.thread_priority
    /\ initialized' = TRUE /\ validated' = Validate(params)
    /\ UNCHANGED <<helpers, config, thread_, worker, owner>>

\* init(callback, priority): params_ stays as it is.
InitFunction(priority) ==
    /\ ~thread_
    /\ thread_priority_' = priority /\ initialized' = TRUE
    /\ UNCHANGED <<helpers, config, params_, thread_, validated, worker, owner>>

\* start_thread(): a new thread has the attributes of the one that creates it.
Start ==
    /\ initialized /\ ~thread_
    /\ thread_' = TRUE /\ stage' = "sched"
    /\ alive' = alive \cup {Worker}
    /\ attr' = [attr EXCEPT ![Worker] = attr[Owner]] /\ spawned' = attr[Owner]
    /\ errno' = [errno EXCEPT ![Worker] = Success]
    /\ pinned' = {}
    /\ UNCHANGED <<machine, answer, memory, config, params_, thread_priority_,
                   initialized, validated, aborted, calls>>

Call == calls < MaxCalls /\ calls' = calls + 1

\* The owner's calls for itself.
OwnAttributes ==
    /\ Call
    /\ \/ \E p \in Priorities : \/ ConfigureSched(Owner, "FIFO", p)
                                \/ ConfigureSched(Owner, "RR", p)
       \/ \E core \in Cores : SetThreadAffinity(Owner, Owner, CoreList(core))
       \/ \E name \in Names : SetCurrentThreadName(Owner, name)
       \/ LockMemory(Owner)
    /\ UNCHANGED <<config, handler, worker, pinned>>

\* set_thread_affinity(get_thread(), core)
PinWorker(core) ==
    /\ Call /\ thread_
    /\ SetThreadAffinity(Owner, Worker, CoreList(core))
    /\ pinned' = IF answer'[Owner].ok THEN attr'[Worker].cpus ELSE pinned
    /\ UNCHANGED <<config, handler, worker>>

PinNothing ==
    /\ Call /\ ~thread_
    /\ NotJoinable(Owner)
    /\ UNCHANGED <<config, handler, worker, pinned>>

\* stop_thread() joins the worker.
Join ==
    /\ stage = "done"
    /\ thread_' = FALSE /\ stage' = "none"
    /\ UNCHANGED <<helpers, config, params_, thread_priority_, initialized, validated,
                   aborted, spawned, owner>>

-----------------------------------------------------------------------------
(* The worker: the function start_thread() gives to the thread             *)

Goto(from, to) == stage = from /\ stage' = to

WorkerSched ==
    /\ Goto("sched", "affinity")
    /\ ConfigureSched(Worker, "FIFO", thread_priority_)
    /\ UNCHANGED <<config, handler, aborted, spawned, owner>>

\* A mutant: the affinity is set whether or not there are cores.
WorkerAffinityAlways ==
    /\ Goto("affinity", "name")
    /\ SetThreadAffinity(Worker, Worker, params_.cpu_affinity_cores)
    /\ UNCHANGED <<config, handler, aborted, spawned, owner>>

\* set_current_thread_affinity(), if there are cores.
WorkerAffinity ==
    /\ Goto("affinity", "name")
    /\ IF params_.cpu_affinity_cores = << >> THEN UNCHANGED helpers
       ELSE SetThreadAffinity(Worker, Worker, params_.cpu_affinity_cores)
    /\ UNCHANGED <<config, handler, aborted, spawned, owner>>

WorkerName ==
    /\ Goto("name", "enter")
    /\ IF params_.thread_name = 0 THEN UNCHANGED helpers
       ELSE SetCurrentThreadName(Worker, params_.thread_name)
    /\ UNCHANGED <<config, handler, aborted, spawned, owner>>

\* execute_synchronized_callback(), or execute_detached_callback() for any other
\* policy: it throws without a clock or a rate.
WorkerEnter ==
    /\ Goto("enter", "loop")
    /\ aborted' = (/\ params_.scheduling_policy # "SYNCHRONIZED"
                   /\ (~params_.clock \/ params_.exec_rate = 0))
    /\ UNCHANGED <<helpers, config, handler, spawned, owner>>

\* It has been told to stop.
WorkerExit ==
    /\ Goto("loop", "done")
    /\ alive' = alive \ {Worker}
    /\ UNCHANGED <<machine, attr, errno, answer, memory, config, handler,
                   aborted, spawned, owner>>

-----------------------------------------------------------------------------
(* Specification                                                           *)

OwnerCalls ==
    \/ \E m \in Nodes : Load(m)
    \/ InitParams \/ \E p \in Priorities : InitFunction(p)
    \/ Start \/ OwnAttributes \/ PinNothing \/ Join
    \/ \E core \in Cores : PinWorker(core)

WorkerSteps ==
    WorkerSched \/ WorkerAffinity \/ WorkerName \/ WorkerEnter \/ WorkerExit

\* After std::terminate nothing moves.
Next ==
    \/ ~aborted /\ (OwnerCalls \/ WorkerSteps)
    \/ aborted /\ UNCHANGED vars

Safety == Init /\ [][Next]_vars

-----------------------------------------------------------------------------
(* Properties                                                              *)

\* Types, see also HelpersOK.
TypeOK ==
    /\ HelpersOK
    /\ params \in Params /\ params_ \in Params
    /\ node \in Nodes \cup {<< >>} /\ loads \in 0 .. MaxLoads /\ loaded \in BOOLEAN
    /\ thread_priority_ \in Int /\ initialized \in BOOLEAN /\ thread_ \in BOOLEAN
    /\ stage \in {"none", "sched", "affinity", "name", "enter", "loop", "done"}
    /\ aborted \in BOOLEAN /\ validated \in BOOLEAN
    /\ spawned \in Attributes
    /\ pinned \subseteq machine.allowed /\ calls \in 0 .. MaxCalls

\* exec_rate counts only for DETACHED, and cores are looked at below.
Meaning(p) ==
    [p EXCEPT !.exec_rate = IF p.scheduling_policy = "DETACHED" THEN @ ELSE 0,
              !.cpu_affinity_cores = << >>]

\* An initialize() that is repeated, after one that threw half way or because the
\* parameters of the node have changed, gives what a first one would have given.
\* Only the cores are those of all calls, so that an empty list of a node leaves those
\* of an earlier call: the instance and the theorem have no such node.
RetryEqualsFresh ==
    LET fresh == Initialize(Defaults(params.clock, params.trigger_predicate), node) IN
    loaded => /\ Meaning(params) = Meaning(fresh)
              /\ CpuSet(fresh.cpu_affinity_cores) \subseteq CpuSet(params.cpu_affinity_cores)

\* init() ignores what validate() returns.  Even so the worker ends the program only
\* with parameters for which validate() has returned false.
ValidatedNeverAborts == aborted => ~validated

\* A worker in its loop has the priority and the processors it was configured with;
\* where these were refused, as a whole, those of the thread that started it.  It
\* stays where its owner pinned it if it has no cores of its own.  What it was told of
\* its cores is true, whatever error errno still has from configure_sched_fifo().
WorkerAsConfigured ==
    LET a == attr[Worker]
        cores == params_.cpu_affinity_cores
        Asked == {cores[i] : i \in DOMAIN cores} \cap machine.allowed
        Granted == cores # << >> /\ ValidCores(cores) /\ Asked # {} IN
    /\ stage = "name" /\ cores # << >> => answer[Worker].ok = Granted
    /\ stage = "loop" =>
        /\ IF SchedulerError(thread_priority_) = Success
           THEN a.policy = "FIFO" /\ a.priority = thread_priority_
           ELSE a.policy = spawned.policy /\ a.priority = spawned.priority
        /\ pinned = {} => a.cpus = IF Granted THEN Asked ELSE spawned.cpus
        /\ pinned # {} => a.cpus = pinned \/ (Granted /\ a.cpus = Asked)

=============================================================================
