--------------------- MODULE AsyncFunctionHandlerParams ---------------------
(***************************************************************************)
(* realtime_tools::AsyncFunctionHandlerParams and AsyncSchedulingPolicy as *)
(* functions of their input.  A node is a function from the parameters it  *)
(* has to their values, which are 64 bit wide; initialize() casts them to  *)
(* an int, which has the values -IntHalf .. IntHalf - 1 (IntHalf is 2^31). *)
(* A thread name is its length.  Not modelled: logger and print_warnings.  *)
(***************************************************************************)
EXTENDS Integers, Sequences

CONSTANT IntHalf

\* Large enough for every priority.
ASSUME IntHalfAssumption == IntHalf \in Nat /\ IntHalf > 100

\* static_cast<int>(int64_t): modulo 2^32.
ToInt(n) == ((n + IntHalf) % (2 * IntHalf)) - IntHalf

\* AsyncSchedulingPolicy(data_type)
Policies == {"UNKNOWN", "SYNCHRONIZED", "DETACHED"}
PolicyFrom(data_type) ==
    CASE data_type = "synchronized" -> "SYNCHRONIZED"
      [] data_type = "detached"     -> "DETACHED"
      [] OTHER                      -> "UNKNOWN"

\* The fields that are read; clock and trigger_predicate tell whether they are set.
Params == [thread_priority : Int, cpu_affinity_cores : Seq(Int),
           scheduling_policy : Policies, exec_rate : Nat, thread_name : Nat,
           wait_until_initial_trigger : BOOLEAN,
           clock : BOOLEAN, trigger_predicate : BOOLEAN]

\* The default member initializers; the user sets the last two.
Defaults(clock, predicate) ==
    [thread_priority |-> 50, cpu_affinity_cores |-> << >>,
     scheduling_policy |-> "SYNCHRONIZED", exec_rate |-> 0, thread_name |-> 0,
     wait_until_initial_trigger |-> TRUE,
     clock |-> clock, trigger_predicate |-> predicate]

\* has_parameter(), get_parameter()
Get(node, name, default) == IF name \in DOMAIN node THEN node[name] ELSE default

\* The part of initialize() before it may throw.  The cores are appended.
InitializeFirst(p, node) ==
    LET cores == Get(node, "cpu_affinity", << >>) IN
    [p EXCEPT
        !.thread_priority = IF "thread_priority" \in DOMAIN node
                            THEN ToInt(node["thread_priority"]) ELSE @,
        !.cpu_affinity_cores = @ \o [i \in DOMAIN cores |-> ToInt(cores[i])],
        !.scheduling_policy = IF "scheduling_policy" \in DOMAIN node
                              THEN PolicyFrom(node["scheduling_policy"]) ELSE @]

\* execution_rate is looked at only if the policy, which has just been read, is
\* DETACHED.
ReadsRate(p, node) ==
    /\ InitializeFirst(p, node).scheduling_policy = "DETACHED"
    /\ "execution_rate" \in DOMAIN node

\* "execution_rate parameter must be positive": p is left as it is at this point.
InitializeThrows(p, node) ==
    ReadsRate(p, node) /\ ToInt(node["execution_rate"]) <= 0

\* A mutant: the policy is read after the execution rate.
InitializeRateFirst(p, node) ==
    IF InitializeThrows(p, node) THEN InitializeFirst(p, node)
    ELSE [InitializeFirst(p, node) EXCEPT
            !.exec_rate = IF p.scheduling_policy = "DETACHED"
                             /\ "execution_rate" \in DOMAIN node
                          THEN ToInt(node["execution_rate"]) ELSE @,
            !.wait_until_initial_trigger = Get(node, "wait_until_initial_trigger", @),
            !.thread_name = Get(node, "thread_name", @)]

\* What initialize() makes of p.
Initialize(p, node) ==
    IF InitializeThrows(p, node) THEN InitializeFirst(p, node)
    ELSE [InitializeFirst(p, node) EXCEPT
            !.exec_rate = IF ReadsRate(p, node) THEN ToInt(node["execution_rate"]) ELSE @,
            !.wait_until_initial_trigger = Get(node, "wait_until_initial_trigger", @),
            !.thread_name = Get(node, "thread_name", @)]

PriorityOk(p) == p.thread_priority \in 0 .. 99

\* validate() throws for an unknown policy, unless it has returned false before.
ValidateThrows(p) == PriorityOk(p) /\ p.scheduling_policy = "UNKNOWN"

\* A mutant: the clock is not checked.
ValidateNoClock(p) ==
    /\ PriorityOk(p)
    /\ p.scheduling_policy = "DETACHED" => p.exec_rate # 0
    /\ p.scheduling_policy # "UNKNOWN"
    /\ p.trigger_predicate
    /\ \A i \in DOMAIN p.cpu_affinity_cores : p.cpu_affinity_cores[i] >= 0

\* validate() returns true.
Validate(p) ==
    /\ PriorityOk(p)
    /\ p.scheduling_policy = "DETACHED" => p.clock /\ p.exec_rate # 0
    /\ p.scheduling_policy # "UNKNOWN"
    /\ p.trigger_predicate
    /\ \A i \in DOMAIN p.cpu_affinity_cores : p.cpu_affinity_cores[i] >= 0

=============================================================================
