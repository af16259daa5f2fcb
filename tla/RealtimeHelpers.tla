--------------------------- MODULE RealtimeHelpers ---------------------------
(***************************************************************************)
(* realtime_helpers.cpp (Linux): what its functions make of the threads    *)
(* and the memory of a process.  The system calls are external.  Some set  *)
(* the errno of the calling thread; those of the pthread library return    *)
(* their error and leave errno alone.  A message is the error it names.    *)
(***************************************************************************)
EXTENDS Integers, Sequences, FiniteSets

CONSTANTS
    Threads,         \* the threads of the process
    Machines         \* what the process may find itself on, see Machine

Limits == {"none", "low", "enough"}

\* The processors that are online and those of them the process may use; whether it
\* may use realtime policies; its RLIMIT_MEMLOCK and whether CAP_IPC_LOCK is permitted.
Machine(m) ==
    /\ m.online \subseteq Nat /\ m.allowed \subseteq m.online /\ m.allowed # {}
    /\ m.realtime \in BOOLEAN /\ m.memlock \in Limits /\ m.ipc_lock \in BOOLEAN

ASSUME MachinesAssumption == \A m \in Machines : Machine(m)

VARIABLES
    machine,         \* the element of Machines
    alive,           \* threads that run
    attr,            \* policy, priority, processors and name of every thread
    errno,           \* of every thread
    answer,          \* what its last call returned; error is the one that occurred
    memory           \* locked; effective: CAP_IPC_LOCK is in force

helpers == <<machine, alive, attr, errno, answer, memory>>

Success == "success"
Errors == {Success, "EINVAL", "EPERM", "ESRCH", "ENOMEM", "EAGAIN"}
Messages == Errors \cup {"invalid core numbers", "not joinable", "empty name",
                         "no privileges"}

Attributes == [policy : {"OTHER", "FIFO", "RR"}, priority : 0 .. 99,
               cpus : SUBSET UNION {m.allowed : m \in Machines}, name : 0 .. 15]

HelpersInit ==
    /\ machine \in Machines
    /\ attr = [t \in Threads |-> [policy |-> "OTHER", priority |-> 0,
                                  cpus |-> machine.allowed, name |-> 10]]
    /\ errno = [t \in Threads |-> Success]
    /\ answer = [t \in Threads |-> [ok |-> TRUE, message |-> Success, error |-> Success]]
    /\ memory = [locked |-> FALSE, effective |-> FALSE]

\* A call by t returns; without an error it is a success.
Answer(t, message, error) ==
    answer' = [answer EXCEPT ![t] = [ok |-> error = Success, message |-> message,
                                     error |-> error]]

\* A system call by t that reports its error in errno.
SetErrno(t, error) ==
    errno' = [errno EXCEPT ![t] = IF error = Success THEN @ ELSE error]

-----------------------------------------------------------------------------
(* configure_sched_fifo(), configure_sched_rr()                            *)

\* sched_setscheduler(): realtime policies have no priority 0.
SchedulerError(priority) ==
    CASE priority \notin 1 .. 99 -> "EINVAL"
      [] priority \in 1 .. 99 /\ ~machine.realtime -> "EPERM"
      [] OTHER -> Success

ConfigureSched(t, policy, priority) ==
    LET error == SchedulerError(priority) IN
    /\ attr' = IF error # Success THEN attr
               ELSE [attr EXCEPT ![t].policy = policy, ![t].priority = priority]
    /\ SetErrno(t, error)
    /\ Answer(t, error, error)
    /\ UNCHANGED <<machine, alive, memory>>

-----------------------------------------------------------------------------
(* set_thread_affinity(), set_current_thread_affinity()                    *)

get_number_of_available_processors == Cardinality(machine.online)

\* 0 <= core < number_of_cores
ValidCore(core) == core \in 0 .. get_number_of_available_processors - 1

ValidCores(cores) == \A i \in DOMAIN cores : ValidCore(cores[i])

\* No core stands for all cores.
CpuSet(cores) ==
    IF cores = << >> THEN 0 .. get_number_of_available_processors - 1
    ELSE {cores[i] : i \in DOMAIN cores}

\* pthread_setaffinity_np() returns its error.
AffinityError(u, cpus) ==
    CASE u \notin alive -> "ESRCH"
      [] u \in alive /\ cpus \cap machine.allowed = {} -> "EINVAL"
      [] OTHER -> Success

\* t asks for the affinity of u.  The message is taken from errno.
SetThreadAffinity(t, u, cores) ==
    LET cpus == CpuSet(cores)
        error == AffinityError(u, cpus) IN
    /\ UNCHANGED <<machine, alive, errno, memory>>
    /\ IF ~ValidCores(cores)
       THEN Answer(t, "invalid core numbers", "EINVAL") /\ UNCHANGED attr
       ELSE /\ attr' = IF error # Success THEN attr
                       ELSE [attr EXCEPT ![u].cpus = cpus \cap machine.allowed]
            /\ Answer(t, IF error = Success THEN Success ELSE errno[t], error)

\* The overload for a single core.
CoreList(core) == IF core < 0 THEN << >> ELSE <<core>>

\* The overload for a std::thread that is not joinable.
NotJoinable(t) ==
    /\ Answer(t, "not joinable", "ESRCH")
    /\ UNCHANGED <<machine, alive, attr, errno, memory>>

-----------------------------------------------------------------------------
(* set_current_thread_name()                                               *)

Truncated(name) == IF name > 15 THEN 15 ELSE name

\* pthread_setname_np() refuses names of more than 15 characters with ERANGE, which
\* does not happen after truncation.
SetCurrentThreadName(t, name) ==
    /\ IF name = 0 THEN Answer(t, "empty name", "EINVAL") /\ UNCHANGED attr
       ELSE /\ attr' = [attr EXCEPT ![t].name = Truncated(name)]
            /\ Answer(t, Success, Success)
    /\ UNCHANGED <<machine, alive, errno, memory>>

-----------------------------------------------------------------------------
(* lock_memory()                                                           *)

\* mlockall()
LockErrors ==
    CASE memory.effective \/ machine.memlock = "enough" -> {Success, "EAGAIN"}
      [] ~memory.effective /\ machine.memlock = "low" -> {"ENOMEM"}
      [] ~memory.effective /\ machine.memlock = "none" -> {"EPERM"}

\* A mutant: is_capable() only looks at CAP_IPC_LOCK.
IsCapableQuery(error) == memory

\* is_capable() makes CAP_IPC_LOCK effective where it is permitted.
IsCapable(error) == [memory EXCEPT !.effective = @ \/ (error # Success /\ machine.ipc_lock)]

\* After a failure errno is looked at when the calls of is_capable() have succeeded;
\* when they have not, "No proper privileges".
LockMemory(t) ==
    \E error \in LockErrors :
        /\ memory' = [IsCapable(error) EXCEPT !.locked = @ \/ error = Success]
        /\ SetErrno(t, IF error # Success /\ ~machine.ipc_lock THEN "EPERM" ELSE error)
        /\ Answer(t, IF error # Success /\ ~machine.ipc_lock THEN "no privileges" ELSE error,
                  error)
        /\ UNCHANGED <<machine, alive, attr>>

-----------------------------------------------------------------------------
\* Types; a thread always has a processor that it may use; when lock_memory() says
\* that the limit on locked memory is too low, it no longer is in force.
HelpersOK ==
    /\ machine \in Machines /\ alive \subseteq Threads
    /\ attr \in [Threads -> Attributes]
    /\ \A t \in Threads : attr[t].cpus # {} /\ attr[t].cpus \subseteq machine.allowed
    /\ errno \in [Threads -> Errors]
    /\ answer \in [Threads -> [ok : BOOLEAN, message : Messages, error : Errors]]
    /\ memory \in [locked : BOOLEAN, effective : BOOLEAN]
    /\ \A t \in Threads : answer[t].message = "ENOMEM" => memory.effective

=============================================================================
