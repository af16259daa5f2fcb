------------------------ MODULE MCAsyncThreadSetup ------------------------
(***************************************************************************)
(* Instances of AsyncThreadSetup for TLC: nodes and machines.              *)
(***************************************************************************)
EXTENDS AsyncThreadSetup

On(online, allowed, realtime, memlock, ipc_lock) ==
    [online |-> online, allowed |-> allowed, realtime |-> realtime, memlock |-> memlock,
     ipc_lock |-> ipc_lock]

\* Four processors; one that is not the last offline; a container with the last two.
MCMachines == {On(0 .. 3, 0 .. 3, TRUE, "enough", FALSE),
               On({0, 2, 3}, {0, 2, 3}, FALSE, "none", FALSE),
               On(0 .. 3, {2, 3}, TRUE, "low", TRUE)}

\* With IntHalf = 128 an int has 8 bits: 261 is 5 and 256 is 0.
Rate(r) == [scheduling_policy |-> "detached", execution_rate |-> r]
More(n, priority, cores) ==
    [x \in DOMAIN n \cup {"thread_priority", "cpu_affinity", "thread_name"} |->
        CASE x = "thread_priority" -> priority
          [] x = "cpu_affinity" -> cores
          [] x = "thread_name" -> 20
          [] OTHER -> n[x]]

MCCores == {-1, 2}

MCNodes ==
    {Rate(r) : r \in {256, 261}}
    \cup {[scheduling_policy |-> s] : s \in {"detached", "realtime"}}
    \cup {[scheduling_policy |-> "synchronized", execution_rate |-> 0]}
    \cup {More(Rate(5), 0, <<1>>), More(Rate(5), 60, <<2, 7>>),
          More([scheduling_policy |-> "realtime"], 100, <<3, 2>>)}

=============================================================================
