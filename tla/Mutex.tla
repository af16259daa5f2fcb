------------------------------- MODULE Mutex -------------------------------
(***************************************************************************)
(* realtime_tools::detail::mutex: prio_inherit_mutex (error checking) and  *)
(* prio_inherit_recursive_mutex, both robust.  A pthread mutex is a record *)
(* of its owner, of how often the owner has locked it, of its type and of  *)
(* its state: "consistent", "dead" when its owner ended without unlocking  *)
(* it, "lost" when it was unlocked before it was made consistent again,    *)
(* which is for ever.                                                      *)
(***************************************************************************)
EXTENDS Naturals

CONSTANT Nobody      \* the owner of a free mutex

\* mutex(): recursive is TRUE for prio_inherit_recursive_mutex.
Fresh(recursive) ==
    [owner |-> Nobody, depth |-> 0, state |-> "consistent", recursive |-> recursive]

\* What pthread_mutex_trylock returns; pthread_mutex_lock blocks on EBUSY.
Result(m, t) ==
    CASE m.owner = t -> IF m.recursive THEN "OK" ELSE "EDEADLK"
      [] m.owner \notin {t, Nobody} -> "EBUSY"
      [] m.owner = Nobody /\ m.state = "dead" -> "EOWNERDEAD"
      [] m.owner = Nobody /\ m.state = "lost" -> "ENOTRECOVERABLE"
      [] m.owner = Nobody /\ m.state = "consistent" -> "OK"

Acquired(m, t) == [m EXCEPT !.owner = t, !.depth = @ + 1]

\* pthread_mutex_consistent
Consistent(m) == [m EXCEPT !.state = "consistent"]

\* lock() and try_lock() throw.
Throws(m, t) == Result(m, t) \in {"EDEADLK", "ENOTRECOVERABLE"}

\* A mutant: EOWNERDEAD is taken for success.
LockInconsistent(m, t) == IF Throws(m, t) THEN m ELSE Acquired(m, t)

\* The mutex after lock() or try_lock(), where they do not block or fail.
Lock(m, t) ==
    CASE Throws(m, t) -> m
      [] Result(m, t) = "EOWNERDEAD" -> Consistent(Acquired(m, t))
      [] Result(m, t) = "OK" -> Acquired(m, t)

\* unlock(): an error is only logged.
Unlock(m, t) ==
    CASE m.owner # t -> m
      [] m.owner = t /\ m.depth > 1 -> [m EXCEPT !.depth = @ - 1]
      [] m.owner = t /\ m.depth = 1 ->
             [Fresh(m.recursive) EXCEPT !.state = IF m.state = "dead" THEN "lost" ELSE @]

\* The thread t ends; what it has not unlocked is left behind.
Abandon(m, t) == IF m.owner = t THEN [Fresh(m.recursive) EXCEPT !.state = "dead"] ELSE m

=============================================================================
