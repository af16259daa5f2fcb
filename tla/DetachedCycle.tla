--------------------------- MODULE DetachedCycle ---------------------------
(***************************************************************************)
(* When a DETACHED AsyncFunctionHandler calls its callback:                *)
(* execute_detached_callback() with its times, against an owner that       *)
(* pauses, resumes, stops and restarts.  AsyncFunctionHandler models the   *)
(* same code without time and with every client.                           *)
(*                                                                         *)
(* Only differences of times matter, so a time is kept relative to now: 0  *)
(* is now, the past is negative, and Tick moves every time back by one.    *)
(* There is one clock for params_.clock and steady_clock, which does not   *)
(* jump.  It may advance between any two steps, as threads are preempted.  *)
(* A second has Second units (10^9), an int goes up to IntMax (2^31 - 1).  *)
(***************************************************************************)
EXTENDS Integers

CONSTANTS
    Second,          \* units of the clock in a second
    Rates,           \* the values of params_.exec_rate
    IntMax           \* the largest int

\* validate() refuses a rate of 0; one above 10^9 would give a period of 0.
ASSUME RatesAssumption == Second \in Nat \ {0} /\ Rates \subseteq 1 .. Second
ASSUME IntAssumption == IntMax \in Nat \ {0}

VARIABLES
    exec_rate,
    stage,           \* place of the worker thread
    wake,            \* end of its sleep_for()
    next_iteration_time, previous_time_,
    pause_thread_, stop_async_callback_,
    grid,            \* the first instant of the schedule, a period apart, not before now
    called,          \* the beginning of the last call of the callback
    overflow         \* an overrun_count was not representable

times == <<wake, next_iteration_time, previous_time_, grid, called>>
flags == <<pause_thread_, stop_async_callback_>>
vars  == <<exec_rate, stage, times, flags, overflow>>

Stages == {"begin", "wait", "sleep_for", "while", "lock", "blocked", "callback",
           "sleep_until", "done"}

\* nanoseconds(1'000'000'000 / params_.exec_rate), an integer division.
Period == Second \div exec_rate

\* async_mtx_ is free: the worker keeps it while the callback runs and while it
\* sleeps until the next iteration.
Free == stage \notin {"callback", "sleep_until"}

\* Times of the past are not told apart beyond a bound.  An iteration that is due
\* since more than Far has missed more cycles than an int can count, ...
Far == (IntMax + 2) * (Period + 1)
Overdue(t) == IF t < -Far THEN -Far + ((t + Far) % Period) ELSE t

\* ... and of what has happened it matters only whether that was within a period.
Ago(t) == IF t < -Period THEN -Period ELSE t

Goto(from, to) == stage = from /\ stage' = to
Move(from, to) == Goto(from, to) /\ UNCHANGED <<exec_rate, times, flags, overflow>>

Init ==
    /\ exec_rate \in Rates
    /\ stage = "begin"
    /\ wake = 0 /\ next_iteration_time = 0 /\ previous_time_ = 0
    /\ pause_thread_ \in BOOLEAN /\ stop_async_callback_ = FALSE
    /\ grid = 0 /\ called = 0 /\ overflow = FALSE

-----------------------------------------------------------------------------
(* execute_detached_callback()                                             *)

\* A paused worker waits before the loop.
Begin == pause_thread_ /\ Move("begin", "wait")

\* The wait is over, or there was none: sleep for a period.
SleepFor ==
    /\ \/ Goto("begin", "sleep_for") /\ ~pause_thread_
       \/ Goto("wait", "sleep_for") /\ (~pause_thread_ \/ stop_async_callback_)
    /\ previous_time_' = 0
    /\ wake' = Period
    /\ UNCHANGED <<exec_rate, next_iteration_time, flags, grid, called, overflow>>

\* The first iteration is due at once.
Enter ==
    /\ wake <= 0
    /\ Goto("sleep_for", "while")
    /\ next_iteration_time' = 0
    /\ grid' = 0 /\ called' = -1 /\ overflow' = FALSE
    /\ UNCHANGED <<exec_rate, wake, previous_time_, flags>>

\* while (!stop_async_callback_)
While == Move("while", IF stop_async_callback_ THEN "done" ELSE "lock")

\* The predicate of wait() is false: the mutex is given up.
Blocked == pause_thread_ /\ ~stop_async_callback_ /\ Move("lock", "blocked")

\* It is true, and stop_async_callback_ is not set: the call begins, with the
\* measured period 0 - previous_time_.
Callback ==
    /\ ~pause_thread_ /\ ~stop_async_callback_
    /\ \/ Goto("lock", "callback")
       \/ Goto("blocked", "callback")
    /\ previous_time_' = 0
    /\ called' = 0
    /\ UNCHANGED <<exec_rate, wake, next_iteration_time, flags, grid, overflow>>

\* It is true because of stop_async_callback_: the rest of the cycle is skipped.
Stopped == stop_async_callback_ /\ (Move("lock", "while") \/ Move("blocked", "while"))

\* std::ceil(time_diff / cm_period), where cm_period is the exact 1 / exec_rate and
\* not Period.  A quotient without remainder may come out larger in floating point.
Ceilings(late) ==
    LET q == (late * exec_rate + Second - 1) \div Second
    IN  IF (late * exec_rate) % Second = 0 THEN {q, q + 1} ELSE {q}

\* static_cast<int>() of a double: undefined where it does not fit, the smallest
\* int on x86 and the largest on ARM.
ToInt(q) == IF q <= IntMax THEN {q} ELSE {IntMax, -IntMax - 1}

\* A mutant: missed cycles are made up for.
NoCatchUp(next, count) == next

\* A mutant: the schedule starts again from the present time.
CatchUpFromNow(next, count) == 0

\* Missed cycles are skipped: next_iteration_time += overrun_count * period.
CatchUp(next, count) == next + count * Period

\* The callback has ended, which takes some time.  The next iteration is a period
\* after this one; cycles that are over are skipped; sleep_until().
CycleEnd ==
    LET next == next_iteration_time + Period IN
    /\ called < 0
    /\ Goto("callback", "sleep_until")
    /\ IF next >= 0
       THEN next_iteration_time' = next /\ UNCHANGED overflow
       ELSE \E q \in Ceilings(-next) : \E overrun_count \in ToInt(q) :
              /\ next_iteration_time' = Overdue(CatchUp(next, overrun_count))
              /\ overflow' = (overflow \/ q > IntMax)
    /\ UNCHANGED <<exec_rate, wake, previous_time_, flags, grid, called>>

\* The end of the sleep and of the cycle.
WakeUp == next_iteration_time <= 0 /\ Move("sleep_until", "while")

-----------------------------------------------------------------------------
(* The owner                                                               *)

\* pause_execution() stores the flag without the mutex.
Pause ==
    /\ stage # "done"
    /\ pause_thread_' = TRUE
    /\ UNCHANGED <<exec_rate, stage, times, stop_async_callback_, overflow>>

\* trigger_async_callback() of a paused handler, under the mutex.
Resume ==
    /\ pause_thread_ /\ Free
    /\ pause_thread_' = FALSE
    /\ previous_time_' = -Period
    /\ UNCHANGED <<exec_rate, stage, wake, next_iteration_time, stop_async_callback_,
                   grid, called, overflow>>

Stop ==
    /\ stage # "done"
    /\ stop_async_callback_' = TRUE
    /\ UNCHANGED <<exec_rate, stage, times, pause_thread_, overflow>>

\* stop_thread() has joined; start_thread() resets and begins anew.
Restart ==
    /\ Goto("done", "begin")
    /\ stop_async_callback_' = FALSE
    /\ UNCHANGED <<exec_rate, times, pause_thread_, overflow>>

-----------------------------------------------------------------------------
(* Specification                                                           *)

\* Time passes.
Tick ==
    /\ wake' = IF wake > 0 THEN wake - 1 ELSE 0
    /\ next_iteration_time' = Overdue(next_iteration_time - 1)
    /\ previous_time_' = Ago(previous_time_ - 1)
    /\ called' = Ago(called - 1)
    /\ grid' = IF grid = 0 THEN Period - 1 ELSE grid - 1
    /\ UNCHANGED <<exec_rate, stage, flags, overflow>>

Next ==
    \/ Begin \/ SleepFor \/ Enter \/ While \/ Blocked \/ Callback \/ Stopped
    \/ CycleEnd \/ WakeUp
    \/ Pause \/ Resume \/ Stop \/ Restart
    \/ Tick

Safety == Init /\ [][Next]_vars

-----------------------------------------------------------------------------
(* Properties                                                              *)

\* Types; in the loop every next_iteration_time is an instant of the schedule:
\* neither an overrun, nor a pause, nor the rounding of overrun_count makes it
\* drift.  The worker, which sleeps with async_mtx_ held, never sleeps longer than
\* a period.
TypeOK ==
    /\ exec_rate \in Rates /\ stage \in Stages
    /\ wake \in 0 .. Period
    /\ next_iteration_time \in -Far .. Period
    /\ previous_time_ \in -Period .. 0 /\ called \in -Period .. 0
    /\ pause_thread_ \in BOOLEAN /\ stop_async_callback_ \in BOOLEAN
    /\ overflow \in BOOLEAN
    /\ grid \in 0 .. Period - 1
    /\ (next_iteration_time - grid) % Period = 0

\* The last instant of the schedule up to now.
LastDue == IF grid = 0 THEN 0 ELSE grid - Period

\* When the callback is called its measured period is not 0, and since its last
\* call began an instant of the schedule has come: never two calls in one period,
\* after an overrun or a pause of any length either.  The last does not hold for a
\* rate that does not divide a second, as overrun_count periods are then a little
\* less than the time that was lost, nor once an overrun_count was not an int
\* (after 24 days of pause at 1 kHz).
CallbackSpacing ==
    [][stage # "callback" /\ stage' = "callback" =>
           /\ previous_time_ < 0
           /\ ~overflow /\ Second % exec_rate = 0 => called < LastDue]_vars

=============================================================================
