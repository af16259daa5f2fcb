------------------------ MODULE DetachedCycleProofs ------------------------
(***************************************************************************)
(* Proofs about DetachedCycle for every clock, set of rates and width of   *)
(* int.  The arithmetic comes first: what the rounding of overrun_count    *)
(* can do to next_iteration_time.                                          *)
(***************************************************************************)
EXTENDS DetachedCycle, TLAPS

\* overrun_count has always been an int, and the period is exactly 1 / exec_rate.
Exact == ~overflow /\ Second % exec_rate = 0

\* An iteration that is waited for or under way is due; the measured period has begun
\* before the callback may be called.
TimeInv ==
    /\ stage \in {"while", "lock", "blocked", "callback"} => next_iteration_time <= 0
    /\ stage = "sleep_for" /\ wake < Period => previous_time_ < 0
    /\ stage \in {"while", "lock", "blocked"} => previous_time_ < 0
    /\ stage \in {"callback", "sleep_until"} /\ called < 0 => previous_time_ < 0
    /\ stage = "sleep_until" => called < 0

\* The iteration a worker sleeps for, which is an instant of the schedule, comes after
\* the last call; when it has come, the last instant up to now does.
SpacingInv ==
    Exact => /\ stage \in {"while", "lock", "blocked"} => called < LastDue
             /\ stage = "sleep_until" => called < next_iteration_time \/ called < LastDue

IInv ==
    /\ TypeOK
    /\ TimeInv
    /\ SpacingInv

-----------------------------------------------------------------------------
(* Arithmetic                                                              *)

\* The remainder is 0 exactly for the multiples.
LEMMA Multiples ==
  ASSUME NEW P \in Nat \ {0}, NEW a \in Int
  PROVE  a % P = 0 <=> \E k \in Int : a = k * P
  <1>1. a % P = 0 => a = (a \div P) * P /\ a \div P \in Int
    OBVIOUS
  <1>2. ASSUME NEW k \in Int, a = k * P PROVE a % P = 0
    BY <1>2
  <1> QED
    BY <1>1, <1>2

\* Whole periods may be added.
LEMMA ShiftMultiple ==
  ASSUME NEW P \in Nat \ {0}, NEW a \in Int, a % P = 0, NEW k \in Int
  PROVE  (a + k * P) % P = 0
  <1>1. PICK j \in Int : a = j * P
    BY Multiples
  <1>2. a + k * P = (j + k) * P /\ j + k \in Int
    BY <1>1
  <1> QED
    BY <1>2, Multiples

\* The only multiple of P that is larger than -P and not positive is 0.
LEMMA NegativeMultiple ==
  ASSUME NEW P \in Nat \ {0}, NEW a \in Int, a % P = 0, a < 0
  PROVE  a <= -P
  <1>1. PICK j \in Int : a = j * P
    BY Multiples
  <1>2. j <= -1
    BY <1>1
  <1>3. j * P <= (-1) * P
    BY <1>2
  <1> QED
    BY <1>1, <1>3

\* The period is positive and not longer than 1 / exec_rate.
LEMMA PeriodFacts ==
  ASSUME exec_rate \in Rates
  PROVE  /\ Period \in Nat \ {0} /\ exec_rate \in Nat \ {0} /\ Second \in Nat \ {0}
         /\ Period * exec_rate <= Second
         /\ Second % exec_rate = 0 => Period * exec_rate = Second
         /\ Far \in Nat /\ Far >= Period
  <1>1. exec_rate \in 1 .. Second /\ Second \in Nat \ {0}
    BY RatesAssumption
  <1>2. Period \in Nat \ {0} /\ Period * exec_rate <= Second
    BY <1>1 DEF Period
  <1>3. Second % exec_rate = 0 => Period * exec_rate = Second
    BY <1>1 DEF Period
  <1>4. /\ IntMax + 2 \in Nat /\ Period + 1 \in Nat
        /\ Far = (IntMax + 1) * (Period + 1) + (Period + 1)
        /\ (IntMax + 1) * (Period + 1) \in Nat
    BY <1>2, IntAssumption DEF Far
  <1> QED
    BY <1>1, <1>2, <1>3, <1>4

\* Times that are too far in the past keep their place in the schedule.
LEMMA OverdueFacts ==
  ASSUME exec_rate \in Rates, NEW t \in Int, NEW g \in Int, (t - g) % Period = 0
  PROVE  /\ Overdue(t) \in Int /\ Overdue(t) >= -Far
         /\ (Overdue(t) - g) % Period = 0
         /\ t <= 0 => Overdue(t) <= 0
         /\ t >= -Far => Overdue(t) = t
         /\ Overdue(t) >= t
  <1>1. Period \in Nat \ {0} /\ Far \in Nat /\ Far >= Period
    BY PeriodFacts
  <1>2. CASE t >= -Far
    BY <1>1, <1>2 DEF Overdue
  <1>3. CASE t < -Far
    <2> DEFINE r == (t + Far) % Period
               d == (t + Far) \div Period
    <2>1. r \in 0 .. Period - 1 /\ d \in Int /\ t + Far = d * Period + r
      BY <1>1
    <2>2. Overdue(t) = -Far + r
      BY <1>1, <1>3 DEF Overdue
    <2> HIDE DEF r, d
    <2>3. Overdue(t) - g = (t - g) + (-d) * Period
      BY <1>1, <2>1, <2>2
    <2>4. (Overdue(t) - g) % Period = 0
      <3>1. t - g \in Int /\ -d \in Int
        BY <2>1
      <3>2. ((t - g) + (-d) * Period) % Period = 0
        BY <1>1, <3>1, ShiftMultiple
      <3> QED
        BY <2>3, <3>2
    <2>5. d < 0
      BY <1>1, <1>3, <2>1
    <2> QED
      BY <1>1, <1>3, <2>1, <2>2, <2>4, <2>5
  <1> QED
    BY <1>1, <1>2, <1>3

\* overrun_count cycles lead at most a period into the future and, if the period is
\* exact, up to now.
LEMMA CeilingFacts ==
  ASSUME exec_rate \in Rates, NEW late \in Nat \ {0}, NEW q \in Ceilings(late)
  PROVE  /\ q \in Nat
         /\ q * Period <= late + Period
         /\ Second % exec_rate = 0 => q * Period >= late
  <1> DEFINE R == exec_rate  S == Second  P == Period  w == late * R
  <1>1. /\ P \in Nat \ {0} /\ R \in Nat \ {0} /\ S \in Nat \ {0} /\ P * R <= S
        /\ Second % exec_rate = 0 => P * R = S
    BY PeriodFacts
  <1>2. w \in Nat \ {0}
    BY <1>1
  <1>3. q \in Nat \ {0} /\ q * S <= w + S /\ q * S >= w
    <2> DEFINE c == (w + S - 1) \div S
    <2>1. c \in Int /\ c * S <= w + S - 1 /\ w + S - 1 < c * S + S
      BY <1>1, <1>2
    <2>2. q = c \/ (q = c + 1 /\ w % S = 0)
      BY DEF Ceilings
    <2> HIDE DEF c
    <2>3. CASE q = c
      BY <1>1, <1>2, <2>1, <2>3
    <2>4. CASE q = c + 1 /\ w % S = 0
      <3> HIDE DEF w, S
      <3> DEFINE j == w \div S
      <3>1. w = j * S /\ j \in Int
        BY <1>1, <1>2, <2>4
      <3> HIDE DEF j
      <3>2. j = c
        BY <1>1, <1>2, <2>1, <3>1
      <3> QED
        BY <1>1, <1>2, <2>1, <2>4, <3>1, <3>2
    <2> QED
      BY <2>2, <2>3, <2>4
  <1> HIDE DEF P
  <1>4. (q - 1) * P <= late
    <2>1. (q - 1) * (P * R) <= (q - 1) * S
      BY <1>1, <1>3
    <2>2. (q - 1) * S <= w
      BY <1>1, <1>2, <1>3
    <2>3. ((q - 1) * P) * R <= late * R
      BY <1>1, <1>2, <1>3, <2>1, <2>2
    <2> QED
      BY <1>1, <1>3, <2>3
  <1>5. Second % exec_rate = 0 => q * P >= late
    <2> SUFFICES ASSUME P * R = S PROVE q * P >= late
      BY <1>1
    <2>1. (q * P) * R >= late * R
      BY <1>1, <1>3
    <2> QED
      BY <1>1, <1>3, <2>1
  <1> QED
    BY <1>1, <1>3, <1>4, <1>5 DEF P

-----------------------------------------------------------------------------
(* The invariant                                                           *)

\* The inductive invariant holds when the thread begins.
LEMMA InitIInv == Init => IInv
  <1> SUFFICES ASSUME Init PROVE IInv
    OBVIOUS
  <1>1. exec_rate \in Rates
    BY DEF Init
  <1>2. Period \in Nat \ {0} /\ Far \in Nat
    BY <1>1, PeriodFacts
  <1>3. 0 % Period = 0
    BY <1>2
  <1>4. TypeOK
    <2>1. /\ wake \in 0 .. Period /\ next_iteration_time \in -Far .. Period
          /\ previous_time_ \in -Period .. 0 /\ called \in -Period .. 0
          /\ grid \in 0 .. Period - 1
      BY <1>2 DEF Init
    <2>2. (next_iteration_time - grid) % Period = 0
      BY <1>3 DEF Init
    <2> QED
      BY <1>1, <2>1, <2>2 DEF Init, TypeOK, Stages
  <1>5. TimeInv /\ SpacingInv
    BY DEF Init, TimeInv, SpacingInv
  <1> QED
    BY <1>4, <1>5 DEF IInv

\* The end of a cycle keeps it: whatever the rounding of overrun_count and its
\* conversion to int give, next_iteration_time stays in the schedule.
LEMMA CycleEndIInv == IInv /\ CycleEnd => IInv'
  <1> SUFFICES ASSUME IInv, CycleEnd PROVE IInv'
    OBVIOUS
  <1> DEFINE next == next_iteration_time + Period
  <1>1. /\ exec_rate \in Rates /\ Period \in Nat \ {0} /\ Far \in Nat /\ Far >= Period
        /\ next_iteration_time \in -Far .. 0 /\ grid \in 0 .. Period - 1
        /\ called \in -Period .. 0 /\ called < 0
    BY PeriodFacts DEF IInv, TypeOK, TimeInv, CycleEnd, Goto
  <1>2. (next - grid) % Period = 0 /\ next \in Int /\ next <= Period
    <2>1. (next_iteration_time - grid) % Period = 0 /\ next_iteration_time - grid \in Int
      BY <1>1 DEF IInv, TypeOK
    <2>2. ((next_iteration_time - grid) + 1 * Period) % Period = 0
      BY <1>1, <2>1, ShiftMultiple
    <2>3. next - grid = (next_iteration_time - grid) + 1 * Period
      BY <1>1
    <2> QED
      BY <1>1, <2>2, <2>3
  <1>3. /\ stage' = "sleep_until"
        /\ UNCHANGED <<exec_rate, wake, previous_time_, flags, grid, called>>
        /\ Period' = Period /\ Far' = Far /\ LastDue' = LastDue
    BY DEF CycleEnd, Goto, Period, Far, LastDue
  <1>4. /\ next_iteration_time' \in -Far .. Period
        /\ (next_iteration_time' - grid) % Period = 0
        /\ overflow' \in BOOLEAN
        /\ Exact' => next_iteration_time' >= 0
    <2>1. CASE next >= 0
      BY <1>1, <1>2, <2>1 DEF CycleEnd, IInv, TypeOK
    <2>2. CASE next < 0
      <3>1. PICK q \in Ceilings(-next) : \E overrun_count \in ToInt(q) :
                /\ next_iteration_time' = Overdue(CatchUp(next, overrun_count))
                /\ overflow' = (overflow \/ q > IntMax)
        BY <1>2, <2>2 DEF CycleEnd
      <3>2. PICK n \in ToInt(q) :
                /\ next_iteration_time' = Overdue(CatchUp(next, n))
                /\ overflow' = (overflow \/ q > IntMax)
        BY <3>1
      <3> HIDE DEF next
      <3>3. -next \in Nat \ {0}
        BY <1>2, <2>2
      <3>4. /\ q \in Nat /\ q * Period <= -next + Period
            /\ Second % exec_rate = 0 => q * Period >= -next
        BY <1>1, <3>3, CeilingFacts
      <3>5. n \in Int /\ n <= q /\ (q <= IntMax => n = q)
        BY <3>4, IntAssumption DEF ToInt
      <3>6. n * Period \in Int /\ n * Period <= q * Period
        BY <1>1, <3>4, <3>5
      <3> DEFINE t == next + n * Period
      <3>7. t \in Int /\ t <= Period
        BY <1>1, <1>2, <3>4, <3>6
      <3>8. (t - grid) % Period = 0
        <4>1. next - grid \in Int /\ t - grid = (next - grid) + n * Period
          BY <1>1, <1>2, <3>6
        <4>2. ((next - grid) + n * Period) % Period = 0
          BY <1>1, <1>2, <3>5, <4>1, ShiftMultiple
        <4> QED
          BY <4>1, <4>2
      <3>9. next_iteration_time' = Overdue(t)
        BY <3>2 DEF CatchUp
      <3>10. Exact' => t >= 0
        <4>1. Exact' => q <= IntMax /\ Second % exec_rate = 0
          <5>1. Exact' => ~(q > IntMax) /\ Second % exec_rate = 0
            BY <1>3, <3>2, Zenon DEF Exact
          <5> QED
            BY <3>4, <5>1, IntAssumption
        <4>2. Exact' => n = q /\ q * Period >= -next
          BY <3>4, <3>5, <4>1
        <4> QED
          BY <1>1, <1>2, <3>4, <4>2
      <3> HIDE DEF t
      <3>11. /\ Overdue(t) \in Int /\ Overdue(t) >= -Far /\ (Overdue(t) - grid) % Period = 0
             /\ t <= 0 => Overdue(t) <= 0
             /\ t >= -Far => Overdue(t) = t
        BY <1>1, <3>7, <3>8, OverdueFacts
      <3> QED
        BY <1>1, <3>2, <3>7, <3>9, <3>10, <3>11
    <2> QED
      BY <1>2, <2>1, <2>2
  <1>5. TypeOK'
    BY <1>3, <1>4 DEF IInv, TypeOK, Stages, flags
  <1>6. TimeInv'
    BY <1>1, <1>3 DEF IInv, TimeInv, CycleEnd, Goto
  <1>7. SpacingInv'
    BY <1>1, <1>3, <1>4 DEF SpacingInv
  <1> QED
    BY <1>5, <1>6, <1>7 DEF IInv

\* The passing of time keeps it.
LEMMA TickIInv == IInv /\ Tick => IInv'
  <1> SUFFICES ASSUME IInv, Tick PROVE IInv'
    OBVIOUS
  <1>1. /\ exec_rate \in Rates /\ Period \in Nat \ {0} /\ Far \in Nat
        /\ next_iteration_time \in -Far .. Period /\ grid \in 0 .. Period - 1
        /\ called \in -Period .. 0 /\ previous_time_ \in -Period .. 0 /\ wake \in 0 .. Period
        /\ (next_iteration_time - grid) % Period = 0
    BY PeriodFacts DEF IInv, TypeOK
  <1>2. /\ Period' = Period /\ Far' = Far
        /\ UNCHANGED <<exec_rate, stage, pause_thread_, stop_async_callback_, overflow>>
    BY DEF Tick, Period, Far, flags
  <1>3. grid' \in 0 .. Period - 1 /\ (next_iteration_time - 1 - grid') % Period = 0
    <2>1. CASE grid = 0
      <3>1. grid' = Period - 1 /\ next_iteration_time - grid \in Int
        BY <1>1, <2>1 DEF Tick
      <3>2. ((next_iteration_time - grid) + (-1) * Period) % Period = 0
        <4>1. \A k \in Int : ((next_iteration_time - grid) + k * Period) % Period = 0
          BY <1>1, <3>1, ShiftMultiple
        <4> QED
          BY <4>1
      <3>3. next_iteration_time - 1 - grid' = (next_iteration_time - grid) + (-1) * Period
        BY <1>1, <2>1, <3>1
      <3> QED
        BY <1>1, <3>1, <3>2, <3>3
    <2>2. CASE grid # 0
      <3>1. grid' = grid - 1
        BY <2>2 DEF Tick
      <3>2. next_iteration_time - 1 - grid' = next_iteration_time - grid
        BY <1>1, <3>1
      <3> QED
        BY <1>1, <2>2, <3>1, <3>2
    <2> QED
      BY <2>1, <2>2
  <1>4. /\ next_iteration_time' \in -Far .. Period
        /\ (next_iteration_time' - grid') % Period = 0
        /\ next_iteration_time <= 0 => next_iteration_time' <= 0
        /\ next_iteration_time' >= next_iteration_time - 1
    <2> DEFINE t == next_iteration_time - 1
    <2>1. t \in Int /\ grid' \in Int /\ t <= Period /\ next_iteration_time' = Overdue(t)
      BY <1>1, <1>3 DEF Tick
    <2>2. /\ Overdue(t) \in Int /\ Overdue(t) >= -Far /\ (Overdue(t) - grid') % Period = 0
          /\ t <= 0 => Overdue(t) <= 0
          /\ t >= -Far => Overdue(t) = t
          /\ Overdue(t) >= t
      BY <1>1, <1>3, <2>1, OverdueFacts
    <2> QED
      BY <1>1, <2>1, <2>2
  <1>5. /\ called' \in -Period .. -1 /\ previous_time_' \in -Period .. -1
        /\ called' = called - 1 \/ called' = -Period
        /\ wake' \in 0 .. Period /\ wake' <= wake
    BY <1>1 DEF Tick, Ago
  <1>6. LastDue' >= LastDue - 1 /\ LastDue' > -Period /\ LastDue \in Int /\ LastDue' \in Int
    BY <1>1, <1>2, <1>3 DEF Tick, LastDue
  <1>7. TypeOK'
    <2>1. previous_time_' \in -Period .. 0 /\ called' \in -Period .. 0
      BY <1>1, <1>5
    <2> QED
      BY <1>2, <1>3, <1>4, <1>5, <2>1 DEF IInv, TypeOK
  <1>8. TimeInv'
    BY <1>1, <1>2, <1>4, <1>5 DEF IInv, TimeInv
  <1>9. SpacingInv'
    BY <1>1, <1>2, <1>4, <1>5, <1>6 DEF IInv, SpacingInv, Exact
  <1> QED
    BY <1>7, <1>8, <1>9 DEF IInv

\* Every step keeps it.
LEMMA NextIInv == IInv /\ [Next]_vars => IInv'
  <1> SUFFICES ASSUME IInv, [Next]_vars PROVE IInv'
    OBVIOUS
  <1>1. /\ exec_rate \in Rates /\ Period \in Nat \ {0} /\ Far \in Nat
        /\ grid \in 0 .. Period - 1 /\ next_iteration_time \in Int /\ called \in Int
    BY PeriodFacts DEF IInv, TypeOK
  <1> USE DEF Move, Goto, times, flags
  <1>2. ASSUME UNCHANGED exec_rate PROVE Period' = Period /\ Far' = Far
    BY <1>2 DEF Period, Far
  <1>3. ASSUME UNCHANGED <<exec_rate, grid>> PROVE LastDue' = LastDue
    BY <1>3 DEF Period, LastDue
  <1>4. CASE Begin
    BY <1>2, <1>3, <1>4 DEF Begin, IInv, TypeOK, TimeInv, SpacingInv, Exact, Stages
  <1>5. CASE SleepFor
    BY <1>1, <1>2, <1>5 DEF SleepFor, IInv, TypeOK, TimeInv, SpacingInv, Stages
  <1>6. CASE Enter
    <2>1. 0 % Period = 0
      BY <1>1
    <2>2. TypeOK'
      <3>1. /\ 0 \in -Far .. Period /\ -1 \in -Period .. 0 /\ 0 \in 0 .. Period - 1
            /\ (0 - 0) % Period = 0
        BY <1>1, <2>1
      <3> QED
        BY <1>2, <1>6, <3>1 DEF Enter, IInv, TypeOK, Stages
    <2>3. TimeInv' /\ SpacingInv'
      BY <1>1, <1>2, <1>6 DEF Enter, IInv, TypeOK, TimeInv, SpacingInv, LastDue
    <2> QED
      BY <2>2, <2>3 DEF IInv
  <1>7. CASE While
    BY <1>2, <1>3, <1>7 DEF While, IInv, TypeOK, TimeInv, SpacingInv, Exact, Stages
  <1>8. CASE Blocked
    BY <1>2, <1>3, <1>8 DEF Blocked, IInv, TypeOK, TimeInv, SpacingInv, Exact, Stages
  <1>9. CASE Callback
    BY <1>1, <1>2, <1>9 DEF Callback, IInv, TypeOK, TimeInv, SpacingInv, Stages
  <1>10. CASE Stopped
    <2>1. /\ stage \in {"lock", "blocked"} /\ stage' = "while"
          /\ UNCHANGED <<exec_rate, times, flags, overflow>>
      BY <1>10 DEF Stopped
    <2> QED
      BY <1>2, <1>3, <2>1 DEF IInv, TypeOK, TimeInv, SpacingInv, Exact, Stages
  <1>11. CASE WakeUp
    <2>1. TypeOK'
      BY <1>2, <1>11 DEF WakeUp, IInv, TypeOK, Stages
    <2>2. TimeInv'
      BY <1>2, <1>11 DEF WakeUp, IInv, TimeInv
    <2>3. next_iteration_time <= LastDue
      <3>1. CASE grid = 0
        BY <1>11, <3>1 DEF WakeUp, LastDue
      <3>2. CASE grid > 0
        <4>1. /\ next_iteration_time - grid \in Int /\ next_iteration_time - grid < 0
              /\ (next_iteration_time - grid) % Period = 0
          BY <1>1, <1>11, <3>2 DEF WakeUp, IInv, TypeOK
        <4>2. next_iteration_time - grid <= -Period
          BY <1>1, <4>1, NegativeMultiple
        <4> QED
          BY <1>1, <3>2, <4>2 DEF LastDue
      <3> QED
        BY <1>1, <3>1, <3>2
    <2>4. SpacingInv'
      BY <1>1, <1>3, <1>11, <2>3 DEF WakeUp, IInv, SpacingInv, Exact, LastDue
    <2> QED
      BY <2>1, <2>2, <2>4 DEF IInv
  <1>12. CASE Pause
    BY <1>2, <1>3, <1>12 DEF Pause, IInv, TypeOK, TimeInv, SpacingInv, Exact
  <1>13. CASE Resume
    <2>1. -Period \in -Period .. 0 /\ -Period < 0
      BY <1>1
    <2>2. TypeOK'
      BY <1>2, <1>13, <2>1 DEF Resume, IInv, TypeOK
    <2>3. TimeInv' /\ SpacingInv'
      BY <1>2, <1>3, <1>13, <2>1 DEF Resume, IInv, TimeInv, SpacingInv, Exact
    <2> QED
      BY <2>2, <2>3 DEF IInv
  <1>14. CASE Stop
    BY <1>2, <1>3, <1>14 DEF Stop, IInv, TypeOK, TimeInv, SpacingInv, Exact
  <1>15. CASE Restart
    BY <1>2, <1>3, <1>15 DEF Restart, IInv, TypeOK, TimeInv, SpacingInv, Exact, Stages
  <1>16. CASE UNCHANGED vars
    BY <1>2, <1>3, <1>16 DEF vars, IInv, TypeOK, TimeInv, SpacingInv, Exact
  <1> QED
    BY <1>4, <1>5, <1>6, <1>7, <1>8, <1>9, <1>10, <1>11, <1>12, <1>13, <1>14, <1>15, <1>16,
       CycleEndIInv, TickIInv
    DEF Next

-----------------------------------------------------------------------------
\* The inductive invariant holds in every state.
THEOREM Invariance == Safety => []IInv
  BY InitIInv, NextIInv, PTL DEF Safety

\* The schedule of a DETACHED worker does not drift and its sleeps are at most a period,
\* for every rate, every overrun and every pause, also where overrun_count overflows.
THEOREM TypeCorrect == Safety => []TypeOK
  <1>1. IInv => TypeOK
    BY DEF IInv
  <1> QED
    BY <1>1, Invariance, PTL

\* The callback is never called twice in one period and never with a period of 0, for
\* every rate that divides a second and as long as overrun_count is an int.
THEOREM SpacingCorrect == Safety => CallbackSpacing
  <1>1. IInv /\ [Next]_vars =>
          [stage # "callback" /\ stage' = "callback" =>
               /\ previous_time_ < 0
               /\ ~overflow /\ Second % exec_rate = 0 => called < LastDue]_vars
    <2> SUFFICES ASSUME IInv, [Next]_vars, stage # "callback", stage' = "callback"
                 PROVE  /\ previous_time_ < 0
                        /\ ~overflow /\ Second % exec_rate = 0 => called < LastDue
      OBVIOUS
    <2>1. stage \in {"lock", "blocked"}
      BY DEF Next, Begin, SleepFor, Enter, While, Blocked, Callback, Stopped, CycleEnd,
             WakeUp, Pause, Resume, Stop, Restart, Tick, vars, Move, Goto
    <2> QED
      BY <2>1 DEF IInv, TimeInv, SpacingInv, Exact
  <1> QED
    BY <1>1, Invariance, PTL DEF Safety, CallbackSpacing

=============================================================================
