----------------------- MODULE AsyncThreadSetupProofs -----------------------
(***************************************************************************)
(* Proofs about AsyncThreadSetup for any nodes, machines, priorities, cores*)
(* and names, and any width of an int that holds a priority.               *)
(***************************************************************************)
EXTENDS AsyncThreadSetup, SequenceTheorems, TLAPS

-----------------------------------------------------------------------------
(* Parameters                                                              *)

\* A cast to int is an int.
LEMMA ToIntType == \A n \in Int : ToInt(n) \in Int
  BY IntHalfAssumption DEF ToInt

\* The cores initialize() appends.
NewCores(n) ==
    [i \in DOMAIN Get(n, "cpu_affinity", << >>) |-> ToInt(Get(n, "cpu_affinity", << >>)[i])]

\* They are numbers, and there are none without the parameter.
LEMMA NewCoresFacts ==
  ASSUME NEW n \in Nodes
  PROVE  /\ NewCores(n) \in Seq(Int)
         /\ "cpu_affinity" \notin DOMAIN n => NewCores(n) = << >>
  <1> DEFINE c == Get(n, "cpu_affinity", << >>)
  <1>1. c \in Seq(Int)
    BY NodesAssumption DEF Get
  <1>2. "cpu_affinity" \notin DOMAIN n => c = << >>
    BY DEF Get
  <1> HIDE DEF c
  <1>3. [i \in DOMAIN c |-> ToInt(c[i])] \in Seq(Int)
    <2>1. DOMAIN c = 1 .. Len(c) /\ Len(c) \in Nat /\ \A i \in 1 .. Len(c) : c[i] \in Int
      BY <1>1
    <2>2. [i \in 1 .. Len(c) |-> ToInt(c[i])] \in [1 .. Len(c) -> Int]
      BY <2>1, ToIntType
    <2>3. \A k \in Nat : \A f \in [1 .. k -> Int] : f \in Seq(Int)
      BY SeqDef
    <2> QED
      BY <2>1, <2>2, <2>3
  <1>4. c = << >> => [i \in DOMAIN c |-> ToInt(c[i])] = << >>
    OBVIOUS
  <1> QED
    BY <1>2, <1>3, <1>4 DEF NewCores, c

\* The fields of the parameters.
LEMMA ParamsRecord ==
  ASSUME NEW p \in Params
  PROVE  p = [thread_priority |-> p.thread_priority,
              cpu_affinity_cores |-> p.cpu_affinity_cores,
              scheduling_policy |-> p.scheduling_policy, exec_rate |-> p.exec_rate,
              thread_name |-> p.thread_name,
              wait_until_initial_trigger |-> p.wait_until_initial_trigger,
              clock |-> p.clock, trigger_predicate |-> p.trigger_predicate]
  BY DEF Params

\* initialize() up to where it may throw.
LEMMA FirstFacts ==
  ASSUME NEW p \in Params, NEW n \in Nodes
  PROVE  InitializeFirst(p, n) =
             [thread_priority |-> IF "thread_priority" \in DOMAIN n
                                  THEN ToInt(n["thread_priority"]) ELSE p.thread_priority,
              cpu_affinity_cores |-> p.cpu_affinity_cores \o NewCores(n),
              scheduling_policy |-> IF "scheduling_policy" \in DOMAIN n
                                    THEN PolicyFrom(n["scheduling_policy"])
                                    ELSE p.scheduling_policy,
              exec_rate |-> p.exec_rate, thread_name |-> p.thread_name,
              wait_until_initial_trigger |-> p.wait_until_initial_trigger,
              clock |-> p.clock, trigger_predicate |-> p.trigger_predicate]
  <1> DEFINE tp == IF "thread_priority" \in DOMAIN n
                   THEN ToInt(n["thread_priority"]) ELSE p.thread_priority
             cs == p.cpu_affinity_cores \o NewCores(n)
             sp == IF "scheduling_policy" \in DOMAIN n
                   THEN PolicyFrom(n["scheduling_policy"]) ELSE p.scheduling_policy
  <1>1. InitializeFirst(p, n) = [[[p EXCEPT !.thread_priority = tp]
                                    EXCEPT !.cpu_affinity_cores = cs]
                                    EXCEPT !.scheduling_policy = sp]
    BY DEF InitializeFirst, NewCores
  <1> HIDE DEF tp, cs, sp
  <1> DEFINE lit(a, b, c) == [thread_priority |-> a, cpu_affinity_cores |-> b,
              scheduling_policy |-> c, exec_rate |-> p.exec_rate,
              thread_name |-> p.thread_name,
              wait_until_initial_trigger |-> p.wait_until_initial_trigger,
              clock |-> p.clock, trigger_predicate |-> p.trigger_predicate]
  <1>2. [p EXCEPT !.thread_priority = tp]
            = lit(tp, p.cpu_affinity_cores, p.scheduling_policy)
    BY ParamsRecord
  <1>3. \A a, b, c, d : [lit(a, b, c) EXCEPT !.cpu_affinity_cores = d] = lit(a, d, c)
    OBVIOUS
  <1>4. \A a, b, c, d : [lit(a, b, c) EXCEPT !.scheduling_policy = d] = lit(a, b, d)
    OBVIOUS
  <1>5. InitializeFirst(p, n) = lit(tp, cs, sp)
    BY <1>1, <1>2, <1>3, <1>4
  <1> QED
    BY <1>5 DEF tp, cs, sp

\* initialize() as a whole, field by field.
LEMMA InitializeFacts ==
  ASSUME NEW p \in Params, NEW n \in Nodes
  PROVE  LET first  == InitializeFirst(p, n)
             throws == InitializeThrows(p, n)
             q      == Initialize(p, n) IN
         /\ q = [thread_priority |-> first.thread_priority,
                 cpu_affinity_cores |-> first.cpu_affinity_cores,
                 scheduling_policy |-> first.scheduling_policy,
                 exec_rate |-> IF ~throws /\ ReadsRate(p, n) THEN ToInt(n["execution_rate"])
                               ELSE p.exec_rate,
                 thread_name |-> IF throws THEN p.thread_name
                                 ELSE Get(n, "thread_name", p.thread_name),
                 wait_until_initial_trigger |->
                     IF throws THEN p.wait_until_initial_trigger
                     ELSE Get(n, "wait_until_initial_trigger", p.wait_until_initial_trigger),
                 clock |-> p.clock, trigger_predicate |-> p.trigger_predicate]
         /\ q \in Params
  <1> DEFINE first  == InitializeFirst(p, n)
             er == IF ReadsRate(p, n) THEN ToInt(n["execution_rate"]) ELSE p.exec_rate
             wt == Get(n, "wait_until_initial_trigger", p.wait_until_initial_trigger)
             tn == Get(n, "thread_name", p.thread_name)
             tp == first.thread_priority
             cs == first.cpu_affinity_cores
             sp == first.scheduling_policy
             lit(a, b, c) == [thread_priority |-> tp, cpu_affinity_cores |-> cs,
                 scheduling_policy |-> sp,
                 exec_rate |-> a, thread_name |-> c, wait_until_initial_trigger |-> b,
                 clock |-> p.clock, trigger_predicate |-> p.trigger_predicate]
  <1>1. first = lit(p.exec_rate, p.wait_until_initial_trigger, p.thread_name)
    BY FirstFacts
  <1>2. /\ first.exec_rate = p.exec_rate /\ first.thread_name = p.thread_name
        /\ first.wait_until_initial_trigger = p.wait_until_initial_trigger
    BY FirstFacts
  <1>3. ~InitializeThrows(p, n) =>
            Initialize(p, n) = [[[first EXCEPT !.exec_rate = er]
                                    EXCEPT !.wait_until_initial_trigger = wt]
                                    EXCEPT !.thread_name = tn]
    BY <1>2 DEF Initialize
  <1>4. InitializeThrows(p, n) => Initialize(p, n) = first
    BY DEF Initialize
  <1>5. tp \in Int /\ sp \in Policies /\ cs \in Seq(Int)
    <2>1. first.thread_priority \in Int
      BY FirstFacts, ToIntType, NodesAssumption DEF Params
    <2>2. first.scheduling_policy \in Policies
      BY FirstFacts DEF Params, PolicyFrom, Policies
    <2>3. p.cpu_affinity_cores \in Seq(Int) /\ NewCores(n) \in Seq(Int)
      BY NewCoresFacts DEF Params
    <2>4. first.cpu_affinity_cores = p.cpu_affinity_cores \o NewCores(n)
      BY FirstFacts
    <2> QED
      BY <2>1, <2>2, <2>3, <2>4, ConcatProperties
  <1>6. /\ p.exec_rate \in Nat /\ (~InitializeThrows(p, n) => er \in Nat)
    BY ToIntType, NodesAssumption DEF InitializeThrows, ReadsRate, Params
  <1>7. /\ p.wait_until_initial_trigger \in BOOLEAN /\ wt \in BOOLEAN
        /\ p.thread_name \in Nat /\ tn \in Nat
        /\ p.clock \in BOOLEAN /\ p.trigger_predicate \in BOOLEAN
    BY NodesAssumption DEF Params, Get
  <1> HIDE DEF first, er, wt, tn, tp, cs, sp
  <1>8. \A a, b, c, d : [lit(a, b, c) EXCEPT !.exec_rate = d] = lit(d, b, c)
    OBVIOUS
  <1>9. \A a, b, c, d : [lit(a, b, c) EXCEPT !.wait_until_initial_trigger = d] = lit(a, d, c)
    OBVIOUS
  <1>10. \A a, b, c, d : [lit(a, b, c) EXCEPT !.thread_name = d] = lit(a, b, d)
    OBVIOUS
  <1>11. ~InitializeThrows(p, n) => Initialize(p, n) = lit(er, wt, tn)
    BY <1>1, <1>3, <1>8, <1>9, <1>10
  <1>12. \A a \in Nat, b \in BOOLEAN, c \in Nat : lit(a, b, c) \in Params
    BY <1>5, <1>7 DEF Params
  <1>13. CASE InitializeThrows(p, n)
    <2>1. Initialize(p, n) = lit(p.exec_rate, p.wait_until_initial_trigger, p.thread_name)
      BY <1>1, <1>4, <1>13
    <2> QED
      BY <1>6, <1>7, <1>12, <1>13, <2>1 DEF first, tp, cs, sp
  <1>14. CASE ~InitializeThrows(p, n)
    <2>1. Initialize(p, n) = lit(er, wt, tn)
      BY <1>11, <1>14
    <2>2. Initialize(p, n) \in Params
      BY <1>6, <1>7, <1>12, <1>14, <2>1
    <2> QED
      BY <1>14, <2>1, <2>2 DEF first, er, wt, tn, tp, cs, sp
  <1> QED
    BY <1>13, <1>14

\* The parameters without what does not count.
LEMMA MeaningFacts ==
  ASSUME NEW p \in Params
  PROVE  Meaning(p) = [thread_priority |-> p.thread_priority, cpu_affinity_cores |-> << >>,
              scheduling_policy |-> p.scheduling_policy,
              exec_rate |-> IF p.scheduling_policy = "DETACHED" THEN p.exec_rate ELSE 0,
              thread_name |-> p.thread_name,
              wait_until_initial_trigger |-> p.wait_until_initial_trigger,
              clock |-> p.clock, trigger_predicate |-> p.trigger_predicate]
  <1> DEFINE er == IF p.scheduling_policy = "DETACHED" THEN p.exec_rate ELSE 0
             lit(a, b) == [thread_priority |-> p.thread_priority, cpu_affinity_cores |-> b,
              scheduling_policy |-> p.scheduling_policy, exec_rate |-> a,
              thread_name |-> p.thread_name,
              wait_until_initial_trigger |-> p.wait_until_initial_trigger,
              clock |-> p.clock, trigger_predicate |-> p.trigger_predicate]
  <1>1. Meaning(p) = [[p EXCEPT !.exec_rate = er] EXCEPT !.cpu_affinity_cores = << >>]
    BY DEF Meaning
  <1>2. p = lit(p.exec_rate, p.cpu_affinity_cores)
    BY ParamsRecord
  <1> HIDE DEF er
  <1>3. [p EXCEPT !.exec_rate = er] = lit(er, p.cpu_affinity_cores)
    BY <1>2
  <1>4. \A b : [lit(er, b) EXCEPT !.cpu_affinity_cores = << >>] = lit(er, << >>)
    OBVIOUS
  <1>5. Meaning(p) = lit(er, << >>)
    BY <1>1, <1>3, <1>4
  <1> QED
    BY <1>5 DEF er

\* A list of the processors of a node names one.
NonEmptyCores == \A m \in Nodes : "cpu_affinity" \in DOMAIN m => m["cpu_affinity"] # << >>

\* What initialize() may have left in the parameters: a field whose parameter the node
\* does not have was never written; priority and policy are those of the node even
\* after an exception, the others only after a call that returned.
FieldInv ==
    /\ params.thread_priority = IF "thread_priority" \in DOMAIN node
                                THEN ToInt(node["thread_priority"]) ELSE 50
    /\ params.scheduling_policy = IF "scheduling_policy" \in DOMAIN node
                                  THEN PolicyFrom(node["scheduling_policy"])
                                  ELSE "SYNCHRONIZED"
    /\ "execution_rate" \notin DOMAIN node => params.exec_rate = 0
    /\ "wait_until_initial_trigger" \notin DOMAIN node =>
          params.wait_until_initial_trigger = TRUE
    /\ "thread_name" \notin DOMAIN node => params.thread_name = 0

LoadedInv ==
    loaded =>
        /\ node \in Nodes
        /\ params.scheduling_policy = "DETACHED" /\ "execution_rate" \in DOMAIN node =>
              ToInt(node["execution_rate"]) > 0 /\ params.exec_rate = ToInt(node["execution_rate"])
        /\ "wait_until_initial_trigger" \in DOMAIN node =>
              params.wait_until_initial_trigger = node["wait_until_initial_trigger"]
        /\ "thread_name" \in DOMAIN node => params.thread_name = node["thread_name"]

\* The cores of the node are among those of the parameters.
CoresInv ==
    /\ "cpu_affinity" \notin DOMAIN node => params.cpu_affinity_cores = << >>
    /\ node \in Nodes =>
          \A i \in DOMAIN NewCores(node) : \E j \in DOMAIN params.cpu_affinity_cores :
              params.cpu_affinity_cores[j] = NewCores(node)[i]

\* initialize() on parameters that were, or were not, filled before.
LEMMA LoadFields ==
  ASSUME NEW m \in Nodes, Load(m), params \in Params, FieldInv, CoresInv
  PROVE  params' \in Params /\ FieldInv' /\ LoadedInv' /\ CoresInv'
  <1> DEFINE first  == InitializeFirst(params, m)
             throws == InitializeThrows(params, m)
             q      == Initialize(params, m)
  <1>1. /\ node' = m /\ params' = q /\ loaded' = ~throws /\ DOMAIN node \subseteq DOMAIN m
    BY DEF Load
  <1>2. /\ q \in Params /\ q.thread_priority = first.thread_priority
        /\ q.cpu_affinity_cores = first.cpu_affinity_cores
        /\ q.scheduling_policy = first.scheduling_policy
        /\ q.exec_rate = IF ~throws /\ ReadsRate(params, m) THEN ToInt(m["execution_rate"])
                         ELSE params.exec_rate
        /\ q.thread_name = IF throws THEN params.thread_name
                           ELSE Get(m, "thread_name", params.thread_name)
        /\ q.wait_until_initial_trigger =
              IF throws THEN params.wait_until_initial_trigger
              ELSE Get(m, "wait_until_initial_trigger", params.wait_until_initial_trigger)
    BY InitializeFacts
  <1>3. /\ first.thread_priority = IF "thread_priority" \in DOMAIN m
                                   THEN ToInt(m["thread_priority"]) ELSE params.thread_priority
        /\ first.cpu_affinity_cores = params.cpu_affinity_cores \o NewCores(m)
        /\ first.scheduling_policy = IF "scheduling_policy" \in DOMAIN m
                                     THEN PolicyFrom(m["scheduling_policy"])
                                     ELSE params.scheduling_policy
    BY FirstFacts
  <1>4. ReadsRate(params, m) <=> /\ q.scheduling_policy = "DETACHED"
                                 /\ "execution_rate" \in DOMAIN m
    BY <1>2 DEF ReadsRate
  <1>5. throws <=> ReadsRate(params, m) /\ ToInt(m["execution_rate"]) <= 0
    BY DEF InitializeThrows
  <1>6. \A x : x \notin DOMAIN m => x \notin DOMAIN node
    BY <1>1
  <1> HIDE DEF first, throws, q
  <1>7. FieldInv'
    <2>1. /\ q.thread_priority = IF "thread_priority" \in DOMAIN m
                                 THEN ToInt(m["thread_priority"]) ELSE 50
          /\ q.scheduling_policy = IF "scheduling_policy" \in DOMAIN m
                                   THEN PolicyFrom(m["scheduling_policy"]) ELSE "SYNCHRONIZED"
      BY <1>2, <1>3, <1>6 DEF FieldInv
    <2>2. /\ "execution_rate" \notin DOMAIN m => q.exec_rate = 0
          /\ "wait_until_initial_trigger" \notin DOMAIN m => q.wait_until_initial_trigger = TRUE
          /\ "thread_name" \notin DOMAIN m => q.thread_name = 0
      BY <1>2, <1>4, <1>6 DEF FieldInv, Get
    <2> QED
      BY <1>1, <2>1, <2>2 DEF FieldInv
  <1>8. LoadedInv'
    <2>1. CASE throws
      BY <1>1, <2>1 DEF LoadedInv
    <2>2. CASE ~throws
      <3>1. q.scheduling_policy = "DETACHED" /\ "execution_rate" \in DOMAIN m =>
              ToInt(m["execution_rate"]) > 0 /\ q.exec_rate = ToInt(m["execution_rate"])
        BY <1>2, <1>4, <1>5, <2>2, ToIntType, NodesAssumption
      <3>2. /\ "wait_until_initial_trigger" \in DOMAIN m =>
                  q.wait_until_initial_trigger = m["wait_until_initial_trigger"]
            /\ "thread_name" \in DOMAIN m => q.thread_name = m["thread_name"]
        BY <1>2, <2>2 DEF Get
      <3> QED
        BY <1>1, <3>1, <3>2 DEF LoadedInv
    <2> QED
      BY <2>1, <2>2
  <1>9. CoresInv'
    <2> DEFINE s == params.cpu_affinity_cores
               c == NewCores(m)
    <2>1. s \in Seq(Int) /\ c \in Seq(Int) /\ ("cpu_affinity" \notin DOMAIN m => c = << >>)
      BY NewCoresFacts DEF Params
    <2>2. "cpu_affinity" \notin DOMAIN m => s = << >>
      BY <1>6 DEF CoresInv
    <2>3. q.cpu_affinity_cores = s \o c
      BY <1>2, <1>3
    <2> HIDE DEF s, c
    <2>4. "cpu_affinity" \notin DOMAIN m => s \o c = << >>
      BY <2>1, <2>2
    <2>5. ASSUME NEW i \in DOMAIN c
          PROVE  \E j \in DOMAIN (s \o c) : (s \o c)[j] = c[i]
      <3>1. Len(s) + i \in DOMAIN (s \o c) /\ (s \o c)[Len(s) + i] = c[i]
        BY <2>1, <2>5, ConcatProperties
      <3> QED
        BY <3>1
    <2> QED
      BY <1>1, <2>3, <2>4, <2>5 DEF CoresInv, c
  <1> QED
    BY <1>1, <1>2, <1>7, <1>8, <1>9

\* After an initialize() that returned the parameters are those of a first call.
LEMMA FieldsRetry ==
  ASSUME NonEmptyCores, params \in Params, FieldInv, LoadedInv, CoresInv
  PROVE  RetryEqualsFresh
  <1> DEFINE d     == Defaults(params.clock, params.trigger_predicate)
             fresh == Initialize(d, node)
  <1> SUFFICES ASSUME loaded
               PROVE  /\ Meaning(params) = Meaning(fresh)
                      /\ CpuSet(fresh.cpu_affinity_cores) \subseteq CpuSet(params.cpu_affinity_cores)
    BY DEF RetryEqualsFresh
  <1>1. node \in Nodes
    BY DEF LoadedInv
  <1>2. /\ d \in Params /\ d.thread_priority = 50 /\ d.cpu_affinity_cores = << >>
        /\ d.scheduling_policy = "SYNCHRONIZED" /\ d.exec_rate = 0 /\ d.thread_name = 0
        /\ d.wait_until_initial_trigger = TRUE
        /\ d.clock = params.clock /\ d.trigger_predicate = params.trigger_predicate
    BY DEF Defaults, Params, Policies
  <1> HIDE DEF d
  <1> DEFINE first  == InitializeFirst(d, node)
             throws == InitializeThrows(d, node)
  <1>3. /\ fresh \in Params /\ fresh.thread_priority = first.thread_priority
        /\ fresh.cpu_affinity_cores = first.cpu_affinity_cores
        /\ fresh.scheduling_policy = first.scheduling_policy
        /\ fresh.exec_rate = IF ~throws /\ ReadsRate(d, node) THEN ToInt(node["execution_rate"])
                             ELSE d.exec_rate
        /\ fresh.thread_name = IF throws THEN d.thread_name
                               ELSE Get(node, "thread_name", d.thread_name)
        /\ fresh.wait_until_initial_trigger =
              IF throws THEN d.wait_until_initial_trigger
              ELSE Get(node, "wait_until_initial_trigger", d.wait_until_initial_trigger)
        /\ fresh.clock = d.clock /\ fresh.trigger_predicate = d.trigger_predicate
    BY <1>1, <1>2, InitializeFacts
  <1>4. /\ first.thread_priority = IF "thread_priority" \in DOMAIN node
                                   THEN ToInt(node["thread_priority"]) ELSE d.thread_priority
        /\ first.cpu_affinity_cores = d.cpu_affinity_cores \o NewCores(node)
        /\ first.scheduling_policy = IF "scheduling_policy" \in DOMAIN node
                                     THEN PolicyFrom(node["scheduling_policy"])
                                     ELSE d.scheduling_policy
    <2>1. d \in Params
      BY <1>2
    <2> QED
      BY <1>1, <2>1, FirstFacts
  <1>5. /\ fresh.thread_priority = params.thread_priority
        /\ fresh.scheduling_policy = params.scheduling_policy
    BY <1>2, <1>3, <1>4 DEF FieldInv
  <1>6. ReadsRate(d, node) <=> /\ params.scheduling_policy = "DETACHED"
                               /\ "execution_rate" \in DOMAIN node
    BY <1>3, <1>5 DEF ReadsRate
  <1>7. ~throws
    BY <1>1, <1>6, ToIntType, NodesAssumption DEF InitializeThrows, LoadedInv
  <1> HIDE DEF first, throws, fresh
  <1>8. params.scheduling_policy = "DETACHED" => fresh.exec_rate = params.exec_rate
    BY <1>2, <1>3, <1>6, <1>7 DEF FieldInv, LoadedInv
  <1>9. /\ fresh.thread_name = params.thread_name
        /\ fresh.wait_until_initial_trigger = params.wait_until_initial_trigger
    BY <1>2, <1>3, <1>7 DEF FieldInv, LoadedInv, Get
  <1>10. Meaning(params) = Meaning(fresh)
    BY <1>2, <1>3, <1>5, <1>8, <1>9, MeaningFacts
  <1>11. CpuSet(fresh.cpu_affinity_cores) \subseteq CpuSet(params.cpu_affinity_cores)
    <2> DEFINE s == params.cpu_affinity_cores
               c == NewCores(node)
    <2>1. s \in Seq(Int) /\ c \in Seq(Int) /\ ("cpu_affinity" \notin DOMAIN node => c = << >>)
      BY <1>1, NewCoresFacts DEF Params
    <2>2. fresh.cpu_affinity_cores = c
      BY <1>2, <1>3, <1>4, <2>1
    <2>3. \A i \in DOMAIN c : \E j \in DOMAIN s : s[j] = c[i]
      BY <1>1 DEF CoresInv
    <2>4. CASE "cpu_affinity" \notin DOMAIN node
      BY <2>1, <2>2, <2>4 DEF CoresInv
    <2>5. CASE "cpu_affinity" \in DOMAIN node
      <3>1. node["cpu_affinity"] # << >> /\ node["cpu_affinity"] \in Seq(Int)
        BY <1>1, <2>5, NodesAssumption DEF NonEmptyCores
      <3>2. 1 \in DOMAIN c
        BY <2>5, <3>1 DEF NewCores, Get
      <3> HIDE DEF c, s
      <3>3. c # << >> /\ s # << >>
        BY <2>3, <3>2
      <3>4. CpuSet(c) = {c[i] : i \in DOMAIN c} /\ CpuSet(s) = {s[i] : i \in DOMAIN s}
        BY <3>3 DEF CpuSet
      <3> QED
        BY <2>2, <2>3, <3>4 DEF s
    <2> QED
      BY <2>4, <2>5
  <1> QED
    BY <1>10, <1>11

-----------------------------------------------------------------------------
(* realtime_helpers                                                        *)

\* An error that says that the limit is too low is reported later on through errno.
HelpersInv ==
    /\ HelpersOK
    /\ \A t \in Threads : errno[t] = "ENOMEM" => memory.effective

\* What a machine allows can be the processors of a thread.
LEMMA MachineFacts ==
  ASSUME machine \in Machines
  PROVE  /\ machine.allowed # {} /\ machine.allowed \subseteq UNION {m.allowed : m \in Machines}
         /\ machine.realtime \in BOOLEAN /\ machine.memlock \in Limits
         /\ machine.ipc_lock \in BOOLEAN
  BY MachinesAssumption DEF Machine

\* The errors of sched_setscheduler().
LEMMA SchedulerFacts ==
  ASSUME machine \in Machines, NEW priority \in Int
  PROVE  /\ SchedulerError(priority) \in {Success, "EINVAL", "EPERM"}
         /\ SchedulerError(priority) = Success => priority \in 1 .. 99
  BY MachineFacts DEF SchedulerError, Success

\* An answer and errno of the right kind.
LEMMA AnswerFacts ==
  ASSUME HelpersInv, NEW t \in Threads, NEW message \in Messages, NEW error \in Errors,
         Answer(t, message, error)
  PROVE  /\ answer' \in [Threads -> [ok : BOOLEAN, message : Messages, error : Errors]]
         /\ answer'[t].ok = (error = Success) /\ answer'[t].message = message
         /\ \A u \in Threads : u # t => answer'[u] = answer[u]
  BY DEF HelpersInv, HelpersOK, Answer

\* A system call leaves errno alone or sets it to its error.
LEMMA ErrnoFacts ==
  ASSUME HelpersInv, NEW t \in Threads, NEW error \in Errors, SetErrno(t, error)
  PROVE  /\ errno' \in [Threads -> Errors]
         /\ errno'[t] \in {errno[t], error}
         /\ \A u \in Threads : u # t => errno'[u] = errno[u]
  BY DEF HelpersInv, HelpersOK, SetErrno, Errors

\* The attributes of one thread change.
LEMMA AttrFacts ==
  ASSUME HelpersInv, NEW t \in Threads, NEW a \in Attributes,
         a.cpus # {}, a.cpus \subseteq machine.allowed, attr' = [attr EXCEPT ![t] = a],
         UNCHANGED machine
  PROVE  /\ attr' \in [Threads -> Attributes]
         /\ \A u \in Threads : attr'[u].cpus # {} /\ attr'[u].cpus \subseteq machine'.allowed
         /\ attr'[t] = a /\ \A u \in Threads : u # t => attr'[u] = attr[u]
  BY DEF HelpersInv, HelpersOK

\* configure_sched_fifo() and configure_sched_rr() give a thread the policy and the
\* priority, or leave both.
LEMMA SchedStep ==
  ASSUME HelpersInv, NEW t \in Threads, NEW policy \in {"FIFO", "RR"}, NEW priority \in Int,
         ConfigureSched(t, policy, priority)
  PROVE  /\ HelpersInv' /\ UNCHANGED <<machine, alive, memory>>
         /\ \A u \in Threads : u # t => attr'[u] = attr[u] /\ answer'[u] = answer[u]
         /\ attr'[t].cpus = attr[t].cpus
         /\ IF SchedulerError(priority) = Success
            THEN attr'[t].policy = policy /\ attr'[t].priority = priority
            ELSE attr'[t] = attr[t]
  <1> DEFINE e == SchedulerError(priority)
             a == [attr[t] EXCEPT !.policy = policy, !.priority = priority]
  <1>1. /\ machine \in Machines /\ attr \in [Threads -> Attributes] /\ attr[t] \in Attributes
        /\ attr[t].cpus # {} /\ attr[t].cpus \subseteq machine.allowed
    BY DEF HelpersInv, HelpersOK
  <1>2. e \in {Success, "EINVAL", "EPERM"} /\ (e = Success => priority \in 1 .. 99)
    BY <1>1, SchedulerFacts
  <1>3. e \in Errors /\ e \in Messages /\ e # "ENOMEM"
    BY <1>2 DEF Errors, Messages, Success
  <1>4. UNCHANGED <<machine, alive, memory>> /\ SetErrno(t, e) /\ Answer(t, e, e)
    BY DEF ConfigureSched
  <1>5. attr' = IF e # Success THEN attr ELSE [attr EXCEPT ![t] = a]
    BY <1>1 DEF ConfigureSched
  <1>6. e = Success => /\ a \in Attributes /\ a.cpus = attr[t].cpus
                       /\ a.policy = policy /\ a.priority = priority
    <2> SUFFICES ASSUME e = Success
                 PROVE  /\ a \in Attributes /\ a.cpus = attr[t].cpus
                        /\ a.policy = policy /\ a.priority = priority
      OBVIOUS
    <2>1. attr[t] = [policy |-> attr[t].policy, priority |-> attr[t].priority,
                     cpus |-> attr[t].cpus, name |-> attr[t].name]
      BY <1>1 DEF Attributes
    <2>2. a = [[attr[t] EXCEPT !.policy = policy] EXCEPT !.priority = priority]
      OBVIOUS
    <2>3. [attr[t] EXCEPT !.policy = policy]
              = [policy |-> policy, priority |-> attr[t].priority,
                 cpus |-> attr[t].cpus, name |-> attr[t].name]
      BY <2>1
    <2>4. a = [policy |-> policy, priority |-> priority,
               cpus |-> attr[t].cpus, name |-> attr[t].name]
      <3>1. \A c, n, x, y : [[policy |-> policy, priority |-> x, cpus |-> c, name |-> n]
                                EXCEPT !.priority = y]
                           = [policy |-> policy, priority |-> y, cpus |-> c, name |-> n]
        OBVIOUS
      <3> HIDE DEF a
      <3> QED
        BY <2>2, <2>3, <3>1
    <2>5. priority \in 0 .. 99
      BY <1>2
    <2> QED
      BY <1>1, <2>4, <2>5 DEF Attributes
  <1> HIDE DEF a, e
  <1>7. /\ attr' \in [Threads -> Attributes]
        /\ \A u \in Threads : attr'[u].cpus # {} /\ attr'[u].cpus \subseteq machine'.allowed
        /\ \A u \in Threads : u # t => attr'[u] = attr[u]
        /\ attr'[t].cpus = attr[t].cpus
        /\ IF e = Success THEN attr'[t].policy = policy /\ attr'[t].priority = priority
                          ELSE attr'[t] = attr[t]
    <2>1. CASE e # Success
      BY <1>4, <1>5, <2>1 DEF HelpersInv, HelpersOK
    <2>2. CASE e = Success
      <3>1. /\ attr' = [attr EXCEPT ![t] = a] /\ a \in Attributes /\ a.cpus = attr[t].cpus
            /\ a.policy = policy /\ a.priority = priority
        BY <1>5, <1>6, <2>2
      <3>2. a.cpus # {} /\ a.cpus \subseteq machine.allowed /\ UNCHANGED machine
        BY <1>1, <1>4, <3>1
      <3> QED
        BY <2>2, <3>1, <3>2, AttrFacts
    <2> QED
      BY <2>1, <2>2
  <1>8. /\ answer' \in [Threads -> [ok : BOOLEAN, message : Messages, error : Errors]]
        /\ answer'[t].message = e /\ \A u \in Threads : u # t => answer'[u] = answer[u]
    BY <1>3, <1>4, AnswerFacts
  <1>9. /\ errno' \in [Threads -> Errors] /\ errno'[t] \in {errno[t], e}
        /\ \A u \in Threads : u # t => errno'[u] = errno[u]
    BY <1>3, <1>4, ErrnoFacts
  <1>10. HelpersInv'
    BY <1>3, <1>4, <1>7, <1>8, <1>9 DEF HelpersInv, HelpersOK
  <1> QED
    BY <1>4, <1>7, <1>8, <1>10 DEF e

\* set_thread_affinity() gives a thread the processors asked for, or leaves them.
LEMMA AffinityStep ==
  ASSUME HelpersInv, NEW t \in Threads, NEW u \in Threads, NEW cores,
         SetThreadAffinity(t, u, cores)
  PROVE  LET cpus    == CpuSet(cores) \cap machine.allowed
             granted == ValidCores(cores) /\ u \in alive /\ cpus # {} IN
         /\ HelpersInv' /\ UNCHANGED <<machine, alive, memory>>
         /\ \A v \in Threads : v # u => attr'[v] = attr[v]
         /\ \A v \in Threads : v # t => answer'[v] = answer[v]
         /\ granted => answer'[t].ok = TRUE
         /\ ~granted => answer'[t].ok = FALSE
         /\ attr'[u].policy = attr[u].policy /\ attr'[u].priority = attr[u].priority
         /\ attr'[u].cpus = IF granted THEN cpus ELSE attr[u].cpus
  <1> DEFINE cpus    == CpuSet(cores) \cap machine.allowed
             e       == AffinityError(u, CpuSet(cores))
             granted == ValidCores(cores) /\ u \in alive /\ cpus # {}
             a       == [attr[u] EXCEPT !.cpus = cpus]
  <1>1. /\ machine \in Machines /\ attr \in [Threads -> Attributes] /\ attr[u] \in Attributes
        /\ errno[t] \in Errors /\ (errno[t] = "ENOMEM" => memory.effective)
    BY DEF HelpersInv, HelpersOK
  <1>2. e \in {Success, "ESRCH", "EINVAL"} /\ (e = Success <=> u \in alive /\ cpus # {})
    BY DEF AffinityError, Success
  <1>3. UNCHANGED <<machine, alive, errno, memory>>
    BY DEF SetThreadAffinity
  <1>4. PICK message \in Messages, error \in Errors :
            /\ Answer(t, message, error) /\ (error = Success <=> granted)
            /\ message = "ENOMEM" => memory.effective
    <2>1. CASE ~ValidCores(cores)
      <3>1. Answer(t, "invalid core numbers", "EINVAL")
        BY <2>1 DEF SetThreadAffinity
      <3>2. /\ "invalid core numbers" \in Messages /\ "EINVAL" \in Errors
            /\ "EINVAL" # Success /\ "invalid core numbers" # "ENOMEM"
        BY DEF Messages, Errors, Success
      <3>3. ~granted
        BY <2>1
      <3> HIDE DEF granted
      <3> QED
        BY <3>1, <3>2, <3>3
    <2>2. CASE ValidCores(cores)
      <3>1. Answer(t, IF e = Success THEN Success ELSE errno[t], e)
        BY <2>2 DEF SetThreadAffinity
      <3>2. e \in Errors /\ (IF e = Success THEN Success ELSE errno[t]) \in Messages
        BY <1>1, <1>2 DEF Errors, Messages, Success
      <3>3. (IF e = Success THEN Success ELSE errno[t]) = "ENOMEM" => memory.effective
        BY <1>1 DEF Success
      <3> HIDE DEF e
      <3> QED
        BY <1>2, <2>2, <3>1, <3>2, <3>3
    <2> QED
      BY <2>1, <2>2
  <1>5. attr' = IF granted THEN [attr EXCEPT ![u] = a] ELSE attr
    BY <1>1, <1>2 DEF SetThreadAffinity
  <1>6. /\ cpus \subseteq machine.allowed /\ a \in Attributes /\ a.cpus = cpus
        /\ a.policy = attr[u].policy /\ a.priority = attr[u].priority
    <2>1. cpus \in SUBSET UNION {m.allowed : m \in Machines}
      BY <1>1, MachineFacts
    <2> HIDE DEF cpus
    <2>2. a \in Attributes /\ a.cpus = cpus
          /\ a.policy = attr[u].policy /\ a.priority = attr[u].priority
      BY <1>1, <2>1 DEF Attributes
    <2> QED
      BY <2>2 DEF cpus
  <1>7. granted => cpus # {}
    OBVIOUS
  <1> HIDE DEF a, cpus, granted
  <1>8. /\ attr' \in [Threads -> Attributes]
        /\ \A v \in Threads : attr'[v].cpus # {} /\ attr'[v].cpus \subseteq machine'.allowed
        /\ \A v \in Threads : v # u => attr'[v] = attr[v]
        /\ attr'[u].policy = attr[u].policy /\ attr'[u].priority = attr[u].priority
        /\ attr'[u].cpus = IF granted THEN cpus ELSE attr[u].cpus
    <2>1. CASE ~granted
      BY <1>3, <1>5, <2>1 DEF HelpersInv, HelpersOK
    <2>2. CASE granted
      <3>1. /\ attr' = [attr EXCEPT ![u] = a] /\ a \in Attributes
            /\ a.cpus # {} /\ a.cpus \subseteq machine.allowed /\ UNCHANGED machine
        BY <1>3, <1>5, <1>6, <1>7, <2>2
      <3> QED
        BY <1>6, <2>2, <3>1, AttrFacts
    <2> QED
      BY <2>1, <2>2
  <1>9. /\ answer' \in [Threads -> [ok : BOOLEAN, message : Messages, error : Errors]]
        /\ answer'[t].message = message /\ answer'[t].ok = granted
        /\ \A v \in Threads : v # t => answer'[v] = answer[v]
    <2>1. granted \in BOOLEAN
      BY DEF granted
    <2> QED
      BY <1>4, <2>1, AnswerFacts
  <1>10. HelpersInv'
    BY <1>3, <1>4, <1>8, <1>9 DEF HelpersInv, HelpersOK
  <1>11. (granted => answer'[t].ok = TRUE) /\ (~granted => answer'[t].ok = FALSE)
    BY <1>9 DEF granted
  <1> QED
    BY <1>3, <1>8, <1>9, <1>10, <1>11 DEF cpus, granted

\* set_current_thread_name() changes the name only.
LEMMA NameStep ==
  ASSUME HelpersInv, NEW t \in Threads, NEW name \in Nat, SetCurrentThreadName(t, name)
  PROVE  /\ HelpersInv' /\ UNCHANGED <<machine, alive, memory>>
         /\ \A u \in Threads : u # t => attr'[u] = attr[u] /\ answer'[u] = answer[u]
         /\ attr'[t].cpus = attr[t].cpus /\ attr'[t].policy = attr[t].policy
         /\ attr'[t].priority = attr[t].priority
  <1> DEFINE n == Truncated(name)
             a == [attr[t] EXCEPT !.name = n]
  <1>1. /\ attr \in [Threads -> Attributes] /\ attr[t] \in Attributes
        /\ attr[t].cpus # {} /\ attr[t].cpus \subseteq machine.allowed
    BY DEF HelpersInv, HelpersOK
  <1>2. UNCHANGED <<machine, alive, errno, memory>>
    BY DEF SetCurrentThreadName
  <1>3. PICK message \in Messages, error \in Errors :
            Answer(t, message, error) /\ message # "ENOMEM"
    BY DEF SetCurrentThreadName, Messages, Errors, Success
  <1>4. attr' = attr \/ attr' = [attr EXCEPT ![t] = a]
    BY <1>1 DEF SetCurrentThreadName
  <1>5. /\ a \in Attributes /\ a.cpus = attr[t].cpus /\ a.policy = attr[t].policy
        /\ a.priority = attr[t].priority
    <2>1. n \in 0 .. 15
      BY DEF Truncated
    <2> HIDE DEF n
    <2> QED
      BY <1>1, <2>1 DEF Attributes
  <1> HIDE DEF a
  <1>6. /\ attr' \in [Threads -> Attributes]
        /\ \A u \in Threads : attr'[u].cpus # {} /\ attr'[u].cpus \subseteq machine'.allowed
        /\ \A u \in Threads : u # t => attr'[u] = attr[u]
        /\ attr'[t].cpus = attr[t].cpus /\ attr'[t].policy = attr[t].policy
        /\ attr'[t].priority = attr[t].priority
    <2>1. CASE attr' = attr
      BY <1>2, <2>1 DEF HelpersInv, HelpersOK
    <2>2. CASE attr' = [attr EXCEPT ![t] = a]
      <3>1. a.cpus # {} /\ a.cpus \subseteq machine.allowed /\ UNCHANGED machine
        BY <1>1, <1>2, <1>5
      <3> QED
        BY <1>5, <2>2, <3>1, AttrFacts
    <2> QED
      BY <1>4, <2>1, <2>2
  <1>7. /\ answer' \in [Threads -> [ok : BOOLEAN, message : Messages, error : Errors]]
        /\ answer'[t].message = message /\ \A u \in Threads : u # t => answer'[u] = answer[u]
    BY <1>3, AnswerFacts
  <1>8. HelpersInv'
    BY <1>2, <1>3, <1>6, <1>7 DEF HelpersInv, HelpersOK
  <1> QED
    BY <1>2, <1>6, <1>7, <1>8

\* lock_memory() changes nothing of a thread but errno and the answer.  It reports a
\* limit that is too low only when it has put CAP_IPC_LOCK in force.
LEMMA MemoryStep ==
  ASSUME HelpersInv, NEW t \in Threads, LockMemory(t)
  PROVE  /\ HelpersInv' /\ UNCHANGED <<machine, alive, attr>>
         /\ \A u \in Threads : u # t => answer'[u] = answer[u]
  <1>1. PICK error \in LockErrors :
          /\ memory' = [IsCapable(error) EXCEPT !.locked = @ \/ error = Success]
          /\ SetErrno(t, IF error # Success /\ ~machine.ipc_lock THEN "EPERM" ELSE error)
          /\ Answer(t, IF error # Success /\ ~machine.ipc_lock THEN "no privileges" ELSE error,
                    error)
          /\ UNCHANGED <<machine, alive, attr>>
    BY DEF LockMemory
  <1>2. machine \in Machines /\ memory \in [locked : BOOLEAN, effective : BOOLEAN]
    BY DEF HelpersInv, HelpersOK
  <1>3. error \in {Success, "EAGAIN", "ENOMEM", "EPERM"}
    BY <1>1, <1>2, MachineFacts DEF LockErrors, Limits
  <1> DEFINE e == IF error # Success /\ ~machine.ipc_lock THEN "EPERM" ELSE error
             m == IF error # Success /\ ~machine.ipc_lock THEN "no privileges" ELSE error
  <1>4. e \in Errors /\ m \in Messages /\ error \in Errors
    BY <1>3 DEF Errors, Messages, Success
  <1>5. /\ memory' \in [locked : BOOLEAN, effective : BOOLEAN]
        /\ memory'.effective <=> memory.effective \/ (error # Success /\ machine.ipc_lock)
    <2> DEFINE c == IsCapable(error)
    <2>1. /\ c \in [locked : BOOLEAN, effective : BOOLEAN]
          /\ c.effective = (memory.effective \/ (error # Success /\ machine.ipc_lock))
      BY <1>2 DEF IsCapable
    <2>2. memory' = [c EXCEPT !.locked = @ \/ error = Success]
      BY <1>1
    <2> HIDE DEF c
    <2> QED
      BY <2>1, <2>2
  <1>6. (e = "ENOMEM" \/ m = "ENOMEM") => memory'.effective
    BY <1>5 DEF Success
  <1>7. SetErrno(t, e) /\ Answer(t, m, error)
    BY <1>1
  <1> HIDE DEF e, m
  <1>8. /\ answer' \in [Threads -> [ok : BOOLEAN, message : Messages, error : Errors]]
        /\ answer'[t].message = m /\ \A u \in Threads : u # t => answer'[u] = answer[u]
    BY <1>4, <1>7, AnswerFacts
  <1>9. /\ errno' \in [Threads -> Errors] /\ errno'[t] \in {errno[t], e}
        /\ \A u \in Threads : u # t => errno'[u] = errno[u]
    BY <1>4, <1>7, ErrnoFacts
  <1>10. HelpersInv'
    BY <1>1, <1>5, <1>6, <1>8, <1>9 DEF HelpersInv, HelpersOK
  <1> QED
    BY <1>1, <1>8, <1>10

\* The overload for a thread that is not joinable.
LEMMA NotJoinableStep ==
  ASSUME HelpersInv, NEW t \in Threads, NotJoinable(t)
  PROVE  /\ HelpersInv' /\ UNCHANGED <<machine, alive, attr, memory>>
         /\ \A u \in Threads : u # t => answer'[u] = answer[u]
  <1>1. UNCHANGED <<machine, alive, attr, errno, memory>>
    BY DEF NotJoinable
  <1>2. "not joinable" \in Messages /\ "ESRCH" \in Errors
    BY DEF Messages, Errors
  <1>3. /\ answer' \in [Threads -> [ok : BOOLEAN, message : Messages, error : Errors]]
        /\ answer'[t].message = "not joinable"
        /\ \A u \in Threads : u # t => answer'[u] = answer[u]
    BY <1>2, AnswerFacts DEF NotJoinable
  <1>4. HelpersInv'
    BY <1>1, <1>3 DEF HelpersInv, HelpersOK
  <1> QED
    BY <1>1, <1>3, <1>4

-----------------------------------------------------------------------------
(* The invariant                                                           *)

\* What the worker asks for, as in WorkerAsConfigured.
Asked == {params_.cpu_affinity_cores[i] : i \in DOMAIN params_.cpu_affinity_cores}
             \cap machine.allowed
Granted == /\ params_.cpu_affinity_cores # << >>
           /\ ValidCores(params_.cpu_affinity_cores) /\ Asked # {}

\* Where the worker is: it lives as long as it has something to do.
StageInv ==
    /\ thread_ <=> stage # "none"
    /\ stage \in {"sched", "affinity", "name", "enter", "loop"} => Worker \in alive

\* The priority, before and after configure_sched_fifo().
PriorityInv ==
    LET a == attr[Worker] IN
    /\ stage = "sched" => a.policy = spawned.policy /\ a.priority = spawned.priority
    /\ stage \in {"affinity", "name", "enter", "loop"} =>
          IF SchedulerError(thread_priority_) = Success
          THEN a.policy = "FIFO" /\ a.priority = thread_priority_
          ELSE a.policy = spawned.policy /\ a.priority = spawned.priority

\* The processors, before and after set_current_thread_affinity(); the owner may pin
\* the worker at any time.
CpusInv ==
    LET a == attr[Worker] IN
    /\ stage \in {"sched", "affinity"} => a.cpus = IF pinned = {} THEN spawned.cpus ELSE pinned
    /\ stage = "name" /\ params_.cpu_affinity_cores # << >> => answer[Worker].ok = Granted
    /\ stage \in {"name", "enter", "loop"} =>
          /\ pinned = {} => a.cpus = IF Granted THEN Asked ELSE spawned.cpus
          /\ pinned # {} => a.cpus = pinned \/ (Granted /\ a.cpus = Asked)

\* validate() has returned true only for parameters the worker can run with.
ValidInv ==
    validated => \/ params_.scheduling_policy = "SYNCHRONIZED"
                 \/ params_.clock /\ params_.exec_rate # 0

IInv ==
    /\ TypeOK
    /\ HelpersInv
    /\ FieldInv /\ LoadedInv /\ CoresInv
    /\ StageInv
    /\ PriorityInv
    /\ CpusInv
    /\ ValidInv
    /\ ValidatedNeverAborts

\* A new handler.
LEMMA InitIInv == Init => IInv
  <1> SUFFICES ASSUME Init PROVE IInv
    OBVIOUS
  <1>1. Owner \in Threads /\ Worker \in Threads
    BY SetupAssumption
  <1>2. /\ machine \in Machines
        /\ attr = [t \in Threads |-> [policy |-> "OTHER", priority |-> 0,
                                      cpus |-> machine.allowed, name |-> 10]]
        /\ errno = [t \in Threads |-> Success] /\ alive = {Owner}
        /\ answer = [t \in Threads |-> [ok |-> TRUE, message |-> Success, error |-> Success]]
        /\ memory = [locked |-> FALSE, effective |-> FALSE]
    BY DEF Init, HelpersInit
  <1>3. [policy |-> "OTHER", priority |-> 0, cpus |-> machine.allowed, name |-> 10] \in Attributes
    BY <1>2, MachineFacts DEF Attributes
  <1>4. HelpersInv
    <2>1. attr \in [Threads -> Attributes]
      BY <1>2, <1>3
    <2>2. \A t \in Threads : attr[t].cpus # {} /\ attr[t].cpus \subseteq machine.allowed
      BY <1>2, MachineFacts
    <2>3. /\ errno \in [Threads -> Errors]
          /\ answer \in [Threads -> [ok : BOOLEAN, message : Messages, error : Errors]]
          /\ memory \in [locked : BOOLEAN, effective : BOOLEAN]
      BY <1>2 DEF Errors, Messages
    <2>4. \A t \in Threads : answer[t].message # "ENOMEM" /\ errno[t] # "ENOMEM"
      BY <1>2 DEF Success
    <2> QED
      BY <1>1, <1>2, <2>1, <2>2, <2>3, <2>4 DEF HelpersInv, HelpersOK
  <1>5. \A clock, predicate \in BOOLEAN : Defaults(clock, predicate) \in Params
    BY DEF Defaults, Params, Policies
  <1>6. PICK clock \in BOOLEAN, predicate \in BOOLEAN : params = Defaults(clock, predicate)
    BY DEF Init
  <1>7. params \in Params /\ params_ \in Params /\ spawned \in Attributes
    BY <1>1, <1>4, <1>5, <1>6 DEF Init, HelpersInv, HelpersOK
  <1>8. TypeOK
    <2>1. /\ node \in Nodes \cup {<< >>} /\ loads \in 0 .. MaxLoads /\ calls \in 0 .. MaxCalls
          /\ thread_priority_ \in Int
          /\ stage \in {"none", "sched", "affinity", "name", "enter", "loop", "done"}
      BY SetupAssumption DEF Init
    <2>2. /\ loaded \in BOOLEAN /\ initialized \in BOOLEAN /\ thread_ \in BOOLEAN
          /\ aborted \in BOOLEAN /\ validated \in BOOLEAN /\ pinned \subseteq machine.allowed
      BY DEF Init
    <2> QED
      BY <1>4, <1>7, <2>1, <2>2 DEF TypeOK, HelpersInv
  <1>9. node = << >> /\ DOMAIN node = {}
    BY DEF Init
  <1>10. FieldInv /\ LoadedInv
    BY <1>6, <1>9 DEF Init, FieldInv, LoadedInv, Defaults
  <1>11. CoresInv
    <2>1. node \in Nodes => NewCores(node) = << >>
      BY <1>9, NewCoresFacts
    <2> QED
      BY <1>6, <1>9, <2>1 DEF CoresInv, Defaults
  <1>12. StageInv /\ PriorityInv /\ CpusInv
    BY DEF Init, StageInv, PriorityInv, CpusInv
  <1>13. ValidInv /\ ValidatedNeverAborts
    BY DEF Init, ValidInv, ValidatedNeverAborts, Defaults
  <1> QED
    BY <1>4, <1>8, <1>10, <1>11, <1>12, <1>13 DEF IInv

\* A step that calls no realtime_helpers keeps what is said of them.
LEMMA SameHelpers ==
  ASSUME HelpersInv, UNCHANGED helpers
  PROVE  HelpersInv'
  BY DEF helpers, HelpersInv, HelpersOK

\* Only initialize() changes the owner's parameters.
LEMMA SameConfig ==
  ASSUME FieldInv, LoadedInv, CoresInv, UNCHANGED config
  PROVE  FieldInv' /\ LoadedInv' /\ CoresInv'
  BY DEF config, FieldInv, LoadedInv, CoresInv

\* What the worker asks for is settled when it is started.
LEMMA SameAsked ==
  ASSUME UNCHANGED <<machine, params_, thread_priority_>>
  PROVE  /\ Asked' = Asked /\ Granted' = Granted
         /\ SchedulerError(thread_priority_)' = SchedulerError(thread_priority_)
  <1>1. Asked' = Asked
    BY DEF Asked
  <1>2. ValidCores(params_.cpu_affinity_cores)' = ValidCores(params_.cpu_affinity_cores)
    BY DEF ValidCores, ValidCore, get_number_of_available_processors
  <1>3. Granted' = Granted
    BY <1>1, <1>2 DEF Granted
  <1>4. SchedulerError(thread_priority_)' = SchedulerError(thread_priority_)
    BY DEF SchedulerError
  <1> QED
    BY <1>1, <1>3, <1>4

\* A step of the owner that does not touch the worker.
LEMMA SameWorker ==
  ASSUME StageInv, PriorityInv, CpusInv,
         UNCHANGED <<machine, alive, params_, thread_priority_, thread_, stage, spawned, pinned>>,
         attr'[Worker] = attr[Worker], answer'[Worker] = answer[Worker]
  PROVE  StageInv' /\ PriorityInv' /\ CpusInv'
  <1>1. StageInv'
    BY DEF StageInv
  <1>2. PriorityInv'
    BY SameAsked DEF PriorityInv
  <1>3. CpusInv'
    BY SameAsked DEF CpusInv
  <1> QED
    BY <1>1, <1>2, <1>3

\* Without a worker thread there is nothing to say about it.
LEMMA NoWorker ==
  ASSUME stage' = "none", thread_' = FALSE
  PROVE  StageInv' /\ PriorityInv' /\ CpusInv'
  BY DEF StageInv, PriorityInv, CpusInv

\* params.initialize(node)
LEMMA LoadIInv ==
  ASSUME IInv, ~aborted, NEW m \in Nodes, Load(m)
  PROVE  IInv'
  <1>1. params' \in Params /\ FieldInv' /\ LoadedInv' /\ CoresInv'
    BY LoadFields DEF IInv, TypeOK
  <1>2. UNCHANGED <<helpers, handler, worker, owner>>
    BY DEF Load
  <1>3. HelpersInv'
    BY <1>2, SameHelpers DEF IInv
  <1>4. StageInv' /\ PriorityInv' /\ CpusInv'
    BY <1>2, SameWorker DEF IInv, helpers, handler, worker, owner
  <1>5. loads' \in 0 .. MaxLoads /\ node' \in Nodes \cup {<< >>} /\ loaded' \in BOOLEAN
    BY SetupAssumption DEF Load, IInv, TypeOK
  <1>6. TypeOK'
    BY <1>1, <1>2, <1>3, <1>5 DEF IInv, TypeOK, HelpersInv, helpers, handler, worker, owner
  <1>7. ValidInv' /\ ValidatedNeverAborts'
    BY <1>2 DEF IInv, ValidInv, ValidatedNeverAborts, handler, worker
  <1> QED
    BY <1>1, <1>3, <1>4, <1>6, <1>7 DEF IInv

\* Both overloads of init(): there is no worker thread.
LEMMA InitCallsIInv ==
  ASSUME IInv, ~aborted, InitParams \/ \E p \in Priorities : InitFunction(p)
  PROVE  IInv'
  <1>1. /\ ~thread_ /\ UNCHANGED <<helpers, config, thread_, worker, owner>>
        /\ initialized' = TRUE
    BY DEF InitParams, InitFunction
  <1>2. stage = "none" /\ stage' = "none" /\ thread_' = FALSE
    BY <1>1 DEF IInv, StageInv, TypeOK, worker
  <1>3. HelpersInv'
    BY <1>1, SameHelpers DEF IInv
  <1>4. FieldInv' /\ LoadedInv' /\ CoresInv'
    BY <1>1, SameConfig DEF IInv
  <1>5. StageInv' /\ PriorityInv' /\ CpusInv'
    BY <1>2, NoWorker
  <1>6. /\ params_' \in Params /\ thread_priority_' \in Int /\ validated' \in BOOLEAN
        /\ ValidInv'
    <2>1. CASE InitParams
      <3>1. params_' = params /\ params \in Params /\ thread_priority_' = params.thread_priority
            /\ validated' = Validate(params)
        BY <2>1 DEF InitParams, IInv, TypeOK
      <3>2. Validate(params) \in BOOLEAN /\ params.thread_priority \in Int
        BY <3>1 DEF Validate, Params
      <3>3. Validate(params) => \/ params.scheduling_policy = "SYNCHRONIZED"
                                \/ params.clock /\ params.exec_rate # 0
        BY <3>1 DEF Validate, Params, Policies
      <3> QED
        BY <3>1, <3>2, <3>3 DEF ValidInv
    <2>2. CASE \E p \in Priorities : InitFunction(p)
      BY <2>2, SetupAssumption DEF InitFunction, IInv, TypeOK, ValidInv
    <2> QED
      BY <2>1, <2>2
  <1>7. TypeOK'
    BY <1>1, <1>2, <1>3, <1>6 DEF IInv, TypeOK, HelpersInv, helpers, config, worker, owner
  <1>8. ValidatedNeverAborts'
    BY <1>1 DEF IInv, ValidatedNeverAborts, worker
  <1> QED
    BY <1>3, <1>4, <1>5, <1>6, <1>7, <1>8 DEF IInv

\* start_thread(): the worker begins with the attributes of the owner.
LEMMA StartIInv ==
  ASSUME IInv, ~aborted, Start
  PROVE  IInv'
  <1>1. Owner \in Threads /\ Worker \in Threads
    BY SetupAssumption
  <1>2. /\ thread_' = TRUE /\ stage' = "sched" /\ alive' = alive \cup {Worker}
        /\ attr' = [attr EXCEPT ![Worker] = attr[Owner]] /\ spawned' = attr[Owner]
        /\ errno' = [errno EXCEPT ![Worker] = Success] /\ pinned' = {}
        /\ UNCHANGED <<machine, answer, memory, config, params_, thread_priority_,
                       initialized, validated, aborted, calls>>
    BY DEF Start
  <1>3. /\ attr[Owner] \in Attributes /\ attr[Owner].cpus # {}
        /\ attr[Owner].cpus \subseteq machine.allowed
    BY <1>1 DEF IInv, HelpersInv, HelpersOK
  <1>4. /\ attr' \in [Threads -> Attributes] /\ attr'[Worker] = attr[Owner]
        /\ \A u \in Threads : attr'[u].cpus # {} /\ attr'[u].cpus \subseteq machine'.allowed
    BY <1>1, <1>2, <1>3, AttrFacts DEF IInv
  <1>5. HelpersInv'
    <2>1. /\ errno' \in [Threads -> Errors]
          /\ \A t \in Threads : errno'[t] = "ENOMEM" => errno[t] = "ENOMEM"
      BY <1>1, <1>2 DEF IInv, HelpersInv, HelpersOK, Errors, Success
    <2> QED
      BY <1>1, <1>2, <1>4, <2>1 DEF IInv, HelpersInv, HelpersOK
  <1>6. FieldInv' /\ LoadedInv' /\ CoresInv'
    BY <1>2, SameConfig DEF IInv
  <1>7. StageInv' /\ PriorityInv' /\ CpusInv'
    BY <1>2, <1>4 DEF StageInv, PriorityInv, CpusInv
  <1>8. TypeOK'
    BY <1>2, <1>3, <1>5 DEF IInv, TypeOK, HelpersInv, config
  <1>9. ValidInv' /\ ValidatedNeverAborts'
    BY <1>2 DEF IInv, ValidInv, ValidatedNeverAborts
  <1> QED
    BY <1>5, <1>6, <1>7, <1>8, <1>9 DEF IInv

\* A call of realtime_helpers by the owner that leaves the worker alone.
LEMMA OwnerCallIInv ==
  ASSUME IInv, ~aborted, Call, HelpersInv', UNCHANGED <<machine, alive>>,
         attr'[Worker] = attr[Worker], answer'[Worker] = answer[Worker],
         UNCHANGED <<config, handler, worker, pinned>>
  PROVE  IInv'
  <1>1. FieldInv' /\ LoadedInv' /\ CoresInv'
    BY SameConfig DEF IInv
  <1>2. StageInv' /\ PriorityInv' /\ CpusInv'
    BY SameWorker DEF IInv, handler, worker
  <1>3. calls' \in 0 .. MaxCalls
    BY SetupAssumption DEF Call, IInv, TypeOK
  <1>4. TypeOK'
    BY <1>3 DEF IInv, TypeOK, HelpersInv, config, handler, worker
  <1>5. ValidInv' /\ ValidatedNeverAborts'
    BY DEF IInv, ValidInv, ValidatedNeverAborts, handler, worker
  <1> QED
    BY <1>1, <1>2, <1>4, <1>5 DEF IInv

\* The owner's calls for itself.
LEMMA OwnAttributesIInv ==
  ASSUME IInv, ~aborted, OwnAttributes
  PROVE  IInv'
  <1>1. Owner \in Threads /\ Worker \in Threads /\ Owner # Worker
    BY SetupAssumption
  <1>2. Call /\ UNCHANGED <<config, handler, worker, pinned>>
    BY DEF OwnAttributes
  <1>3. HelpersInv
    BY DEF IInv
  <1>4. ASSUME NEW p \in Priorities, NEW policy \in {"FIFO", "RR"},
               ConfigureSched(Owner, policy, p)
        PROVE  IInv'
    <2>1. p \in Int
      BY SetupAssumption
    <2>2. /\ HelpersInv' /\ UNCHANGED <<machine, alive>>
          /\ attr'[Worker] = attr[Worker] /\ answer'[Worker] = answer[Worker]
      BY <1>1, <1>3, <1>4, <2>1, SchedStep
    <2> QED
      BY <1>2, <2>2, OwnerCallIInv
  <1>5. ASSUME NEW core \in Cores, SetThreadAffinity(Owner, Owner, CoreList(core))
        PROVE  IInv'
    <2>1. /\ HelpersInv' /\ UNCHANGED <<machine, alive>>
          /\ attr'[Worker] = attr[Worker] /\ answer'[Worker] = answer[Worker]
      BY <1>1, <1>3, <1>5, AffinityStep
    <2> QED
      BY <1>2, <2>1, OwnerCallIInv
  <1>6. ASSUME NEW name \in Names, SetCurrentThreadName(Owner, name)
        PROVE  IInv'
    <2>1. name \in Nat
      BY SetupAssumption
    <2>2. /\ HelpersInv' /\ UNCHANGED <<machine, alive>>
          /\ attr'[Worker] = attr[Worker] /\ answer'[Worker] = answer[Worker]
      BY <1>1, <1>3, <1>6, <2>1, NameStep
    <2> QED
      BY <1>2, <2>2, OwnerCallIInv
  <1>7. CASE LockMemory(Owner)
    <2>1. /\ HelpersInv' /\ UNCHANGED <<machine, alive>>
          /\ attr'[Worker] = attr[Worker] /\ answer'[Worker] = answer[Worker]
      BY <1>1, <1>3, <1>7, MemoryStep
    <2> QED
      BY <1>2, <2>1, OwnerCallIInv
  <1> QED
    BY <1>4, <1>5, <1>6, <1>7 DEF OwnAttributes

\* set_thread_affinity(get_thread(), core) without and with a worker thread.
LEMMA PinIInv ==
  ASSUME IInv, ~aborted, PinNothing \/ \E core \in Cores : PinWorker(core)
  PROVE  IInv'
  <1>1. Owner \in Threads /\ Worker \in Threads /\ Owner # Worker /\ HelpersInv
    BY SetupAssumption DEF IInv
  <1>2. CASE PinNothing
    <2>1. NotJoinable(Owner) /\ Call /\ UNCHANGED <<config, handler, worker, pinned>>
      BY <1>2 DEF PinNothing
    <2>2. /\ HelpersInv' /\ UNCHANGED <<machine, alive>>
          /\ attr'[Worker] = attr[Worker] /\ answer'[Worker] = answer[Worker]
      BY <1>1, <2>1, NotJoinableStep
    <2> QED
      BY <2>1, <2>2, OwnerCallIInv
  <1>3. ASSUME NEW core \in Cores, PinWorker(core)
        PROVE  IInv'
    <2> DEFINE cores   == CoreList(core)
               cpus    == CpuSet(cores) \cap machine.allowed
               granted == ValidCores(cores) /\ Worker \in alive /\ cpus # {}
    <2>1. /\ SetThreadAffinity(Owner, Worker, cores) /\ Call
          /\ pinned' = IF answer'[Owner].ok THEN attr'[Worker].cpus ELSE pinned
          /\ UNCHANGED <<config, handler, worker>>
      BY <1>3 DEF PinWorker
    <2> HIDE DEF cores
    <2>2. /\ HelpersInv' /\ UNCHANGED <<machine, alive>>
          /\ answer'[Worker] = answer[Worker]
          /\ granted => answer'[Owner].ok = TRUE
          /\ ~granted => answer'[Owner].ok = FALSE
          /\ attr'[Worker].policy = attr[Worker].policy
          /\ attr'[Worker].priority = attr[Worker].priority
          /\ attr'[Worker].cpus = IF granted THEN cpus ELSE attr[Worker].cpus
      <3>1. /\ HelpersInv' /\ UNCHANGED <<machine, alive>>
            /\ answer'[Worker] = answer[Worker]
            /\ attr'[Worker].policy = attr[Worker].policy
            /\ attr'[Worker].priority = attr[Worker].priority
        BY <1>1, <2>1, AffinityStep
      <3>2. (granted => answer'[Owner].ok = TRUE) /\ (~granted => answer'[Owner].ok = FALSE)
        BY <1>1, <2>1, AffinityStep
      <3>3. attr'[Worker].cpus = IF granted THEN cpus ELSE attr[Worker].cpus
        BY <1>1, <2>1, AffinityStep
      <3> QED
        BY <3>1, <3>2, <3>3
    <2>3. \/ pinned' = attr'[Worker].cpus /\ pinned' # {} /\ pinned' \subseteq machine'.allowed
          \/ pinned' = pinned /\ attr'[Worker].cpus = attr[Worker].cpus
      <3>1. CASE granted
        BY <2>1, <2>2, <3>1
      <3>2. CASE ~granted
        BY <2>1, <2>2, <3>2
      <3> QED
        BY <3>1, <3>2
    <2> HIDE DEF granted, cpus
    <2>4. UNCHANGED <<params_, thread_priority_, thread_, stage, spawned, aborted, validated>>
      BY <2>1 DEF handler, worker
    <2>5. StageInv'
      BY <2>2, <2>4 DEF IInv, StageInv
    <2>6. PriorityInv'
      BY <2>2, <2>4, SameAsked DEF IInv, PriorityInv
    <2>7. CpusInv'
      <3>1. Asked' = Asked /\ Granted' = Granted
        BY <2>2, <2>4, SameAsked
      <3> QED
        BY <2>2, <2>3, <2>4, <3>1 DEF IInv, CpusInv
    <2>8. FieldInv' /\ LoadedInv' /\ CoresInv'
      BY <2>1, SameConfig DEF IInv
    <2>9. calls' \in 0 .. MaxCalls
      BY <2>1, SetupAssumption DEF Call, IInv, TypeOK
    <2>10. pinned' \subseteq machine'.allowed
      BY <2>2, <2>3 DEF IInv, TypeOK
    <2>11. TypeOK'
      BY <2>1, <2>2, <2>9, <2>10 DEF IInv, TypeOK, HelpersInv, config, handler, worker
    <2>12. ValidInv' /\ ValidatedNeverAborts'
      BY <2>4 DEF IInv, ValidInv, ValidatedNeverAborts
    <2> QED
      BY <2>2, <2>5, <2>6, <2>7, <2>8, <2>11, <2>12 DEF IInv
  <1> QED
    BY <1>2, <1>3

\* stop_thread() joins the worker.
LEMMA JoinIInv ==
  ASSUME IInv, ~aborted, Join
  PROVE  IInv'
  <1>1. /\ thread_' = FALSE /\ stage' = "none"
        /\ UNCHANGED <<helpers, config, params_, thread_priority_, initialized, validated,
                       aborted, spawned, owner>>
    BY DEF Join
  <1>2. HelpersInv' /\ FieldInv' /\ LoadedInv' /\ CoresInv'
    BY <1>1, SameHelpers, SameConfig DEF IInv
  <1>3. StageInv' /\ PriorityInv' /\ CpusInv'
    BY <1>1, NoWorker
  <1>4. TypeOK'
    BY <1>1, <1>2 DEF IInv, TypeOK, HelpersInv, helpers, config, owner
  <1>5. ValidInv' /\ ValidatedNeverAborts'
    BY <1>1 DEF IInv, ValidInv, ValidatedNeverAborts
  <1> QED
    BY <1>2, <1>3, <1>4, <1>5 DEF IInv

\* What a step of the worker keeps whatever it does.
LEMMA WorkerFrame ==
  ASSUME IInv, HelpersInv', UNCHANGED <<machine, config, handler, spawned, owner>>,
         stage' \in {"affinity", "name", "enter", "loop", "done"}, aborted' \in BOOLEAN,
         aborted' => ~validated, StageInv', PriorityInv', CpusInv'
  PROVE  IInv'
  <1>1. FieldInv' /\ LoadedInv' /\ CoresInv'
    BY SameConfig DEF IInv
  <1>2. TypeOK'
    BY DEF IInv, TypeOK, HelpersInv, config, handler, owner
  <1>3. ValidInv' /\ ValidatedNeverAborts'
    BY DEF IInv, ValidInv, ValidatedNeverAborts, handler
  <1> QED
    BY <1>1, <1>2, <1>3 DEF IInv

\* The worker sets its priority.
LEMMA WorkerSchedIInv ==
  ASSUME IInv, ~aborted, WorkerSched
  PROVE  IInv'
  <1>1. /\ stage = "sched" /\ stage' = "affinity"
        /\ ConfigureSched(Worker, "FIFO", thread_priority_)
        /\ UNCHANGED <<config, handler, aborted, spawned, owner>>
    BY DEF WorkerSched, Goto
  <1>2. Worker \in Threads /\ thread_priority_ \in Int /\ HelpersInv
    BY SetupAssumption DEF IInv, TypeOK
  <1>3. /\ HelpersInv' /\ UNCHANGED <<machine, alive>>
        /\ attr'[Worker].cpus = attr[Worker].cpus
        /\ IF SchedulerError(thread_priority_) = Success
           THEN attr'[Worker].policy = "FIFO" /\ attr'[Worker].priority = thread_priority_
           ELSE attr'[Worker] = attr[Worker]
    BY <1>1, <1>2, SchedStep
  <1>4. UNCHANGED <<params_, thread_priority_, thread_, spawned, pinned>>
    BY <1>1 DEF handler, owner
  <1>5. StageInv'
    BY <1>1, <1>3, <1>4 DEF IInv, StageInv
  <1>6. PriorityInv'
    <2>1. SchedulerError(thread_priority_)' = SchedulerError(thread_priority_)
      BY <1>3, <1>4, SameAsked
    <2>2. attr[Worker].policy = spawned.policy /\ attr[Worker].priority = spawned.priority
      BY <1>1 DEF IInv, PriorityInv
    <2> QED
      BY <1>1, <1>3, <1>4, <2>1, <2>2 DEF PriorityInv
  <1>7. CpusInv'
    BY <1>1, <1>3, <1>4 DEF IInv, CpusInv
  <1> QED
    BY <1>1, <1>3, <1>5, <1>6, <1>7, WorkerFrame DEF IInv, TypeOK

\* The worker sets its processors, if it has any of its own.
LEMMA WorkerAffinityIInv ==
  ASSUME IInv, ~aborted, WorkerAffinity
  PROVE  IInv'
  <1> DEFINE cores == params_.cpu_affinity_cores
  <1>1. /\ stage = "affinity" /\ stage' = "name"
        /\ IF cores = << >> THEN UNCHANGED helpers
           ELSE SetThreadAffinity(Worker, Worker, cores)
        /\ UNCHANGED <<config, handler, aborted, spawned, owner>>
    BY DEF WorkerAffinity, Goto
  <1>2. Worker \in Threads /\ Worker \in alive /\ HelpersInv
    BY <1>1, SetupAssumption DEF IInv, StageInv
  <1>3. /\ HelpersInv' /\ UNCHANGED <<machine, alive>>
        /\ attr'[Worker].policy = attr[Worker].policy
        /\ attr'[Worker].priority = attr[Worker].priority
        /\ attr'[Worker].cpus = IF Granted THEN Asked ELSE attr[Worker].cpus
        /\ cores # << >> => (Granted => answer'[Worker].ok = TRUE)
                           /\ (~Granted => answer'[Worker].ok = FALSE)
    <2>1. CASE cores = << >>
      <3>1. UNCHANGED helpers /\ ~Granted
        BY <1>1, <2>1 DEF Granted
      <3> QED
        BY <1>2, <2>1, <3>1, SameHelpers DEF helpers
    <2>2. CASE cores # << >>
      <3>1. SetThreadAffinity(Worker, Worker, cores)
        BY <1>1, <2>2
      <3>2. CpuSet(cores) \cap machine.allowed = Asked
        BY <2>2 DEF CpuSet, Asked
      <3>3. Granted <=> ValidCores(cores) /\ Asked # {}
        BY <2>2 DEF Granted
      <3> HIDE DEF cores
      <3>4. /\ HelpersInv' /\ UNCHANGED <<machine, alive>>
            /\ attr'[Worker].policy = attr[Worker].policy
            /\ attr'[Worker].priority = attr[Worker].priority
        BY <1>2, <3>1, AffinityStep
      <3>5. CASE Granted
        <4>1. ValidCores(cores) /\ CpuSet(cores) \cap machine.allowed # {}
          BY <3>2, <3>3, <3>5
        <4>2. /\ attr'[Worker].cpus = CpuSet(cores) \cap machine.allowed
              /\ answer'[Worker].ok = TRUE
          BY <1>2, <3>1, <4>1, AffinityStep
        <4> QED
          BY <3>2, <3>4, <3>5, <4>2
      <3>6. CASE ~Granted
        <4>1. ~(ValidCores(cores) /\ CpuSet(cores) \cap machine.allowed # {})
          BY <3>2, <3>3, <3>6
        <4>2. attr'[Worker].cpus = attr[Worker].cpus /\ answer'[Worker].ok = FALSE
          BY <1>2, <3>1, <4>1, AffinityStep
        <4> QED
          BY <3>4, <3>6, <4>2
      <3> QED
        BY <3>5, <3>6
    <2> QED
      BY <2>1, <2>2
  <1>4. UNCHANGED <<params_, thread_priority_, thread_, spawned, pinned>>
    BY <1>1 DEF handler, owner
  <1>5. /\ Asked' = Asked /\ Granted' = Granted
        /\ SchedulerError(thread_priority_)' = SchedulerError(thread_priority_)
    BY <1>3, <1>4, SameAsked
  <1>6. StageInv'
    BY <1>1, <1>3, <1>4 DEF IInv, StageInv
  <1>7. PriorityInv'
    BY <1>1, <1>3, <1>4, <1>5 DEF IInv, PriorityInv
  <1>8. CpusInv'
    <2>1. attr[Worker].cpus = IF pinned = {} THEN spawned.cpus ELSE pinned
      BY <1>1 DEF IInv, CpusInv
    <2>2. cores # << >> => answer'[Worker].ok = Granted'
      <3>1. Granted' \in BOOLEAN
        BY DEF Granted
      <3> QED
        BY <1>3, <1>5, <3>1
    <2> QED
      BY <1>1, <1>3, <1>4, <1>5, <2>1, <2>2 DEF CpusInv
  <1> QED
    BY <1>1, <1>3, <1>6, <1>7, <1>8, WorkerFrame DEF IInv, TypeOK

\* The worker sets its name.
LEMMA WorkerNameIInv ==
  ASSUME IInv, ~aborted, WorkerName
  PROVE  IInv'
  <1>1. /\ stage = "name" /\ stage' = "enter"
        /\ \/ UNCHANGED helpers
           \/ SetCurrentThreadName(Worker, params_.thread_name)
        /\ UNCHANGED <<config, handler, aborted, spawned, owner>>
    BY DEF WorkerName, Goto
  <1>2. Worker \in Threads /\ params_.thread_name \in Nat /\ HelpersInv
    BY SetupAssumption DEF IInv, TypeOK, Params
  <1>3. /\ HelpersInv' /\ UNCHANGED <<machine, alive>>
        /\ attr'[Worker].cpus = attr[Worker].cpus
        /\ attr'[Worker].policy = attr[Worker].policy
        /\ attr'[Worker].priority = attr[Worker].priority
    <2>1. CASE UNCHANGED helpers
      BY <1>2, <2>1, SameHelpers DEF helpers
    <2>2. CASE SetCurrentThreadName(Worker, params_.thread_name)
      BY <1>2, <2>2, NameStep
    <2> QED
      BY <1>1, <2>1, <2>2
  <1>4. UNCHANGED <<params_, thread_priority_, thread_, spawned, pinned>>
    BY <1>1 DEF handler, owner
  <1>5. /\ Asked' = Asked /\ Granted' = Granted
        /\ SchedulerError(thread_priority_)' = SchedulerError(thread_priority_)
    BY <1>3, <1>4, SameAsked
  <1>6. StageInv'
    BY <1>1, <1>3, <1>4 DEF IInv, StageInv
  <1>7. PriorityInv'
    BY <1>1, <1>3, <1>4, <1>5 DEF IInv, PriorityInv
  <1>8. CpusInv'
    BY <1>1, <1>3, <1>4, <1>5 DEF IInv, CpusInv
  <1> QED
    BY <1>1, <1>3, <1>6, <1>7, <1>8, WorkerFrame DEF IInv, TypeOK

\* The worker enters its loop: only parameters that were not validated end the program.
LEMMA WorkerEnterIInv ==
  ASSUME IInv, ~aborted, WorkerEnter
  PROVE  IInv'
  <1>1. /\ stage = "enter" /\ stage' = "loop"
        /\ aborted' = (/\ params_.scheduling_policy # "SYNCHRONIZED"
                       /\ (~params_.clock \/ params_.exec_rate = 0))
        /\ UNCHANGED <<helpers, config, handler, spawned, owner>>
    BY DEF WorkerEnter, Goto
  <1>2. HelpersInv'
    BY <1>1, SameHelpers DEF IInv
  <1>3. UNCHANGED <<machine, alive, attr, params_, thread_priority_, thread_, spawned, pinned>>
    BY <1>1 DEF helpers, handler, owner
  <1>4. /\ Asked' = Asked /\ Granted' = Granted
        /\ SchedulerError(thread_priority_)' = SchedulerError(thread_priority_)
    BY <1>3, SameAsked
  <1>5. StageInv'
    BY <1>1, <1>3 DEF IInv, StageInv
  <1>6. PriorityInv'
    BY <1>1, <1>3, <1>4 DEF IInv, PriorityInv
  <1>7. CpusInv'
    BY <1>1, <1>3, <1>4 DEF IInv, CpusInv
  <1>8. aborted' \in BOOLEAN /\ (aborted' => ~validated)
    BY <1>1 DEF IInv, ValidInv
  <1> QED
    BY <1>1, <1>2, <1>3, <1>5, <1>6, <1>7, <1>8, WorkerFrame

\* The worker has been told to stop.
LEMMA WorkerExitIInv ==
  ASSUME IInv, ~aborted, WorkerExit
  PROVE  IInv'
  <1>1. /\ stage = "loop" /\ stage' = "done" /\ alive' = alive \ {Worker}
        /\ UNCHANGED <<machine, attr, errno, answer, memory, config, handler,
                       aborted, spawned, owner>>
    BY DEF WorkerExit, Goto
  <1>2. HelpersInv'
    BY <1>1 DEF IInv, HelpersInv, HelpersOK
  <1>3. StageInv' /\ PriorityInv' /\ CpusInv'
    BY <1>1 DEF IInv, StageInv, PriorityInv, CpusInv, handler
  <1> QED
    BY <1>1, <1>2, <1>3, WorkerFrame DEF IInv, TypeOK

\* Every step keeps the invariant.
LEMMA NextIInv == IInv /\ [Next]_vars => IInv'
  <1> SUFFICES ASSUME IInv, [Next]_vars
               PROVE  IInv'
    OBVIOUS
  <1>1. CASE ~aborted /\ OwnerCalls
    BY <1>1, LoadIInv, InitCallsIInv, StartIInv, OwnAttributesIInv, PinIInv, JoinIInv
       DEF OwnerCalls
  <1>2. CASE ~aborted /\ WorkerSteps
    BY <1>2, WorkerSchedIInv, WorkerAffinityIInv, WorkerNameIInv, WorkerEnterIInv,
       WorkerExitIInv DEF WorkerSteps
  <1>3. CASE UNCHANGED vars
    <2>1. UNCHANGED <<helpers, config, handler, worker, owner>>
      BY <1>3 DEF vars
    <2>2. HelpersInv' /\ FieldInv' /\ LoadedInv' /\ CoresInv'
      BY <2>1, SameHelpers, SameConfig DEF IInv
    <2>3. StageInv' /\ PriorityInv' /\ CpusInv'
      BY <2>1, SameWorker DEF IInv, helpers, handler, worker, owner
    <2>4. TypeOK'
      BY <2>1, <2>2 DEF IInv, TypeOK, HelpersInv, helpers, config, handler, worker, owner
    <2>5. ValidInv' /\ ValidatedNeverAborts'
      BY <2>1 DEF IInv, ValidInv, ValidatedNeverAborts, handler, worker
    <2> QED
      BY <2>2, <2>3, <2>4, <2>5 DEF IInv
  <1> QED
    BY <1>1, <1>2, <1>3 DEF Next

\* The inductive invariant holds in every reachable state.
THEOREM Invariance == Safety => []IInv
  BY InitIInv, NextIInv, PTL DEF Safety

\* Types; every thread keeps a processor it may use, and when lock_memory() reports a
\* limit that is too low the limit is no longer in force.
THEOREM TypeCorrect == Safety => []TypeOK
  <1>1. IInv => TypeOK
    BY DEF IInv
  <1> QED
    BY <1>1, Invariance, PTL

\* An initialize() that is repeated, also after one that threw half way, gives what a
\* first one would have given, if no node has an empty list of processors: then the
\* cores of an earlier call stay where a first call would leave none.
THEOREM RetryCorrect ==
  ASSUME NonEmptyCores
  PROVE  Safety => []RetryEqualsFresh
  <1>1. IInv => RetryEqualsFresh
    BY FieldsRetry DEF IInv, TypeOK
  <1> QED
    BY <1>1, Invariance, PTL

\* Although init() ignores what validate() returns, the worker ends the program only
\* with parameters for which validate() has returned false.
THEOREM ValidatedCorrect == Safety => []ValidatedNeverAborts
  <1>1. IInv => ValidatedNeverAborts
    BY DEF IInv
  <1> QED
    BY <1>1, Invariance, PTL

\* A worker in its loop has the priority and the processors it was configured with,
\* or those of the thread that started it, or those its owner pinned it to.
THEOREM ConfiguredCorrect == Safety => []WorkerAsConfigured
  <1>1. IInv => WorkerAsConfigured
    BY DEF IInv, PriorityInv, CpusInv, WorkerAsConfigured, Asked, Granted
  <1> QED
    BY <1>1, Invariance, PTL

=============================================================================
