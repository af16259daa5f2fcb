--------------------------- MODULE RealtimeBuffer ---------------------------
(***************************************************************************)
(* realtime_tools::RealtimeBuffer<T>: non-realtime threads write into one  *)
(* of two cells, the realtime thread swaps the cells when it gets the      *)
(* mutex.  readFromRT() and readFromNonRT() return a pointer that is used  *)
(* after the mutex was left, in two steps, so that a write in the meantime *)
(* shows as half a value.                                                  *)
(*                                                                         *)
(* The copy constructor and operator= read the source like a user of       *)
(* readFromNonRT() and write like a user of writeFromNonRT().  Values are  *)
(* the numbers of the writes, 0 is a default constructed T.  initRT() and  *)
(* reset() take no lock and reset() frees the cells, so both are called    *)
(* while nobody uses the buffer.                                           *)
(***************************************************************************)
EXTENDS Naturals

CONSTANTS
    Rt,              \* the realtime thread
    NonRt,           \* the other threads
    NonRtReads,      \* the ones that call readFromNonRT()
    Nobody,          \* the holder of a free mutex
    MaxWrites        \* bound: number of writes

ASSUME ThreadsAssumption ==
    /\ Rt \notin NonRt /\ NonRtReads \subseteq NonRt
    /\ Nobody \notin NonRt \cup {Rt}

ASSUME BoundAssumption == MaxWrites \in Nat

VARIABLES
    data,            \* the two cells
    realtime_data_, non_realtime_data_, new_data_available_, mutex_,
    pc,              \* program counter of every thread
    ptr, half,       \* the pointer a thread uses, and what it has read of it
    arg,             \* the value a thread writes
    calm,            \* readers since whose call nobody has written
    writes,          \* number of writes begun
    last,            \* the value the last completed write left
    seen             \* what the realtime thread has read last

pointers == <<realtime_data_, non_realtime_data_, new_data_available_>>
locals   == <<ptr, half, arg, calm>>
vars     == <<data, pointers, mutex_, pc, locals, writes, last, seen>>

Threads == NonRt \cup {Rt}
Cells == {1, 2}
Whole(v) == <<v, v>>

\* Both constructors: two cells with the same value.
Init ==
    /\ data = [c \in Cells |-> Whole(0)]
    /\ realtime_data_ = 1 /\ non_realtime_data_ = 2
    /\ new_data_available_ = FALSE
    /\ mutex_ = Nobody
    /\ pc = [t \in Threads |-> "idle"]
    /\ ptr = [t \in Threads |-> 1] /\ half = [t \in Threads |-> 0]
    /\ arg = [t \in Threads |-> 0] /\ calm = {}
    /\ writes = 0 /\ last = 0 /\ seen = 0

Goto(t, from, to) == pc[t] = from /\ pc' = [pc EXCEPT ![t] = to]

-----------------------------------------------------------------------------
(* Reading                                                                 *)

\* A mutant: the swap loses a cell, there is no tmp.
ReadRTLosesCell(swap) ==
    /\ Goto(Rt, "idle", "first")
    /\ realtime_data_' = IF swap THEN non_realtime_data_ ELSE realtime_data_
    /\ new_data_available_' = (new_data_available_ /\ ~swap)
    /\ ptr' = [ptr EXCEPT ![Rt] = realtime_data_']
    /\ UNCHANGED <<data, non_realtime_data_, mutex_, half, arg, calm, writes, last, seen>>

\* The call of readFromRT(), which swaps the pointers if swap.
ReadRT(swap) ==
    /\ Goto(Rt, "idle", "first")
    /\ IF swap
       THEN /\ realtime_data_' = non_realtime_data_
            /\ non_realtime_data_' = realtime_data_
            /\ new_data_available_' = FALSE
       ELSE UNCHANGED pointers
    /\ ptr' = [ptr EXCEPT ![Rt] = realtime_data_']
    /\ UNCHANGED <<data, mutex_, half, arg, calm, writes, last, seen>>

\* A mutant: the pointers are swapped whether the lock is owned or not.
ReadRTUnlocked == ReadRT(new_data_available_)

\* A mutant: the pointers are swapped whether there is new data or not.
ReadRTSwaps == ReadRT(mutex_ = Nobody)

\* A mutant: defer_lock for try_to_lock, the guard never owns the lock.
ReadRTDeferred == ReadRT(FALSE)

\* try_lock, swap when it succeeds and there is new data.
ReadFromRT == ReadRT(mutex_ = Nobody /\ new_data_available_)

\* readFromNonRT() gets the lock; readFromRT() does not until it is left.
ReadFromNonRT(t) ==
    /\ t \in NonRtReads /\ mutex_ = Nobody
    /\ Goto(t, "idle", "read")
    /\ mutex_' = t
    /\ UNCHANGED <<data, pointers, locals, writes, last, seen>>

\* A mutant: the cell of the realtime thread is returned.
ReadNonRTReturnsOld(t) ==
    /\ Goto(t, "read", "first")
    /\ ptr' = [ptr EXCEPT ![t] = realtime_data_]
    /\ mutex_' = Nobody /\ calm' = calm \cup {t}
    /\ UNCHANGED <<data, pointers, half, arg, writes, last, seen>>

\* It returns the pointer and leaves the lock.
ReadNonRTReturns(t) ==
    /\ Goto(t, "read", "first")
    /\ ptr' = [ptr EXCEPT ![t] = IF new_data_available_ THEN non_realtime_data_
                                                        ELSE realtime_data_]
    /\ mutex_' = Nobody /\ calm' = calm \cup {t}
    /\ UNCHANGED <<data, pointers, half, arg, writes, last, seen>>

\* The caller uses the pointer.
UseFirst(t) ==
    /\ Goto(t, "first", "second")
    /\ half' = [half EXCEPT ![t] = data[ptr[t]][1]]
    /\ UNCHANGED <<data, pointers, mutex_, ptr, arg, calm, writes, last, seen>>

UseSecond(t) ==
    /\ Goto(t, "second", "idle")
    /\ seen' = IF t = Rt THEN data[ptr[t]][2] ELSE seen
    /\ half' = [half EXCEPT ![t] = 0]
    /\ UNCHANGED <<data, pointers, mutex_, ptr, arg, calm, writes, last>>

-----------------------------------------------------------------------------
(* Writing                                                                 *)

\* writeFromNonRT(): try_lock until it succeeds.
WriteFromNonRT(t) ==
    /\ writes < MaxWrites /\ mutex_ = Nobody
    /\ Goto(t, "idle", "write1")
    /\ mutex_' = t
    /\ writes' = writes + 1
    /\ arg' = [arg EXCEPT ![t] = writes + 1]
    /\ UNCHANGED <<data, pointers, ptr, half, calm, last, seen>>

WriteFirst(t) ==
    /\ Goto(t, "write1", "write2")
    /\ data' = [data EXCEPT ![non_realtime_data_][1] = arg[t]]
    /\ calm' = {}
    /\ UNCHANGED <<pointers, mutex_, ptr, half, arg, writes, last, seen>>

\* The rest of the value, the flag, the end of the lock.
WriteSecond(t) ==
    /\ Goto(t, "write2", "idle")
    /\ data' = [data EXCEPT ![non_realtime_data_][2] = arg[t]]
    /\ new_data_available_' = TRUE
    /\ mutex_' = Nobody
    /\ last' = arg[t]
    /\ UNCHANGED <<realtime_data_, non_realtime_data_, locals, writes, seen>>

Quiet == \A t \in Threads : pc[t] = "idle"

\* initRT(): both cells; the flag stays as it is.
InitRT ==
    /\ Quiet /\ writes < MaxWrites
    /\ writes' = writes + 1
    /\ data' = [c \in Cells |-> Whole(writes + 1)]
    /\ last' = writes + 1
    /\ UNCHANGED <<pointers, mutex_, pc, locals, seen>>

\* reset(): two new cells; the flag stays as it is.
Reset ==
    /\ Quiet
    /\ data' = [c \in Cells |-> Whole(0)]
    /\ last' = 0 /\ seen' = 0
    /\ UNCHANGED <<pointers, mutex_, pc, locals, writes>>

-----------------------------------------------------------------------------
(* Specification                                                           *)

ThreadSteps(t) == UseFirst(t) \/ UseSecond(t)

WriterSteps(t) == WriteFirst(t) \/ WriteSecond(t)

Next ==
    \/ ReadFromRT
    \/ \E t \in Threads : ThreadSteps(t)
    \/ \E t \in NonRt : ReadFromNonRT(t) \/ ReadNonRTReturns(t)
                        \/ WriteFromNonRT(t) \/ WriterSteps(t)
    \/ InitRT
    \/ Reset

Safety == Init /\ [][Next]_vars

\* The realtime thread reads in every cycle, and a begun call goes on.
Fairness ==
    /\ WF_vars(ReadFromRT) /\ WF_vars(ThreadSteps(Rt))
    /\ \A t \in NonRt : WF_vars(WriterSteps(t))

Spec == Safety /\ Fairness

-----------------------------------------------------------------------------
(* Properties                                                              *)

\* Types; the two pointers never point to the same cell, and the mutex is held
\* by a thread exactly while it is in writeFromNonRT() or readFromNonRT().
TypeOK ==
    /\ data \in [Cells -> (0 .. MaxWrites) \X (0 .. MaxWrites)]
    /\ {realtime_data_, non_realtime_data_} = Cells
    /\ new_data_available_ \in BOOLEAN
    /\ mutex_ \in NonRt \cup {Nobody}
    /\ pc \in [Threads -> {"idle", "read", "first", "second", "write1", "write2"}]
    /\ ptr \in [Threads -> Cells] /\ half \in [Threads -> 0 .. MaxWrites]
    /\ arg \in [Threads -> 0 .. MaxWrites] /\ calm \subseteq NonRtReads
    /\ writes \in 0 .. MaxWrites /\ last \in 0 .. writes /\ seen \in 0 .. writes
    /\ \A t \in NonRt : mutex_ = t <=> pc[t] \in {"read", "write1", "write2"}

\* The realtime thread never sees half a value, although it uses the pointer
\* without the mutex and reads on when a writer has the mutex.
RtReadsWhole == pc[Rt] = "second" => half[Rt] = data[ptr[Rt]][2]

\* What the realtime thread reads is never older than what it has read before.
RtNeverGoesBack == pc[Rt] = "second" => half[Rt] >= seen

\* readFromNonRT() gives the value written last, whole, however the realtime
\* thread swaps the cells, as long as nobody writes while the pointer is used.
NonRtReadsLast ==
    \A t \in calm : pc[t] = "second" => half[t] = last /\ data[ptr[t]][2] = last

\* When the writers are done the realtime thread gets the last value, unless other
\* threads never cease to take the mutex for readFromNonRT().
RtGetsLast ==
    <>[](\A t \in NonRt : pc[t] # "read") => []<>(seen = last)

=============================================================================
