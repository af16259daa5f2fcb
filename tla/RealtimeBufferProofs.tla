------------------------ MODULE RealtimeBufferProofs ------------------------
(***************************************************************************)
(* Proofs about RealtimeBuffer for any number of non-realtime threads and  *)
(* of writes.  IInv is the inductive invariant: whose pointer points where,*)
(* which cell is whole at each place of a writer, and where the value is   *)
(* that was written last.                                                  *)
(***************************************************************************)
EXTENDS RealtimeBuffer, TLAPS

Values == 0 .. MaxWrites

\* The realtime thread never holds the mutex, and uses the cell that is its own.
PtrInv ==
    /\ pc[Rt] \in {"idle", "first", "second"}
    /\ pc[Rt] # "idle" => ptr[Rt] = realtime_data_
    /\ pc[Rt] = "second" => half[Rt] = data[realtime_data_][1]
    /\ \A t \in NonRt : pc[t] = "read" => t \in NonRtReads

\* The writer that has the mutex writes the newest value, and only it leaves a cell
\* that is not whole: never the one of the realtime thread.
CellInv ==
    /\ \A c \in Cells : data[c] \in (0 .. writes) \X (0 .. writes)
    /\ data[realtime_data_][1] = data[realtime_data_][2]
    /\ \A t \in NonRt : pc[t] \in {"write1", "write2"} => arg[t] = writes
    /\ \A t \in NonRt : pc[t] = "write2" => data[non_realtime_data_][1] = writes
    /\ (\A t \in NonRt : pc[t] # "write2")
            => data[non_realtime_data_][1] = data[non_realtime_data_][2]

\* What the realtime thread may get next is not older than what it has.
AgeInv ==
    /\ seen <= data[realtime_data_][1]
    /\ new_data_available_ => data[realtime_data_][1] <= data[non_realtime_data_][1]

\* The value written last is where readFromNonRT() looks for it.
LastInv ==
    /\ ~new_data_available_ => data[realtime_data_] = Whole(last)
    /\ new_data_available_ /\ (\A t \in NonRt : pc[t] # "write2")
            => data[non_realtime_data_] = Whole(last)

\* Calm readers still point to it.
CalmInv ==
    /\ \A t \in NonRt : pc[t] = "write2" => calm = {}
    /\ \A t \in calm : pc[t] \in {"first", "second"} => data[ptr[t]] = Whole(last)
    /\ \A t \in calm : pc[t] = "second" => half[t] = last

IInv ==
    /\ TypeOK
    /\ PtrInv
    /\ CellInv
    /\ AgeInv
    /\ LastInv
    /\ CalmInv

-----------------------------------------------------------------------------
\* The inductive invariant holds after construction.
LEMMA InitIInv == Init => IInv
  <1> SUFFICES ASSUME Init PROVE IInv
    OBVIOUS
  <1> USE ThreadsAssumption, BoundAssumption DEF Threads, Cells, Whole
  <1>1. TypeOK
    <2>1. data \in [Cells -> Values \X Values]
      BY DEF Init, Values
    <2>2. ptr \in [Threads -> Cells] /\ half \in [Threads -> Values]
          /\ arg \in [Threads -> Values]
      BY DEF Init, Values
    <2>3. pc \in [Threads -> {"idle", "read", "first", "second", "write1", "write2"}]
          /\ \A t \in NonRt : mutex_ = t <=> pc[t] \in {"read", "write1", "write2"}
      BY DEF Init
    <2>4. /\ {realtime_data_, non_realtime_data_} = Cells /\ new_data_available_ \in BOOLEAN
          /\ mutex_ \in NonRt \cup {Nobody} /\ calm \subseteq NonRtReads
      BY DEF Init
    <2>5. writes \in Values /\ last \in 0 .. writes /\ seen \in 0 .. writes
      BY DEF Init, Values
    <2> HIDE ThreadsAssumption, BoundAssumption DEF Threads, Cells, Whole
    <2> QED
      BY <2>1, <2>2, <2>3, <2>4, <2>5, Zenon DEF TypeOK, Values
  <1>2. PtrInv /\ CellInv /\ AgeInv
    BY DEF Init, PtrInv, CellInv, AgeInv
  <1>3. LastInv /\ CalmInv
    BY DEF Init, LastInv, CalmInv
  <1> QED
    BY <1>1, <1>2, <1>3 DEF IInv

\* Every step of every thread keeps it.
LEMMA NextIInv == IInv /\ [Next]_vars => IInv'
  <1> SUFFICES ASSUME IInv, [Next]_vars PROVE IInv'
    OBVIOUS
  <1> USE ThreadsAssumption, BoundAssumption
      DEF IInv, TypeOK, PtrInv, CellInv, AgeInv, LastInv, CalmInv,
          Threads, Cells, Whole, pointers, locals, Goto
  <1>1. CASE ReadFromRT
    <2>1. TypeOK'
      <3>1. {realtime_data_', non_realtime_data_'} = Cells
        BY <1>1 DEF ReadFromRT, ReadRT
      <3>2. ptr' \in [Threads -> Cells]
        BY <1>1, <3>1 DEF ReadFromRT, ReadRT
      <3> QED
        BY <1>1, <3>1, <3>2 DEF ReadFromRT, ReadRT
    <2>2. PtrInv' /\ AgeInv'
      BY <1>1 DEF ReadFromRT, ReadRT
    <2>3. CellInv'
      BY <1>1 DEF ReadFromRT, ReadRT
    <2>4. LastInv'
      BY <1>1 DEF ReadFromRT, ReadRT
    <2>5. CalmInv'
      BY <1>1 DEF ReadFromRT, ReadRT
    <2> QED
      BY <2>1, <2>2, <2>3, <2>4, <2>5
  <1>2. ASSUME NEW t \in Threads, UseFirst(t) PROVE IInv'
    BY <1>2 DEF UseFirst
  <1>3. ASSUME NEW t \in Threads, UseSecond(t) PROVE IInv'
    BY <1>3 DEF UseSecond
  <1>4. ASSUME NEW t \in NonRt, ReadFromNonRT(t) PROVE IInv'
    BY <1>4 DEF ReadFromNonRT
  <1>5. ASSUME NEW t \in NonRt, ReadNonRTReturns(t) PROVE IInv'
    BY <1>5 DEF ReadNonRTReturns
  <1>6. ASSUME NEW t \in NonRt, WriteFromNonRT(t) PROVE IInv'
    BY <1>6 DEF WriteFromNonRT
  <1>7. ASSUME NEW t \in NonRt, WriteFirst(t) PROVE IInv'
    <2>1. TypeOK'
      <3>1. data' \in [Cells -> Values \X Values]
        BY <1>7 DEF WriteFirst, Values
      <3> QED
        BY <1>7, <3>1 DEF WriteFirst, Values
    <2>2. PtrInv' /\ AgeInv'
      BY <1>7 DEF WriteFirst
    <2>3. CellInv'
      <3>1. arg[t] = writes /\ realtime_data_ # non_realtime_data_
        BY <1>7 DEF WriteFirst
      <3>2. /\ data'[non_realtime_data_] = [data[non_realtime_data_] EXCEPT ![1] = writes]
            /\ data'[realtime_data_] = data[realtime_data_]
        BY <1>7, <3>1 DEF WriteFirst
      <3>3. \A c \in Cells : data'[c] \in (0 .. writes) \X (0 .. writes)
        BY <3>1, <3>2
      <3> QED
        BY <1>7, <3>1, <3>2, <3>3 DEF WriteFirst
    <2>4. LastInv' /\ CalmInv'
      BY <1>7 DEF WriteFirst
    <2> QED
      BY <2>1, <2>2, <2>3, <2>4
  <1>8. ASSUME NEW t \in NonRt, WriteSecond(t) PROVE IInv'
    BY <1>8 DEF WriteSecond
  <1>9. CASE InitRT
    BY <1>9 DEF InitRT, Quiet
  <1>10. CASE Reset
    BY <1>10 DEF Reset, Quiet
  <1>11. CASE UNCHANGED vars
    BY <1>11 DEF vars
  <1> QED
    BY <1>1, <1>2, <1>3, <1>4, <1>5, <1>6, <1>7, <1>8, <1>9, <1>10, <1>11
    DEF Next, ThreadSteps, WriterSteps

-----------------------------------------------------------------------------
\* The inductive invariant holds in every state.
THEOREM Invariance == Safety => []IInv
  BY InitIInv, NextIInv, PTL DEF Safety

\* Types, two different pointers and a mutex that is held where the code holds it, for
\* any threads and any number of calls.
THEOREM TypeCorrect == Safety => []TypeOK
  <1>1. IInv => TypeOK
    BY DEF IInv
  <1> QED
    BY <1>1, Invariance, PTL

\* readFromRT() gives the realtime thread whole values, for any number of writers.
THEOREM WholeCorrect == Safety => []RtReadsWhole
  <1>1. IInv => RtReadsWhole
    BY DEF IInv, PtrInv, CellInv, RtReadsWhole
  <1> QED
    BY <1>1, Invariance, PTL

\* It never gives the realtime thread a value older than one it has seen.
THEOREM NoStepBack == Safety => []RtNeverGoesBack
  <1>1. IInv => RtNeverGoesBack
    BY DEF IInv, TypeOK, Cells, PtrInv, CellInv, AgeInv, RtNeverGoesBack
  <1> QED
    BY <1>1, Invariance, PTL

\* readFromNonRT() gives the value written last, whole, until somebody writes.
THEOREM LastCorrect == Safety => []NonRtReadsLast
  <1>1. IInv => NonRtReadsLast
    BY DEF IInv, CalmInv, NonRtReadsLast, Whole
  <1> QED
    BY <1>1, Invariance, PTL

=============================================================================
