---------------------- MODULE MCAsyncFunctionHandler ----------------------
(***************************************************************************)
(* Instances of AsyncFunctionHandler for TLC: who calls what.              *)
(***************************************************************************)
EXTENDS AsyncFunctionHandler

CONSTANTS owner, rt

AllParams == [policy : {"SYNCHRONIZED", "DETACHED"}, valid : BOOLEAN, wait : BOOLEAN]
ValidParams == {p \in AllParams : p.valid}

\* Clients = {owner, rt}.  Every operation, in any order and concurrently.
MayAnything == [c \in Clients |->
    IF c = owner THEN Operations ELSE {"trigger", "wait", "pause", "reset"}]

\* Clients = {owner, rt}.  A realtime loop that triggers, everything else done by
\* the owner; reset_variables() only as a part of start_thread().
MayRealtimeLoop == [c \in Clients |->
    IF c = owner THEN Operations \ {"reset", "join"} ELSE {"trigger"}]

\* Clients = {owner, rt}.  The realtime loop also recovers from exceptions.
MayRecover == [c \in Clients |->
    IF c = owner THEN {"init", "start", "stop"} ELSE {"trigger", "reset"}]

=============================================================================
