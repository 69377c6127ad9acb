------------------------------ MODULE CarModes ------------------------------
(***************************************************************************)
(* What the car firmware promises, without its loop, its interrupt handler *)
(* or its radio: each car is in a mode, belongs to at most one remote until *)
(* its power is cut, and leaves the waiting mode only from a standstill.   *)
(* The firmware has no written specification; the modes are the car states *)
(* of rc_messages_and_defines.h:20-24, the steps the transitions of        *)
(* main.c.  RcCar implements this module.                                  *)
(***************************************************************************)
CONSTANTS Cars, Ids

VARIABLES
    mode,       \* the car's state
    owner,      \* the remote it belongs to, 0 for none
    moving      \* are its motors driven

vars == <<mode, owner, moving>>

Wait    == 10
Single  == 11
Pending == 12
Slave   == 13
Master  == 14

Init ==
    /\ mode = [c \in Cars |-> Wait]
    /\ owner = [c \in Cars |-> 0]
    /\ moving = [c \in Cars |-> FALSE]

Become(c, from, to) == mode[c] = from /\ mode' = [mode EXCEPT ![c] = to]

\* A car without a remote takes one while it stands still.
Adopt(c) ==
    /\ mode[c] = Wait /\ ~moving[c] /\ owner[c] = 0
    /\ \E id \in Ids : owner' = [owner EXCEPT ![c] = id]
    /\ UNCHANGED <<mode, moving>>

\* It is ready to be driven only from a standstill.
Pair(c) ==
    /\ ~moving[c]
    /\ Become(c, Wait, Single)
    /\ UNCHANGED <<owner, moving>>

Drive(c) ==
    /\ mode[c] # Wait
    /\ moving' = [moving EXCEPT ![c] = TRUE]
    /\ UNCHANGED <<mode, owner>>

\* A pending car finds its master, or another car's request makes it one.
BecomeSlave(c)  == Become(c, Pending, Slave)  /\ UNCHANGED <<owner, moving>>
BecomeMaster(c) == Become(c, Single, Master)  /\ UNCHANGED <<owner, moving>>

\* A lost link ends in the waiting mode, where the motors are stopped.
Drop(c) ==
    /\ mode[c] # Wait
    /\ mode' = [mode EXCEPT ![c] = Wait]
    /\ UNCHANGED <<owner, moving>>

Halt(c) ==
    /\ mode[c] = Wait
    /\ moving' = [moving EXCEPT ![c] = FALSE]
    /\ UNCHANGED <<mode, owner>>

PowerCycle(c) ==
    /\ mode' = [mode EXCEPT ![c] = Wait]
    /\ owner' = [owner EXCEPT ![c] = 0]
    /\ moving' = [moving EXCEPT ![c] = FALSE]

CarStep(c) ==
    \/ Adopt(c) \/ Pair(c) \/ Drive(c) \/ BecomeSlave(c)
    \/ BecomeMaster(c) \/ Drop(c) \/ Halt(c) \/ PowerCycle(c)

\* The drivers ask for a pool.  One frame can move several cars at once: the
\* event handlers of all that hear it run before any of their loops.
Request(C) ==
    /\ \A c \in C : mode[c] = Single
    /\ mode' = [c \in Cars |-> IF c \in C THEN Pending ELSE mode[c]]
    /\ UNCHANGED <<owner, moving>>

Next ==
    \/ \E c \in Cars : CarStep(c)
    \/ \E C \in SUBSET Cars : Request(C)

Spec == Init /\ [][Next]_vars
=============================================================================
