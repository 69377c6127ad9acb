-------------------------------- MODULE MCCar --------------------------------
(***************************************************************************)
(* One car in arbitrary surroundings.  The frames that can reach it are    *)
(* all those of two remotes and of other cars, one of which has adopted    *)
(* the same remote; there is one stick value besides 0.                    *)
(***************************************************************************)
EXTENDS RcCarProps

Heardable ==
    {RemoteFrame(id, type, x, y) : id \in Ids, type \in RemoteTypes, x \in {0, 1}, y \in {1}}
    \cup {CarFrame(id, type) : id \in Ids, type \in CarTypes}

MCNext ==
    \/ \E c \in Cars : LocalStep(c)
    \/ \E c \in Cars, H \in SUBSET CarListeners : c \notin H /\ Transmit(c, H)
    \/ \E f \in Heardable, H \in SUBSET CarListeners : Environment(f, H)
    \/ CarsTick
    \/ \E c \in Cars : PowerCycle(c)

MCSpec == CarInit /\ [][MCNext]_carVars
=============================================================================
