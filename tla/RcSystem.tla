------------------------------- MODULE RcSystem -------------------------------
(***************************************************************************)
(* Cars and remotes on one radio channel.  The air delivers a frame to all *)
(* the nodes that listen, or loses it for some of them; nothing delays or  *)
(* duplicates it, the nodes resend.  A node does not hear a frame that     *)
(* repeats the packet id and checksum of the last it heard in the same     *)
(* receive session (nrf_esb.c:682-692): esb_init, which both radio modes   *)
(* call, forgets that packet and restarts the packet ids                   *)
(* (nrf_esb.c:855-895), so each message written first in a session has     *)
(* id 1.                                                                   *)
(***************************************************************************)
EXTENDS RcCarProps, RcRemoteProps, FiniteSets

CONSTANTS
    MaxLosses,      \* bound: deliveries the air loses
    MaxResets       \* bound: times a car loses its power

ASSUME BoundsAssumption == MaxLosses \in Nat /\ MaxResets \in Nat
ASSUME NodesAssumption == Cars \cap Remotes = {}

VARIABLES
    seen,       \* the last packet of each node's receive session
    losses,
    resets

airVars == <<seen, losses, resets>>
vars == <<carVars, remoteVars, airVars>>

Nodes == Cars \cup Remotes
None  == [pid |-> 0]

\* The content stands for the checksum.  Packet ids have two bits.
Packet(f, n) == [pid |-> (n + 1) % 4, frame |-> f]

NextPacket(c) == Packet(SentFrame(c), IF pc[c] = "request" THEN tries[c] + 1 ELSE 0)

\* on_radio_disabled_rx: a repeated packet does not reach the application.
Receivers(p) ==
    {c \in CarListeners : seen[c] # p} \cup {r \in Remotes : rlistening[r] /\ seen[r] # p}

\* Mutant: turning to transmit mode does not forget the last packet (nrf_esb.c:876).
Deliver_keeps_packet(sender, p, H) ==
    /\ H \subseteq Receivers(p) \ {sender}
    /\ losses' = losses + Cardinality((Receivers(p) \ {sender}) \ H)
    /\ losses' <= MaxLosses
    /\ seen' = [n \in Nodes |-> IF n \in H THEN p ELSE seen[n]]
    /\ UNCHANGED resets

\* `sender` transmits p: H are the receivers that get it.  The sender called
\* esb_init before, so the packets it heard are forgotten.
Deliver(sender, p, H) ==
    /\ H \subseteq Receivers(p) \ {sender}
    /\ losses' = losses + Cardinality((Receivers(p) \ {sender}) \ H)
    /\ losses' <= MaxLosses
    /\ seen' = [n \in Nodes |-> IF n = sender THEN None
                                ELSE IF n \in H THEN p ELSE seen[n]]
    /\ UNCHANGED resets

CarSends(c) ==
    /\ Transmitting(c)
    /\ \E H \in SUBSET (Receivers(NextPacket(c)) \ {c}) :
           /\ Deliver(c, NextPacket(c), H)
           /\ Transmit(c, H \cap Cars)
           /\ RemotesHear(H \cap Remotes, SentFrame(c))
           /\ UNCHANGED <<rpc, remote_msg, rnext, rwait, rtries, rlistening>>

RemoteSends(r) ==
    LET p == Packet(RemoteSentFrame(r), 0) IN
    /\ rpc[r] = "transmit"
    /\ \E H \in SUBSET (Receivers(p) \ {r}) :
           /\ Deliver(r, p, H)
           /\ RemoteTransmit(r)
           /\ RemotesHear(H \cap Remotes, p.frame)
           /\ Environment(p.frame, H \cap Cars)

\* Mutant: radio_receive_mode goes on with the session there is.
CarStep_keeps_packet(c) ==
    /\ LocalStep(c)
    /\ UNCHANGED <<seen, remoteVars, losses, resets>>

\* radio_receive_mode starts a session.
CarStep(c) ==
    /\ LocalStep(c)
    /\ seen' = IF pc[c] \in {"enter", "slave"} THEN [seen EXCEPT ![c] = None] ELSE seen
    /\ UNCHANGED <<remoteVars, losses, resets>>

RemoteRound(r) == RemoteStep(r) /\ UNCHANGED <<carVars, airVars>>

Tick == CarsTick /\ RemotesTick /\ UNCHANGED airVars

CarReset(c) ==
    /\ resets < MaxResets
    /\ resets' = resets + 1
    /\ PowerCycle(c)
    /\ seen' = [seen EXCEPT ![c] = None]
    /\ UNCHANGED <<remoteVars, losses>>

Init == CarInit /\ RemoteInit /\ seen = [n \in Nodes |-> None] /\ losses = 0 /\ resets = 0

Next ==
    \/ \E c \in Cars : CarStep(c) \/ CarSends(c) \/ CarReset(c)
    \/ \E r \in Remotes : RemoteRound(r) \/ RemoteSends(r)
    \/ Tick

Spec == Init /\ [][Next]_vars

\* The processors run and time passes; nothing is assumed of the air.
Fairness ==
    /\ \A c \in Cars : WF_vars(CarStep(c)) /\ WF_vars(CarSends(c))
    /\ \A r \in Remotes : WF_vars(RemoteRound(r)) /\ WF_vars(RemoteSends(r))
    /\ WF_vars(Tick)

FairSpec == Spec /\ Fairness
=============================================================================
