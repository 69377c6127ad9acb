---------------------------- MODULE RcSystemProps ----------------------------
(***************************************************************************)
(* What must be true of cars and remotes together.                         *)
(***************************************************************************)
EXTENDS RcSystem

Adopted(c, r) == my_id[c] = remote_msg[r].senderID

Obeys(c, r) ==
    motors[c] = [run |-> TRUE, by |-> remote_msg[r].senderID,
                 y |-> remote_msg[r].y, x |-> remote_msg[r].x]

\* An acknowledge means what it says: when a remote that steers leaves its round
\* with an answer (remote main.c:200, 205), a car of its id drives by the very
\* sample the remote sent, not by the sample before it or half of one.
AckSoundness ==
    [][\A r \in Remotes :
         /\ rmem[r].state = STATE_REMOTE_SINGLE_MODE /\ rmem[r].receive_ack
         /\ rpc[r] = "listen" /\ rpc'[r] = "return"
         => \E c \in Cars : Adopted(c, r) /\ Obeys(c, r)]_vars

\* The turn and the throttle a car drives by were sampled together, although
\* the main loop reads them one after the other from a variable the event
\* handler overwrites (car main.c:375, 96).
NoTornSample ==
    \A c \in Cars :
        motors[c].run /\ motors[c].x # Follow => <<motors[c].x, motors[c].y>> \in Positions

\* While no car has lost its power, a remote that believes it is connected has a
\* car that has adopted it (CONNECTED_TO is sent after my_id is set).
ConnectedMeansAdopted ==
    \A r \in Remotes :
        rmem[r].state \in {STATE_REMOTE_SINGLE_MODE, STATE_REMOTE_TRUCK_POOLING_PENDING,
                           STATE_REMOTE_TRUCK_POOLING_ENABLED} /\ resets = 0
            => \E c \in Cars : Adopted(c, r)

\* The remote is about to advertise after it was connected.
GaveUp(r) == /\ rmem[r].state \notin {STATE_REMOTE_WAIT_FOR_CHANNEL_SELECT,
                                     STATE_REMOTE_ADVERTISE_AVAILABLE}
             /\ rnext[r] = STATE_REMOTE_ADVERTISE_AVAILABLE

\* A car becomes a slave only when another car is there to lead it: it has heard
\* SPEED_INFO, which only a master sends, and both loops run on since.
SlaveHasMaster ==
    [][\A c \in Cars :
         mem[c].state # STATE_CAR_TRUCK_POOLING_SLAVE
         /\ mem'[c].state = STATE_CAR_TRUCK_POOLING_SLAVE
         => \E d \in Cars \ {c} : mem[d].state = STATE_CAR_TRUCK_POOLING_MASTER]_vars

\* The packets written next, by the cars and the remotes.
OnAir ==
    {NextPacket(c) : c \in {d \in Cars : Transmitting(d)}}
    \cup {Packet(RemoteSentFrame(r), 0) : r \in {q \in Remotes : rpc[q] = "transmit"}}

\* The handler would end the wait the main loop is in (car main.c:256, 433, 290).
EndsCarWait(c, f) ==
    LET m == EventHandler(mem[c], my_id[c], f) IN
    \/ pc[c] = "listen" /\ ~mem[c].recevice_message /\ m.recevice_message
    \/ pc[c] = "slave_listen" /\ ~mem[c].slave_message /\ m.slave_message
    \/ pc[c] = "feed_listen" /\ ~mem[c].receive_ack /\ m.receive_ack

\* The same of a remote (remote main.c:199).
EndsRemoteWait(r, f) ==
    /\ rpc[r] = "listen" /\ ~rmem[r].receive_ack
    /\ RemoteHandler(rmem[r], remote_msg[r].senderID, f).receive_ack

\* Packets are told apart by a packet id, which restarts with each session, and by
\* their content, which recurs: a stick at rest sends the same sample for ever, and
\* every acknowledge is like the last.  Still the driver's filter (nrf_esb.c:683)
\* and the half-duplex radio keep no packet from a node that is waiting for it:
\* whoever is about to send one, the node receives it unless the air loses it.
\* (The wait of car main.c:362 is the exception: WaitEnds.)
AwaitedIsHeard ==
    \A p \in OnAir :
        /\ \A c \in Cars : EndsCarWait(c, p.frame) => c \in Receivers(p)
        /\ \A r \in Remotes : EndsRemoteWait(r, p.frame) => r \in Receivers(p)

\* However the air behaves, a round of a connected remote comes to its end.
RoundsEnd ==
    \A r \in Remotes : rpc[r] = "send" /\ rmem[r].state # STATE_REMOTE_ADVERTISE_AVAILABLE
                         ~> rpc[r] = "next"

\* A car whose remote has gone back to advertising comes to a standstill.
AbandonedCarStops ==
    \A c \in Cars, r \in Remotes :
        motors[c].run /\ Adopted(c, r) /\ rmem[r].state = STATE_REMOTE_ADVERTISE_AVAILABLE
            ~> ~motors[c].run

\* A remote that was steering a car that lost its power gets to drive it again:
\* it gives up, advertises, and the car, which has forgotten it, adopts it.
RecoversFromReset ==
    \A c \in Cars, r \in Remotes :
        pc[c] = "boot" /\ rmem[r].state = STATE_REMOTE_SINGLE_MODE
            ~> motors[c].run /\ Adopted(c, r)

\* Remote main.c:284, "Connection lost, try to connect again first": a remote
\* that gave up on its car gets it back.
ConnectsAgain ==
    \A r \in Remotes : GaveUp(r) ~> rmem[r].state = STATE_REMOTE_SINGLE_MODE
                                    /\ rnext[r] = STATE_REMOTE_SINGLE_MODE

\* Car main.c:357, "Wait until a remote is ready to connect": a car without a
\* remote that waits while one advertises does not wait for ever.
WaitEnds ==
    \A c \in Cars, r \in Remotes :
        pc[c] = "await" /\ my_id[c] = 0 /\ rmem[r].state = STATE_REMOTE_ADVERTISE_AVAILABLE
            ~> pc[c] # "await"
=============================================================================
