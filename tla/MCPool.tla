------------------------------- MODULE MCPool -------------------------------
(***************************************************************************)
(* Two pairs on one channel, from the moment both cars have answered the   *)
(* advertisement of their remote with CONNECTED_TO and both remotes have   *)
(* heard it.                                                               *)
(***************************************************************************)
EXTENDS RcSystemProps, Integers

\* x = y in every position, so that halves of two samples show.
Diagonal    == {<<1, 1>>, <<2, 2>>}
OnePosition == {<<1, 1>>}

\* Cars are the numbers of the channels they are on, remotes those plus 10.
Channel(r) == r - 10

PairedInit ==
    /\ pc = [c \in Cars |-> "end"]
    /\ body = [c \in Cars |-> STATE_CAR_WAIT_FOR_REMOTE]
    /\ mem = [c \in Cars |->
                [state |-> STATE_CAR_WAIT_FOR_REMOTE, next_state |-> STATE_CAR_SINGLE_MODE,
                 recevice_message |-> TRUE, slave_message |-> FALSE, receive_ack |-> FALSE,
                 remote_msg |-> [senderID |-> c, x |-> 0, y |-> 0]]]
    /\ my_id = [c \in Cars |-> c]
    /\ car_msg = [c \in Cars |-> Message(c, MSG_CAR_TYPE_CONNECTED_TO)]
    /\ turn = [c \in Cars |-> 0]
    /\ motors = [c \in Cars |-> Stopped]
    /\ wait = [c \in Cars |-> TIMEOUT - 1]
    /\ tries = [c \in Cars |-> 0]
    /\ listening = [c \in Cars |-> FALSE]
    /\ silence = [c \in Cars |-> 0]
    /\ rpc = [r \in Remotes |-> "listen"]
    /\ rmem = [r \in Remotes |-> [state |-> STATE_REMOTE_ADVERTISE_AVAILABLE,
                                  receive_ack |-> TRUE, car_type |-> MSG_CAR_TYPE_CONNECTED_TO]]
    /\ remote_msg = [r \in Remotes |-> [senderID |-> Channel(r), type |-> 0, x |-> 0, y |-> 0,
                                        button |-> FALSE]]
    /\ rnext = [r \in Remotes |-> STATE_REMOTE_ADVERTISE_AVAILABLE]
    /\ rwait = [r \in Remotes |-> AdvertTimeout]
    /\ rtries = [r \in Remotes |-> 1]
    /\ rlistening = [r \in Remotes |-> TRUE]
    /\ seen = [n \in Nodes |->
                 IF n \in Cars THEN None
                 ELSE Packet(CarFrame(Channel(n), MSG_CAR_TYPE_CONNECTED_TO), 0)]
    /\ losses = 0 /\ resets = 0

PairedSpec == PairedInit /\ [][Next]_vars

=============================================================================
