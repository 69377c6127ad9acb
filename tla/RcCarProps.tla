----------------------------- MODULE RcCarProps -----------------------------
(***************************************************************************)
(* What must be true of a car whatever surrounds it.                       *)
(***************************************************************************)
EXTENDS RcCar

Pcs == {"boot", "clear", "enter", "listen", "drop", "drop_next", "dispatch",
        "halt", "await", "adopt", "steer", "steer_x", "follow", "ack", "slave",
        "slave_listen", "reply", "request", "feed", "feed_listen", "end"}

Axis == Stick \cup {Junk}

Memory == [state : CarStates, next_state : {0} \cup CarStates,
           recevice_message : BOOLEAN, slave_message : BOOLEAN,
           receive_ack : BOOLEAN,
           remote_msg : [senderID : Ids, x : Axis, y : Axis]]

Motion == [run : BOOLEAN, by : Ids, y : Axis, x : Axis \cup {Follow}]

\* Every variable of the firmware has a value its declaration allows.
TypeOK ==
    /\ pc \in [Cars -> Pcs]
    /\ body \in [Cars -> CarStates]
    /\ mem \in [Cars -> Memory]
    /\ my_id \in [Cars -> Ids]
    /\ car_msg \in [Cars -> [senderID : Ids, type : CarTypes]]
    /\ turn \in [Cars -> Axis]
    /\ motors \in [Cars -> Motion]
    /\ wait \in [Cars -> Nat]
    /\ tries \in [Cars -> Nat]
    /\ listening \in [Cars -> BOOLEAN]
    /\ silence \in [Cars -> Nat]

\* A car that gets no command stops.  The motors of a car run on without a
\* command from its remote for at most one TIMEOUT in single and pending mode
\* (radio_wait_for_new_message), two in slave mode (the reply loop of main.c:433
\* comes first) and RETIRES + 1 in master mode (radio_send_and_ack_master_message
\* comes first); a car that has dropped to WAIT_FOR_REMOTE may be on its way
\* from any of them.
DeadManAt(state) ==
    CASE state \in {STATE_CAR_SINGLE_MODE, STATE_CAR_TRUCK_POOLING_PENDING} -> TIMEOUT
      [] state = STATE_CAR_TRUCK_POOLING_SLAVE -> 2 * TIMEOUT
      [] OTHER -> (RETIRES + 1) * TIMEOUT

DeadMan ==
    \A c \in Cars : motors[c].run => silence[c] <= DeadManAt(mem[c].state)

\* Only the remote a car has adopted drives it, even though an advertisement
\* of another remote overwrites the same remote_msg (main.c:134).
OnlyOwnRemote ==
    \A c \in Cars : motors[c].run => motors[c].by = my_id[c]

\* An answer to a remote carries the id of the remote the car has adopted, and
\* a message between cars the id 0, although all of them are built in one
\* static car_msg and two of the answers (main.c:378, 457) rely on the id the
\* last message left in it.
AckAddressing ==
    \A c \in Cars :
        Transmitting(c) =>
            SentFrame(c).id =
                IF SentFrame(c).type \in {MSG_CAR_TYPE_CONNECTED_TO,
                                          MSG_CAR_TYPE_ACKNOWLEDGE,
                                          MSG_CAR_TYPE_POOLING_SLAVE}
                THEN my_id[c] ELSE 0

-----------------------------------------------------------------------------
(***************************************************************************)
(* The inductive invariant behind these: what the main loop at p, in the   *)
(* body of b, may find in the memory m it shares with the handler.         *)
(***************************************************************************)
InBody == {"halt", "await", "adopt", "steer", "steer_x", "follow", "ack", "slave",
           "slave_listen", "reply", "request", "feed", "feed_listen", "end"}

\* NEXT_STATE is one that can follow STATE.
NextInv(p, m) ==
    /\ m.state = STATE_CAR_WAIT_FOR_REMOTE =>
         \/ m.next_state \in {0, STATE_CAR_WAIT_FOR_REMOTE, STATE_CAR_SINGLE_MODE}
         \/ p = "drop_next"
    /\ m.state = STATE_CAR_SINGLE_MODE =>
         m.next_state \in {STATE_CAR_SINGLE_MODE, STATE_CAR_TRUCK_POOLING_MASTER}
    /\ m.state = STATE_CAR_TRUCK_POOLING_PENDING =>
         m.next_state \in {STATE_CAR_TRUCK_POOLING_PENDING, STATE_CAR_TRUCK_POOLING_SLAVE}
    /\ m.state = STATE_CAR_TRUCK_POOLING_SLAVE =>
         \/ m.next_state = STATE_CAR_TRUCK_POOLING_SLAVE
         \/ m.next_state = STATE_CAR_WAIT_FOR_REMOTE /\ p = "end"
    /\ m.state = STATE_CAR_TRUCK_POOLING_MASTER =>
         m.next_state = STATE_CAR_TRUCK_POOLING_MASTER
    /\ p \in {"boot", "drop_next"} => m.state = STATE_CAR_WAIT_FOR_REMOTE

\* Each body runs in its own state; the handler can only move single mode on.
BodyInv(p, b, m) ==
    /\ p \in {"halt", "await", "adopt"} => b = STATE_CAR_WAIT_FOR_REMOTE
    /\ p \in {"steer", "steer_x"} =>
         b \in {STATE_CAR_SINGLE_MODE, STATE_CAR_TRUCK_POOLING_PENDING,
                STATE_CAR_TRUCK_POOLING_MASTER}
    /\ p \in {"follow", "slave", "slave_listen", "reply"} => b = STATE_CAR_TRUCK_POOLING_SLAVE
    /\ p = "request" => b = STATE_CAR_TRUCK_POOLING_PENDING
    /\ p \in {"feed", "feed_listen"} => b = STATE_CAR_TRUCK_POOLING_MASTER
    /\ p \in InBody =>
         \/ m.state = b
         \/ b = STATE_CAR_SINGLE_MODE /\ m.state = STATE_CAR_TRUCK_POOLING_PENDING
    /\ p \in {"adopt", "ack", "end"} /\ b = STATE_CAR_WAIT_FOR_REMOTE =>
         m.next_state = STATE_CAR_SINGLE_MODE

\* The message the loop steers by is from the car's own remote.
Steerable(p, m) ==
    \/ m.state \in {STATE_CAR_TRUCK_POOLING_PENDING, STATE_CAR_TRUCK_POOLING_SLAVE,
                    STATE_CAR_TRUCK_POOLING_MASTER}
    \/ /\ m.state = STATE_CAR_SINGLE_MODE
       /\ \/ p \in {"dispatch"} \cup InBody
          \/ p \in {"enter", "listen"} /\ m.recevice_message

SenderInv(p, m, id) == Steerable(p, m) => m.remote_msg.senderID = id

\* car_msg holds the id that the next answer is sent with.
Addressed(p, b, m) ==
    \/ m.state \in {STATE_CAR_SINGLE_MODE, STATE_CAR_TRUCK_POOLING_MASTER}
    \/ p \in {"steer", "steer_x", "ack"} /\ b = STATE_CAR_SINGLE_MODE
    \/ p \in {"ack", "end"} /\ b = STATE_CAR_WAIT_FOR_REMOTE

AnswerInv(p, b, m, id, msg) ==
    /\ Addressed(p, b, m) => msg.senderID = id
    /\ p = "ack" =>
         CASE b = STATE_CAR_WAIT_FOR_REMOTE -> msg = Message(id, MSG_CAR_TYPE_CONNECTED_TO)
           [] b = STATE_CAR_TRUCK_POOLING_SLAVE ->
                msg = Message(0, MSG_CAR_TYPE_ACKNOWLEDGE_MASTER)
           [] OTHER -> msg = Message(id, MSG_CAR_TYPE_ACKNOWLEDGE)
    /\ p = "reply" => msg = Message(id, MSG_CAR_TYPE_POOLING_SLAVE)

\* The motors run by the car's own remote, and stand still while it is adopted.
Standing(p, b) ==
    \/ p \in {"boot", "await", "adopt"}
    \/ p \in {"ack", "end"} /\ b = STATE_CAR_WAIT_FOR_REMOTE

MotorInv(p, b, mot, id) ==
    /\ mot.run => mot.by = id
    /\ Standing(p, b) => ~mot.run

Coherent(p, b, m, id, msg, mot) ==
    /\ NextInv(p, m)
    /\ BodyInv(p, b, m)
    /\ SenderInv(p, m, id)
    /\ AnswerInv(p, b, m, id, msg)
    /\ MotorInv(p, b, mot, id)
    /\ p = "boot" => id = 0

LoopInv ==
    \A c \in Cars : Coherent(pc[c], body[c], mem[c], my_id[c], car_msg[c], motors[c])

(***************************************************************************)
(* The one behind DeadMan: how long a car may have gone without a command  *)
(* where its main loop is, given what is left of the delay (w) and the     *)
(* messages it has repeated (t).                                           *)
(***************************************************************************)
\* ... when the main loop begins to wait for the next message.
Base(state) ==
    CASE state \in {STATE_CAR_SINGLE_MODE, STATE_CAR_TRUCK_POOLING_PENDING} -> 0
      [] state = STATE_CAR_TRUCK_POOLING_MASTER -> RETIRES * TIMEOUT
      [] OTHER -> TIMEOUT

\* ... when it has got one: SPEED_INFO is no command, and it makes a slave of a pending car.
Fresh(m, s) ==
    \/ s = 0
    \/ /\ m.state = STATE_CAR_TRUCK_POOLING_PENDING
       /\ m.next_state = STATE_CAR_TRUCK_POOLING_SLAVE
       /\ s <= TIMEOUT

TimeInv(p, b, m, run, w, t, s) ==
    /\ ~run => s = 0
    /\ s <= DeadManAt(m.state)
    /\ p \in {"clear", "enter"} => s <= Base(m.state)
    /\ p = "listen" => s + w <= Base(m.state) + TIMEOUT
    /\ /\ p = "dispatch" \/ (p \in {"enter", "listen"} /\ m.recevice_message)
       /\ m.state # STATE_CAR_WAIT_FOR_REMOTE
       => Fresh(m, s)
    /\ p \in InBody /\ b \in {STATE_CAR_SINGLE_MODE, STATE_CAR_TRUCK_POOLING_PENDING} => Fresh(m, s)
    /\ p \in {"follow", "slave"} => s = 0
    /\ p \in {"steer", "steer_x", "ack"} /\ b # STATE_CAR_TRUCK_POOLING_PENDING => s = 0
    /\ p = "slave_listen" => s + w <= TIMEOUT
    /\ p = "reply" => s <= TIMEOUT
    /\ p = "end" /\ b = STATE_CAR_TRUCK_POOLING_SLAVE => s <= TIMEOUT
    /\ p = "feed" => t < RETIRES /\ s <= t * TIMEOUT
    /\ p = "feed_listen" => t <= RETIRES /\ s + w <= t * TIMEOUT
    /\ p = "end" /\ b = STATE_CAR_TRUCK_POOLING_MASTER => s <= RETIRES * TIMEOUT

ClockInv ==
    \A c \in Cars :
        TimeInv(pc[c], body[c], mem[c], motors[c].run, wait[c], tries[c], silence[c])
-----------------------------------------------------------------------------
\* The firmware implements CarModes.
Modes == INSTANCE CarModes WITH
    mode   <- [c \in Cars |-> mem[c].state],
    owner  <- my_id,
    moving <- [c \in Cars |-> motors[c].run]

\* A car changes mode, remote and motion only as CarModes allows: it pairs only
\* from a standstill, keeps its remote until its power is cut, and is driven in
\* no mode but those of a paired car.
ImplementsModes == Modes!Spec
=============================================================================
