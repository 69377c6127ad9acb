-------------------------------- MODULE RcCar --------------------------------
(***************************************************************************)
(* The car firmware, rc_car_propritary/main.c: a super-loop that waits for *)
(* a message, runs the body of its state and transmits, interrupted by the *)
(* radio's event handler, which writes the variables the loop reads.       *)
(*                                                                         *)
(* The module is open: a frame may reach any listening car at any time     *)
(* (Environment), and a frame a car sends reaches any subset of the other  *)
(* listening cars.  RcSystem closes it with the remotes and the air.       *)
(*                                                                         *)
(* One step of main is the code between two points where an interrupt can  *)
(* change its outcome.  Time advances (Tick) only while every car waits    *)
(* in a delay loop: the code between two waits runs in milliseconds, a     *)
(* tick is 100 ms.                                                         *)
(***************************************************************************)
EXTENDS RcMessages

CONSTANTS
    Cars,
    TIMEOUT,    \* main.c:54, in ticks
    RETIRES,    \* main.c:55, times a master sends one speed message
    BootTime,   \* main.c:347, in ticks
    Follow      \* a throttle computed by the distance controller, not a stick

ASSUME CarAssumption == /\ TIMEOUT \in Nat \ {0}
                        /\ RETIRES \in Nat \ {0}
                        /\ BootTime \in Nat

VARIABLES
    pc,         \* where the main loop is
    body,       \* the case of the switch it is in
    mem,        \* what the loop shares with the event handler
    my_id,      \* the remote this car has adopted, 0 for none
    car_msg,    \* the message being built
    turn,       \* remote_msg.y as the loop read it, before it reads x
    motors,     \* what set_motors was last called with
    wait,       \* ticks left in the delay loop
    tries,      \* messages sent in a repeat loop
    listening,  \* is the radio in receive mode
    silence     \* history: ticks the motors have run since the last command

carVars == <<pc, body, mem, my_id, car_msg, turn, motors, wait, tries,
             listening, silence>>

\* Frames by which the driver of this car keeps it going.
Commands == {MSG_REMOTE_TYPE_SINGLE_MODE_STEERING,
             MSG_REMOTE_TYPE_TRUCK_POOLING_REQUEST,
             MSG_REMOTE_TYPE_TRUCK_POOLING_SLAVE}

Stopped == [run |-> FALSE, by |-> 0, y |-> 0, x |-> 0]

ColdMemory == [state |-> STATE_CAR_WAIT_FOR_REMOTE, next_state |-> 0,
               recevice_message |-> FALSE, slave_message |-> FALSE,
               receive_ack |-> FALSE,
               remote_msg |-> [senderID |-> 0, x |-> 0, y |-> 0]]

ColdMessage == [senderID |-> 0, type |-> MSG_CAR_TYPE_CONNECTED_TO]
-----------------------------------------------------------------------------
(***************************************************************************)
(* nrf_esb_event_handler, RX_RECEIVED, for a car that has adopted `id`.    *)
(***************************************************************************)
Stored(m, f) ==
    [m EXCEPT !.remote_msg = [senderID |-> f.id, x |-> f.x, y |-> f.y]]

\* The frame carries the car's own id: main.c:95-125.
OwnFrame(m, f) ==
    LET s == Stored(m, f)
        pooled == m.state = STATE_CAR_TRUCK_POOLING_SLAVE
    IN  CASE f.type = MSG_REMOTE_TYPE_SINGLE_MODE_STEERING ->
               [s EXCEPT !.recevice_message = TRUE]
          [] f.type = MSG_REMOTE_TYPE_TRUCK_POOLING_REQUEST
             /\ m.state = STATE_CAR_SINGLE_MODE ->
               [s EXCEPT !.state = STATE_CAR_TRUCK_POOLING_PENDING,
                         !.next_state = STATE_CAR_TRUCK_POOLING_PENDING,
                         !.recevice_message = TRUE]
          [] f.type = MSG_REMOTE_TYPE_TRUCK_POOLING_REQUEST
             /\ m.state = STATE_CAR_TRUCK_POOLING_PENDING ->
               [s EXCEPT !.recevice_message = TRUE]
          [] f.type \in {MSG_REMOTE_TYPE_TRUCK_POOLING_REQUEST,
                         MSG_REMOTE_TYPE_TRUCK_POOLING_SLAVE} /\ pooled ->
               [s EXCEPT !.slave_message = TRUE]
          \* main.c:116 compares STATE with (13 || 12), which is 1
          [] f.type = MSG_REMOTE_TYPE_TRUCK_POOLING_STOP /\ m.state = 1 ->
               [s EXCEPT !.next_state = STATE_CAR_SINGLE_MODE,
                         !.recevice_message = TRUE]
          [] OTHER -> s

\* Mutant: a request of another car counts as the answer of a master.
OtherFrame_any_pool_message(m, id, f) ==
    CASE f.type = MSG_REMOTE_TYPE_ADVERTISE_AVAILABLE
         /\ m.state = STATE_CAR_WAIT_FOR_REMOTE
         /\ (id = 0 \/ m.remote_msg.senderID = id) ->
           [Stored(m, f) EXCEPT !.next_state = STATE_CAR_SINGLE_MODE,
                                !.recevice_message = TRUE]
      [] f.type \in {MSG_CAR_TYPE_SPEED_INFO, MSG_CAR_TYPE_REQUEST_POOLING}
         /\ m.state = STATE_CAR_TRUCK_POOLING_PENDING ->
           [m EXCEPT !.next_state = STATE_CAR_TRUCK_POOLING_SLAVE,
                     !.recevice_message = TRUE]
      [] OTHER -> m

\* It carries another id: main.c:127-157.  SPEED_INFO falls through to the
\* next case, so it makes a master of a car in single mode.
OtherFrame(m, id, f) ==
    CASE f.type = MSG_REMOTE_TYPE_ADVERTISE_AVAILABLE
         /\ m.state = STATE_CAR_WAIT_FOR_REMOTE
         /\ (id = 0 \/ m.remote_msg.senderID = id) ->
           [Stored(m, f) EXCEPT !.next_state = STATE_CAR_SINGLE_MODE,
                                !.recevice_message = TRUE]
      [] f.type = MSG_CAR_TYPE_SPEED_INFO
         /\ m.state = STATE_CAR_TRUCK_POOLING_PENDING ->
           [m EXCEPT !.next_state = STATE_CAR_TRUCK_POOLING_SLAVE,
                     !.recevice_message = TRUE]
      [] f.type \in {MSG_CAR_TYPE_SPEED_INFO, MSG_CAR_TYPE_REQUEST_POOLING}
         /\ m.state = STATE_CAR_SINGLE_MODE ->
           [m EXCEPT !.next_state = STATE_CAR_TRUCK_POOLING_MASTER]
      [] f.type = MSG_CAR_TYPE_ACKNOWLEDGE_MASTER
         /\ m.state = STATE_CAR_TRUCK_POOLING_MASTER ->
           [m EXCEPT !.receive_ack = TRUE]
      [] OTHER -> m

\* Mutant: the sender is compared for advertisements only.
EventHandler_any_sender(m, id, f) ==
    IF f.type # MSG_REMOTE_TYPE_ADVERTISE_AVAILABLE THEN OwnFrame(m, f)
    ELSE OtherFrame(m, id, f)

EventHandler(m, id, f) ==
    IF f.id = id THEN OwnFrame(m, f) ELSE OtherFrame(m, id, f)

\* Every car of H handles frame f.
CarsHear(H, f) ==
    /\ mem' = [c \in Cars |-> IF c \in H THEN EventHandler(mem[c], my_id[c], f)
                                         ELSE mem[c]]
    /\ silence' = [c \in Cars |-> IF c \in H /\ f.id = my_id[c] /\ f.type \in Commands
                                  THEN 0 ELSE silence[c]]
-----------------------------------------------------------------------------
Goto(c, from, to) == pc[c] = from /\ pc' = [pc EXCEPT ![c] = to]

Message(id, type) == [senderID |-> id, type |-> type]

\* Mutant: the flag of the last message is left set.
Clear_keeps_flag(c) ==
    /\ Goto(c, "clear", "enter")
    /\ UNCHANGED <<body, mem, my_id, car_msg, turn, motors, wait, tries, listening, silence>>

\* radio_wait_for_new_message, main.c:252-270
Clear(c) ==
    /\ Goto(c, "clear", "enter")
    /\ mem' = [mem EXCEPT ![c].recevice_message = FALSE]
    /\ UNCHANGED <<body, my_id, car_msg, turn, motors, wait, tries, listening, silence>>

Listen(c) ==
    /\ Goto(c, "enter", "listen")
    /\ listening' = [listening EXCEPT ![c] = TRUE]
    /\ wait' = [wait EXCEPT ![c] = TIMEOUT]
    /\ UNCHANGED <<body, mem, my_id, car_msg, turn, motors, tries, silence>>

Heard(c) ==
    /\ Goto(c, "listen", "dispatch")
    /\ mem[c].recevice_message
    /\ UNCHANGED <<body, mem, my_id, car_msg, turn, motors, wait, tries, listening, silence>>

\* The test of line 262 fails; lines 266 and 267 follow as two steps.
TimedOut(c) ==
    /\ Goto(c, "listen", "drop")
    /\ wait[c] = 0
    /\ ~mem[c].recevice_message
    /\ UNCHANGED <<body, mem, my_id, car_msg, turn, motors, wait, tries, listening, silence>>

DropState(c) ==
    /\ Goto(c, "drop", "drop_next")
    /\ mem' = [mem EXCEPT ![c].state = STATE_CAR_WAIT_FOR_REMOTE]
    /\ UNCHANGED <<body, my_id, car_msg, turn, motors, wait, tries, listening, silence>>

DropNext(c) ==
    /\ Goto(c, "drop_next", "dispatch")
    /\ mem' = [mem EXCEPT ![c].next_state = mem[c].state]
    /\ UNCHANGED <<body, my_id, car_msg, turn, motors, wait, tries, listening, silence>>

\* switch(STATE), main.c:355
Dispatch(c) ==
    /\ pc[c] = "dispatch"
    /\ pc' = [pc EXCEPT ![c] =
                 CASE mem[c].state = STATE_CAR_WAIT_FOR_REMOTE      -> "halt"
                   [] mem[c].state = STATE_CAR_TRUCK_POOLING_SLAVE  -> "follow"
                   [] OTHER                                         -> "steer"]
    /\ body' = [body EXCEPT ![c] = mem[c].state]
    /\ UNCHANGED <<mem, my_id, car_msg, turn, motors, wait, tries, listening, silence>>

\* Mutant: the motors are left as they are.
Halt_coasts(c) ==
    /\ Goto(c, "halt", "await")
    /\ UNCHANGED <<body, mem, my_id, car_msg, turn, motors, wait, tries, listening, silence>>

\* STATE_CAR_WAIT_FOR_REMOTE, main.c:356-371
Halt(c) ==
    /\ Goto(c, "halt", "await")
    /\ motors' = [motors EXCEPT ![c] = Stopped]
    /\ silence' = [silence EXCEPT ![c] = 0]
    /\ UNCHANGED <<body, mem, my_id, car_msg, turn, wait, tries, listening>>

\* Mutant: the loop does not wait.
Await_falls_through(c) ==
    /\ Goto(c, "await", "adopt")
    /\ UNCHANGED <<body, mem, my_id, car_msg, turn, motors, wait, tries, listening, silence>>

Await(c) ==
    /\ Goto(c, "await", "adopt")
    /\ mem[c].next_state = STATE_CAR_SINGLE_MODE
    /\ UNCHANGED <<body, mem, my_id, car_msg, turn, motors, wait, tries, listening, silence>>

\* Mutant: the remote is answered but not adopted.
Adopt_forgets_id(c) ==
    /\ Goto(c, "adopt", "ack")
    /\ car_msg' = [car_msg EXCEPT
                     ![c] = Message(mem[c].remote_msg.senderID, MSG_CAR_TYPE_CONNECTED_TO)]
    /\ UNCHANGED <<body, mem, my_id, turn, motors, wait, tries, listening, silence>>

Adopt(c) ==
    /\ Goto(c, "adopt", "ack")
    /\ my_id' = [my_id EXCEPT ![c] = IF @ = 0 THEN mem[c].remote_msg.senderID ELSE @]
    /\ car_msg' = [car_msg EXCEPT ![c] = Message(my_id'[c], MSG_CAR_TYPE_CONNECTED_TO)]
    /\ UNCHANGED <<body, mem, turn, motors, wait, tries, listening, silence>>

\* Mutant: the turn of the message before is used.
ReadTurn_stale(c) ==
    /\ Goto(c, "steer", "steer_x")
    /\ UNCHANGED <<body, mem, my_id, car_msg, turn, motors, wait, tries, listening, silence>>

\* steering_speeds(remote_msg.y, remote_msg.x, ...): two reads of a variable
\* the handler overwrites: main.c:375, 385, 454.
ReadTurn(c) ==
    /\ Goto(c, "steer", "steer_x")
    /\ turn' = [turn EXCEPT ![c] = mem[c].remote_msg.y]
    /\ UNCHANGED <<body, mem, my_id, car_msg, motors, wait, tries, listening, silence>>

\* Mutant: pending mode keeps the id too.
SetMotors_keeps_id(c) ==
    /\ Goto(c, "steer_x", "ack")
    /\ motors' = [motors EXCEPT ![c] =
                     [run |-> TRUE, by |-> mem[c].remote_msg.senderID,
                      y |-> turn[c], x |-> mem[c].remote_msg.x]]
    /\ car_msg' = [car_msg EXCEPT ![c].type = MSG_CAR_TYPE_ACKNOWLEDGE]
    /\ UNCHANGED <<body, mem, my_id, turn, wait, tries, listening, silence>>

\* ... and the acknowledge: single mode and master keep the id car_msg has.
SetMotors(c) ==
    /\ Goto(c, "steer_x", "ack")
    /\ motors' = [motors EXCEPT ![c] =
                     [run |-> TRUE, by |-> mem[c].remote_msg.senderID,
                      y |-> turn[c], x |-> mem[c].remote_msg.x]]
    /\ car_msg' = [car_msg EXCEPT ![c] =
                     Message(IF body[c] = STATE_CAR_TRUCK_POOLING_PENDING
                             THEN my_id[c] ELSE car_msg[c].senderID,
                             MSG_CAR_TYPE_ACKNOWLEDGE)]
    /\ UNCHANGED <<body, mem, my_id, turn, wait, tries, listening, silence>>

\* STATE_CAR_TRUCK_POOLING_SLAVE, main.c:412-427
SetFollow(c) ==
    /\ Goto(c, "follow", "ack")
    /\ motors' = [motors EXCEPT ![c] =
                     [run |-> TRUE, by |-> mem[c].remote_msg.senderID,
                      y |-> mem[c].remote_msg.y, x |-> Follow]]
    /\ car_msg' = [car_msg EXCEPT ![c] = Message(0, MSG_CAR_TYPE_ACKNOWLEDGE_MASTER)]
    /\ UNCHANGED <<body, mem, my_id, turn, wait, tries, listening, silence>>

\* main.c:430-433; the radio still transmits until it enters receive mode.
SlaveListen(c) ==
    /\ Goto(c, "slave", "slave_listen")
    /\ mem' = [mem EXCEPT ![c].slave_message = FALSE]
    /\ listening' = [listening EXCEPT ![c] = TRUE]
    /\ wait' = [wait EXCEPT ![c] = TIMEOUT]
    /\ UNCHANGED <<body, my_id, car_msg, turn, motors, tries, silence>>

SlaveHeard(c) ==
    /\ Goto(c, "slave_listen", "reply")
    /\ mem[c].slave_message
    /\ car_msg' = [car_msg EXCEPT ![c] = Message(my_id[c], MSG_CAR_TYPE_POOLING_SLAVE)]
    /\ UNCHANGED <<body, mem, my_id, turn, motors, wait, tries, listening, silence>>

SlaveTimedOut(c) ==
    /\ Goto(c, "slave_listen", "end")
    /\ wait[c] = 0
    /\ ~mem[c].slave_message
    /\ mem' = [mem EXCEPT ![c].next_state = STATE_CAR_WAIT_FOR_REMOTE]
    /\ UNCHANGED <<body, my_id, car_msg, turn, motors, wait, tries, listening, silence>>

\* radio_send_and_ack_master_message, main.c:290-302
MasterAcked(c) ==
    /\ Goto(c, "feed_listen", "end")
    /\ mem[c].receive_ack
    /\ UNCHANGED <<body, mem, my_id, car_msg, turn, motors, wait, tries, listening, silence>>

MasterTimedOut(c) ==
    /\ Goto(c, "feed_listen", IF tries[c] < RETIRES THEN "feed" ELSE "end")
    /\ wait[c] = 0
    /\ ~mem[c].receive_ack
    /\ UNCHANGED <<body, mem, my_id, car_msg, turn, motors, wait, tries, listening, silence>>

\* STATE = NEXT_STATE, main.c:466
EndBody(c) ==
    /\ Goto(c, "end", "clear")
    /\ mem' = [mem EXCEPT ![c].state = mem[c].next_state]
    /\ UNCHANGED <<body, my_id, car_msg, turn, motors, wait, tries, listening, silence>>

\* The end of nrf_delay_ms(2000), main.c:347-349
Booted(c) ==
    /\ Goto(c, "boot", "clear")
    /\ wait[c] = 0
    /\ my_id' = [my_id EXCEPT ![c] = 0]
    /\ UNCHANGED <<body, mem, car_msg, turn, motors, wait, tries, listening, silence>>

LocalStep(c) ==
    \/ Booted(c) \/ Clear(c) \/ Listen(c) \/ Heard(c) \/ TimedOut(c)
    \/ DropState(c) \/ DropNext(c) \/ Dispatch(c)
    \/ Halt(c) \/ Await(c) \/ Adopt(c)
    \/ ReadTurn(c) \/ SetMotors(c)
    \/ SetFollow(c) \/ SlaveListen(c) \/ SlaveHeard(c) \/ SlaveTimedOut(c)
    \/ MasterAcked(c) \/ MasterTimedOut(c)
    \/ EndBody(c)
-----------------------------------------------------------------------------
(***************************************************************************)
(* Transmissions.  radio_transmit_mode, the write, and what of main can    *)
(* not be interrupted around them (the radio does not listen) are a step;  *)
(* H is the set of the other cars that hear the frame.                     *)
(***************************************************************************)
Transmitting(c) == pc[c] \in {"ack", "reply", "request", "feed"}

\* The frame of the next write and its place in the radio session, which
\* begins with esb_init in radio_transmit_mode.
SentFrame(c) ==
    CASE pc[c] \in {"ack", "reply"} -> CarFrame(car_msg[c].senderID, car_msg[c].type)
      [] pc[c] = "request" -> CarFrame(0, MSG_CAR_TYPE_REQUEST_POOLING)
      [] pc[c] = "feed"    -> CarFrame(0, MSG_CAR_TYPE_SPEED_INFO)

\* radio_send_ack, main.c:239-250, and what the body does next
SendAck(c, H) ==
    /\ pc[c] \in {"ack", "reply"}
    /\ pc' = [pc EXCEPT ![c] =
                 CASE body[c] = STATE_CAR_TRUCK_POOLING_PENDING -> "request"
                   [] body[c] = STATE_CAR_TRUCK_POOLING_MASTER  -> "feed"
                   [] pc[c] = "ack" /\ body[c] = STATE_CAR_TRUCK_POOLING_SLAVE -> "slave"
                   [] OTHER -> "end"]
    /\ listening' = [listening EXCEPT ![c] = FALSE]
    /\ tries' = [tries EXCEPT ![c] = 0]
    /\ CarsHear(H, SentFrame(c))
    /\ UNCHANGED <<body, my_id, car_msg, turn, motors, wait>>

\* One of the five writes of main.c:393-409
Requests == 5
SendRequest(c, H) ==
    /\ pc[c] = "request"
    /\ tries' = [tries EXCEPT ![c] = @ + 1]
    /\ pc' = [pc EXCEPT ![c] = IF tries'[c] < Requests THEN "request" ELSE "end"]
    /\ car_msg' = [car_msg EXCEPT ![c] = Message(0, MSG_CAR_TYPE_REQUEST_POOLING)]
    /\ CarsHear(H, SentFrame(c))
    /\ UNCHANGED <<body, my_id, turn, motors, wait, listening>>

\* One round of the loop of main.c:276-290: clear the flag, write, listen.
SendSpeed(c, H) ==
    /\ pc[c] = "feed"
    /\ pc' = [pc EXCEPT ![c] = "feed_listen"]
    /\ tries' = [tries EXCEPT ![c] = @ + 1]
    /\ wait' = [wait EXCEPT ![c] = TIMEOUT]
    /\ listening' = [listening EXCEPT ![c] = TRUE]
    /\ mem' = [d \in Cars |->
                 CASE d = c -> [mem[c] EXCEPT !.receive_ack = FALSE]
                   [] d \in H -> EventHandler(mem[d], my_id[d], SentFrame(c))
                   [] OTHER -> mem[d]]
    /\ UNCHANGED <<body, my_id, car_msg, turn, motors, silence>>

Transmit(c, H) == SendAck(c, H) \/ SendRequest(c, H) \/ SendSpeed(c, H)

CarListeners == {c \in Cars : listening[c]}

\* A frame from outside the module.
Environment(f, H) ==
    /\ CarsHear(H, f)
    /\ UNCHANGED <<pc, body, my_id, car_msg, turn, motors, wait, tries, listening>>
-----------------------------------------------------------------------------
Idle(c) ==
    \/ pc[c] = "boot" /\ wait[c] > 0
    \/ pc[c] = "listen" /\ wait[c] > 0 /\ ~mem[c].recevice_message
    \/ pc[c] = "await" /\ mem[c].next_state # STATE_CAR_SINGLE_MODE
    \/ pc[c] = "slave_listen" /\ wait[c] > 0 /\ ~mem[c].slave_message
    \/ pc[c] = "feed_listen" /\ wait[c] > 0 /\ ~mem[c].receive_ack

\* Bound of the history: more than any mode lets the motors run on.
LongSilence == (RETIRES + 1) * TIMEOUT + 1

CarsTick ==
    /\ \A c \in Cars : Idle(c)
    /\ wait' = [c \in Cars |-> IF wait[c] > 0 THEN wait[c] - 1 ELSE 0]
    /\ silence' = [c \in Cars |-> IF motors[c].run
                                  THEN IF silence[c] < LongSilence THEN silence[c] + 1 ELSE LongSilence
                                  ELSE 0]
    /\ UNCHANGED <<pc, body, mem, my_id, car_msg, turn, motors, tries, listening>>

\* Power lost and back: everything is in RAM, and the motor pins reset.
PowerCycle(c) ==
    /\ pc' = [pc EXCEPT ![c] = "boot"]
    /\ body' = [body EXCEPT ![c] = STATE_CAR_WAIT_FOR_REMOTE]
    /\ mem' = [mem EXCEPT ![c] = ColdMemory]
    /\ my_id' = [my_id EXCEPT ![c] = 0]
    /\ car_msg' = [car_msg EXCEPT ![c] = ColdMessage]
    /\ turn' = [turn EXCEPT ![c] = 0]
    /\ motors' = [motors EXCEPT ![c] = Stopped]
    /\ wait' = [wait EXCEPT ![c] = BootTime]
    /\ tries' = [tries EXCEPT ![c] = 0]
    /\ listening' = [listening EXCEPT ![c] = TRUE]
    /\ silence' = [silence EXCEPT ![c] = 0]

\* main.c:309-347: the radio listens before the car is ready.
CarInit ==
    /\ pc = [c \in Cars |-> "boot"]
    /\ body = [c \in Cars |-> STATE_CAR_WAIT_FOR_REMOTE]
    /\ mem = [c \in Cars |-> ColdMemory]
    /\ my_id = [c \in Cars |-> 0]
    /\ car_msg = [c \in Cars |-> ColdMessage]
    /\ turn = [c \in Cars |-> 0]
    /\ motors = [c \in Cars |-> Stopped]
    /\ wait = [c \in Cars |-> BootTime]
    /\ tries = [c \in Cars |-> 0]
    /\ listening = [c \in Cars |-> TRUE]
    /\ silence = [c \in Cars |-> 0]

CarNext ==
    \/ \E c \in Cars : LocalStep(c)
    \/ \E c \in Cars, H \in SUBSET CarListeners : c \notin H /\ Transmit(c, H)
    \/ \E f \in Frame, H \in SUBSET CarListeners : Environment(f, H)
    \/ CarsTick
    \/ \E c \in Cars : PowerCycle(c)

CarSpec == CarInit /\ [][CarNext]_carVars
=============================================================================
