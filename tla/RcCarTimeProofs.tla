--------------------------- MODULE RcCarTimeProofs ---------------------------
(***************************************************************************)
(* A car stops without commands: DeadMan, for any time-outs, any number of *)
(* retries and any frames around the car.  ClockInv, an invariant of its   *)
(* own, follows the ticks since the last command along the main loop.      *)
(***************************************************************************)
EXTENDS RcCarProofs

USE DEF STATE_CAR_WAIT_FOR_REMOTE, STATE_CAR_SINGLE_MODE,
        STATE_CAR_TRUCK_POOLING_PENDING, STATE_CAR_TRUCK_POOLING_SLAVE,
        STATE_CAR_TRUCK_POOLING_MASTER,
        MSG_REMOTE_TYPE_ADVERTISE_AVAILABLE, MSG_REMOTE_TYPE_SINGLE_MODE_STEERING,
        MSG_REMOTE_TYPE_TRUCK_POOLING_REQUEST, MSG_REMOTE_TYPE_TRUCK_POOLING_SLAVE,
        MSG_REMOTE_TYPE_TRUCK_POOLING_STOP, MSG_CAR_TYPE_CONNECTED_TO,
        MSG_CAR_TYPE_ACKNOWLEDGE, MSG_CAR_TYPE_REQUEST_POOLING,
        MSG_CAR_TYPE_POOLING_SLAVE, MSG_CAR_TYPE_SPEED_INFO,
        MSG_CAR_TYPE_ACKNOWLEDGE_MASTER

\* Each mode lets the motors run one TIMEOUT longer than its rounds begin with, and no
\* mode longer than a car on its way to a stop.
LEMMA Limits ==
    /\ TIMEOUT \in Nat /\ RETIRES \in Nat /\ RETIRES > 0
    /\ RETIRES * TIMEOUT \in Nat /\ TIMEOUT <= RETIRES * TIMEOUT
    /\ \A state \in CarStates :
           /\ Base(state) \in Nat /\ DeadManAt(state) \in Nat
           /\ Base(state) + TIMEOUT <= DeadManAt(state)
           /\ DeadManAt(state) <= DeadManAt(STATE_CAR_WAIT_FOR_REMOTE)
    /\ Base(STATE_CAR_SINGLE_MODE) = 0 /\ Base(STATE_CAR_TRUCK_POOLING_PENDING) = 0
    /\ Base(STATE_CAR_TRUCK_POOLING_SLAVE) = TIMEOUT
    /\ Base(STATE_CAR_WAIT_FOR_REMOTE) = TIMEOUT
    /\ Base(STATE_CAR_TRUCK_POOLING_MASTER) = RETIRES * TIMEOUT
    /\ DeadManAt(STATE_CAR_SINGLE_MODE) = DeadManAt(STATE_CAR_TRUCK_POOLING_PENDING)
<1>1. /\ TIMEOUT \in Nat /\ TIMEOUT > 0 /\ RETIRES \in Nat /\ RETIRES > 0
  BY CarAssumption
<1>2. /\ RETIRES * TIMEOUT \in Nat
      /\ (RETIRES + 1) * TIMEOUT = RETIRES * TIMEOUT + TIMEOUT
      /\ TIMEOUT <= RETIRES * TIMEOUT
  BY <1>1
<1>. DEFINE rt == RETIRES * TIMEOUT
            rt1 == (RETIRES + 1) * TIMEOUT
<1>3. /\ \A state : Base(state) =
             CASE state \in {STATE_CAR_SINGLE_MODE, STATE_CAR_TRUCK_POOLING_PENDING} -> 0
               [] state = STATE_CAR_TRUCK_POOLING_MASTER -> rt
               [] OTHER -> TIMEOUT
      /\ \A state : DeadManAt(state) =
             CASE state \in {STATE_CAR_SINGLE_MODE, STATE_CAR_TRUCK_POOLING_PENDING} -> TIMEOUT
               [] state = STATE_CAR_TRUCK_POOLING_SLAVE -> 2 * TIMEOUT
               [] OTHER -> rt1
  BY DEF Base, DeadManAt
<1>. HIDE DEF rt, rt1
<1>4. rt \in Nat /\ rt1 = rt + TIMEOUT /\ TIMEOUT <= rt
  BY <1>2 DEF rt, rt1
<1>. QED  BY <1>1, <1>3, <1>4 DEF CarStates, rt

\* A repeated message is one delay more.
LEMMA OneMore ==
    ASSUME NEW t \in Nat, NEW s \in Nat
    PROVE  /\ s <= t * TIMEOUT => s + TIMEOUT <= (t + 1) * TIMEOUT
           /\ t <= RETIRES /\ s <= t * TIMEOUT => s <= RETIRES * TIMEOUT
           /\ t * TIMEOUT \in Nat
<1>1. TIMEOUT \in Nat /\ RETIRES \in Nat
  BY CarAssumption
<1>2. (t + 1) * TIMEOUT = t * TIMEOUT + TIMEOUT /\ t * TIMEOUT \in Nat
  BY <1>1
<1>3. t <= RETIRES => t * TIMEOUT <= RETIRES * TIMEOUT
  BY <1>1
<1>. QED  BY <1>1, <1>2, <1>3

\* A car just commanded may go on from wherever it is.
LEMMA Commanded ==
    ASSUME NEW p, NEW b, NEW m, m.state \in CarStates, NEW run, NEW w \in Nat, NEW t \in Nat,
           NEW s \in Nat, TimeInv(p, b, m, run, w, t, s)
    PROVE  TimeInv(p, b, m, run, w, t, 0)
<1>1. t * TIMEOUT \in Nat /\ RETIRES * TIMEOUT \in Nat
  BY Limits, OneMore
<1>. QED  BY <1>1, Limits DEF TimeInv, Fresh

\* What the event handler does to the clocks: it sets recevice_message on a command, on
\* SPEED_INFO in pending mode or on an advertisement, and only a command moves STATE.
LEMMA HandlerClock ==
    ASSUME NEW m \in Memory, NEW id \in Ids, NEW f \in Frame, NEW n,
           n = EventHandler(m, id, f), ~(f.id = id /\ f.type \in Commands)
    PROVE  /\ n.state = m.state
           /\ n.recevice_message = m.recevice_message
              \/ m.state = STATE_CAR_WAIT_FOR_REMOTE
              \/ (m.state = STATE_CAR_TRUCK_POOLING_PENDING
                  /\ n.next_state = STATE_CAR_TRUCK_POOLING_SLAVE)
           /\ m.state = STATE_CAR_TRUCK_POOLING_PENDING
              /\ m.next_state = STATE_CAR_TRUCK_POOLING_SLAVE
              => n.next_state = STATE_CAR_TRUCK_POOLING_SLAVE
<1>0. m.state # 1
  BY DEF Memory, CarStates
<1>1. CASE f.id = id
  <2>1. f.type \notin Commands
    BY <1>1
  <2>2. n = Stored(m, f)
    BY <1>0, <1>1, <2>1 DEF EventHandler, OwnFrame, Commands
  <2>. QED  BY <2>2 DEF Stored, Memory
<1>2. CASE f.id # id
  <2>1. n = OtherFrame(m, id, f)
    BY <1>2 DEF EventHandler
  <2>2. CASE f.type = MSG_REMOTE_TYPE_ADVERTISE_AVAILABLE
             /\ m.state = STATE_CAR_WAIT_FOR_REMOTE
    <3>. DEFINE adopting == [Stored(m, f) EXCEPT !.next_state = STATE_CAR_SINGLE_MODE,
                                                 !.recevice_message = TRUE]
    <3>1. n \in {m, adopting}
      BY <2>1, <2>2 DEF OtherFrame
    <3>2. adopting.state = m.state
      BY DEF Stored, Memory
    <3>. HIDE DEF adopting
    <3>. QED  BY <2>2, <3>1, <3>2
  <2>3. CASE f.type = MSG_CAR_TYPE_SPEED_INFO /\ m.state = STATE_CAR_TRUCK_POOLING_PENDING
    <3>1. n = [m EXCEPT !.next_state = STATE_CAR_TRUCK_POOLING_SLAVE,
                        !.recevice_message = TRUE]
      BY <2>1, <2>3 DEF OtherFrame
    <3>. QED  BY <2>3, <3>1 DEF Memory
  <2>4. CASE ~(f.type = MSG_REMOTE_TYPE_ADVERTISE_AVAILABLE
               /\ m.state = STATE_CAR_WAIT_FOR_REMOTE)
             /\ ~(f.type = MSG_CAR_TYPE_SPEED_INFO
                  /\ m.state = STATE_CAR_TRUCK_POOLING_PENDING)
    <3>1. \/ n = m
          \/ n = [m EXCEPT !.receive_ack = TRUE]
          \/ m.state = STATE_CAR_SINGLE_MODE
             /\ n = [m EXCEPT !.next_state = STATE_CAR_TRUCK_POOLING_MASTER]
      BY <2>1, <2>4 DEF OtherFrame
    <3>. QED  BY <3>1 DEF Memory
  <2>. QED  BY <2>2, <2>3, <2>4
<1>. QED  BY <1>1, <1>2

\* An interrupt keeps the time, wherever it strikes.
LEMMA HandlerTimed ==
    ASSUME NEW m \in Memory, NEW id \in Ids, NEW f \in Frame, NEW p, NEW b, NEW run,
           NEW w \in Nat, NEW t \in Nat, NEW s \in Nat, TimeInv(p, b, m, run, w, t, s)
    PROVE  TimeInv(p, b, EventHandler(m, id, f), run, w, t,
                   IF f.id = id /\ f.type \in Commands THEN 0 ELSE s)
<1>. DEFINE n == EventHandler(m, id, f)
<1>1. n \in Memory
  BY HandlerType
<1>2. CASE f.id = id /\ f.type \in Commands
  <2>1. TimeInv(p, b, m, run, w, t, 0)
    BY Commanded DEF Memory
  <2>2. Effect(m, id, n)
    BY HandlerEffect
  <2>3. /\ m.state \in CarStates /\ n.state \in CarStates
        /\ Base(n.state) = Base(m.state) /\ DeadManAt(n.state) = DeadManAt(m.state)
    BY <1>1, <2>2, Limits DEF Effect, Memory
  <2>4. TimeInv(p, b, n, run, w, t, 0)
    <3>. HIDE DEF n
    <3>. QED  BY <2>1, <2>3, Limits DEF TimeInv, Fresh
  <2>. QED  BY <1>2, <2>4
<1>3. CASE ~(f.id = id /\ f.type \in Commands)
  <2>1. /\ n.state = m.state
        /\ n.recevice_message = m.recevice_message
           \/ m.state = STATE_CAR_WAIT_FOR_REMOTE
           \/ (m.state = STATE_CAR_TRUCK_POOLING_PENDING
               /\ n.next_state = STATE_CAR_TRUCK_POOLING_SLAVE)
        /\ m.state = STATE_CAR_TRUCK_POOLING_PENDING
           /\ m.next_state = STATE_CAR_TRUCK_POOLING_SLAVE
           => n.next_state = STATE_CAR_TRUCK_POOLING_SLAVE
    BY <1>3, HandlerClock
  <2>. HIDE DEF n
  <2>2. TimeInv(p, b, n, run, w, t, s)
    <3>1. Fresh(m, s) => Fresh(n, s)
      BY <2>1 DEF Fresh
    <3>2. p \in {"enter", "listen"} /\ n.recevice_message
          /\ n.state # STATE_CAR_WAIT_FOR_REMOTE => Fresh(n, s)
      <4>1. CASE n.recevice_message = m.recevice_message
        BY <2>1, <3>1, <4>1 DEF TimeInv
      <4>2. CASE m.state = STATE_CAR_WAIT_FOR_REMOTE
        BY <2>1, <4>2
      <4>3. CASE m.state = STATE_CAR_TRUCK_POOLING_PENDING
                 /\ n.next_state = STATE_CAR_TRUCK_POOLING_SLAVE
        <5>1. s <= DeadManAt(STATE_CAR_TRUCK_POOLING_PENDING)
          BY <4>3 DEF TimeInv
        <5>2. DeadManAt(STATE_CAR_TRUCK_POOLING_PENDING) = TIMEOUT
          BY DEF DeadManAt
        <5>. QED  BY <2>1, <4>3, <5>1, <5>2 DEF Fresh
      <4>. QED  BY <2>1, <4>1, <4>2, <4>3
    <3>. QED  BY <2>1, <3>1, <3>2 DEF TimeInv
  <2>. QED  BY <1>3, <2>2 DEF n
<1>. QED  BY <1>2, <1>3
-----------------------------------------------------------------------------
(***************************************************************************)
(* The main loop.                                                          *)
(***************************************************************************)

\* A step of a car leaves the clocks of the others alone.
LEMMA OthersUntimed ==
    ASSUME TypeOK, NEW c \in Cars, NEW d \in Cars, d # c, LocalStep(c)
    PROVE  wait'[d] = wait[d] /\ tries'[d] = tries[d] /\ silence'[d] = silence[d]
  BY DEF LocalStep, Booted, Clear, Listen, Heard, TimedOut, DropState, DropNext, Dispatch,
         Halt, Await, Adopt, ReadTurn, SetMotors, SetFollow, SlaveListen, SlaveHeard,
         SlaveTimedOut, MasterAcked, MasterTimedOut, EndBody, TypeOK

\* Each step of the main loop keeps its car's time.
LEMMA LocalStepTimed ==
    ASSUME TypeOK, LoopInv, ClockInv, NEW c \in Cars, LocalStep(c)
    PROVE  TimeInv(pc'[c], body'[c], mem'[c], motors'[c].run, wait'[c], tries'[c],
                   silence'[c])
<1>. DEFINE p == pc[c]
            b == body[c]
            m == mem[c]
            run == motors[c].run
            w == wait[c]
            t == tries[c]
            s == silence[c]
<1>0. /\ p \in Pcs /\ b \in CarStates /\ m \in Memory /\ run \in BOOLEAN
      /\ w \in Nat /\ t \in Nat /\ s \in Nat
  BY DEF TypeOK, Motion
<1>t. TimeInv(p, b, m, run, w, t, s)
  BY DEF ClockInv
<1>c. NextInv(p, m) /\ BodyInv(p, b, m) /\ MotorInv(p, b, motors[c], my_id[c])
  BY DEF LoopInv, Coherent
<1>l. /\ m.state \in CarStates
      /\ Base(m.state) \in Nat /\ DeadManAt(m.state) \in Nat
      /\ Base(m.state) + TIMEOUT <= DeadManAt(m.state)
      /\ DeadManAt(m.state) <= DeadManAt(STATE_CAR_WAIT_FOR_REMOTE)
      /\ DeadManAt(STATE_CAR_WAIT_FOR_REMOTE) \in Nat
  BY <1>0, Limits DEF Memory, CarStates
<1>1. CASE Booted(c)
  <2>1. /\ p = "boot" /\ pc'[c] = "clear" /\ body'[c] = b /\ mem'[c] = m
        /\ motors'[c].run = run /\ wait'[c] = w /\ tries'[c] = t /\ silence'[c] = s
    BY <1>1 DEF Booted, Goto, TypeOK
  <2>2. s = 0
    BY <1>t, <1>c, <2>1 DEF TimeInv, MotorInv, Standing
  <2>. QED  BY <1>t, <1>l, <2>1, <2>2 DEF TimeInv, InBody
<1>2. CASE Clear(c)
  <2>1. /\ p = "clear" /\ pc'[c] = "enter" /\ body'[c] = b
        /\ mem'[c] = [m EXCEPT !.recevice_message = FALSE]
        /\ motors'[c].run = run /\ wait'[c] = w /\ tries'[c] = t /\ silence'[c] = s
    BY <1>2 DEF Clear, Goto, TypeOK
  <2>2. mem'[c].state = m.state /\ ~mem'[c].recevice_message
    BY <1>0, <2>1 DEF Memory
  <2>. QED  BY <1>t, <2>1, <2>2 DEF TimeInv, InBody
<1>3. CASE Listen(c)
  <2>1. /\ p = "enter" /\ pc'[c] = "listen" /\ body'[c] = b /\ mem'[c] = m
        /\ motors'[c].run = run /\ wait'[c] = TIMEOUT /\ tries'[c] = t /\ silence'[c] = s
    BY <1>3 DEF Listen, Goto, TypeOK
  <2>. QED  BY <1>0, <1>t, <1>l, <2>1, Limits DEF TimeInv, InBody
<1>4. CASE Heard(c)
  <2>1. /\ p = "listen" /\ pc'[c] = "dispatch" /\ body'[c] = b /\ mem'[c] = m
        /\ motors'[c].run = run /\ wait'[c] = w /\ tries'[c] = t /\ silence'[c] = s
        /\ m.recevice_message
    BY <1>4 DEF Heard, Goto, TypeOK
  <2>. QED  BY <1>t, <2>1 DEF TimeInv, InBody
<1>5. CASE TimedOut(c)
  <2>1. /\ p = "listen" /\ pc'[c] = "drop" /\ body'[c] = b /\ mem'[c] = m
        /\ motors'[c].run = run /\ wait'[c] = w /\ tries'[c] = t /\ silence'[c] = s
    BY <1>5 DEF TimedOut, Goto, TypeOK
  <2>. QED  BY <1>t, <2>1 DEF TimeInv, InBody
<1>6. CASE DropState(c)
  <2>1. /\ p = "drop" /\ pc'[c] = "drop_next" /\ body'[c] = b
        /\ mem'[c] = [m EXCEPT !.state = STATE_CAR_WAIT_FOR_REMOTE]
        /\ motors'[c].run = run /\ wait'[c] = w /\ tries'[c] = t /\ silence'[c] = s
    BY <1>6 DEF DropState, Goto, TypeOK
  <2>2. mem'[c].state = STATE_CAR_WAIT_FOR_REMOTE
    BY <1>0, <2>1 DEF Memory
  <2>. QED  BY <1>0, <1>t, <1>l, <2>1, <2>2 DEF TimeInv, InBody
<1>7. CASE DropNext(c)
  <2>1. /\ p = "drop_next" /\ pc'[c] = "dispatch" /\ body'[c] = b
        /\ mem'[c] = [m EXCEPT !.next_state = m.state]
        /\ motors'[c].run = run /\ wait'[c] = w /\ tries'[c] = t /\ silence'[c] = s
    BY <1>7 DEF DropNext, Goto, TypeOK
  <2>2. mem'[c].state = m.state /\ m.state = STATE_CAR_WAIT_FOR_REMOTE
    BY <1>0, <1>c, <2>1 DEF Memory, NextInv
  <2>. QED  BY <1>t, <2>1, <2>2 DEF TimeInv, InBody
<1>8. CASE Dispatch(c)
  <2>1. /\ p = "dispatch" /\ body'[c] = m.state /\ mem'[c] = m
        /\ pc'[c] = CASE m.state = STATE_CAR_WAIT_FOR_REMOTE      -> "halt"
                      [] m.state = STATE_CAR_TRUCK_POOLING_SLAVE  -> "follow"
                      [] OTHER                                    -> "steer"
        /\ motors'[c].run = run /\ wait'[c] = w /\ tries'[c] = t /\ silence'[c] = s
    BY <1>8 DEF Dispatch, TypeOK
  <2>. QED  BY <1>t, <2>1 DEF TimeInv, Fresh, InBody
<1>9. CASE Halt(c)
  <2>1. /\ p = "halt" /\ pc'[c] = "await" /\ body'[c] = b /\ mem'[c] = m
        /\ wait'[c] = w /\ tries'[c] = t /\ silence'[c] = 0
    BY <1>9 DEF Halt, Goto, TypeOK
  <2>. QED  BY <1>l, <2>1 DEF TimeInv, Fresh, InBody
<1>10. CASE Await(c) \/ Adopt(c)
  <2>1. /\ p \in {"await", "adopt"} /\ pc'[c] \in {"adopt", "ack"}
        /\ body'[c] = b /\ mem'[c] = m
        /\ motors'[c].run = run /\ wait'[c] = w /\ tries'[c] = t /\ silence'[c] = s
    BY <1>10 DEF Await, Adopt, Goto, TypeOK
  <2>2. s = 0
    BY <1>t, <1>c, <2>1 DEF TimeInv, MotorInv, Standing
  <2>. QED  BY <1>t, <1>l, <2>1, <2>2 DEF TimeInv, Fresh, InBody
<1>11. CASE ReadTurn(c)
  <2>1. /\ p = "steer" /\ pc'[c] = "steer_x" /\ body'[c] = b /\ mem'[c] = m
        /\ motors'[c].run = run /\ wait'[c] = w /\ tries'[c] = t /\ silence'[c] = s
    BY <1>11 DEF ReadTurn, Goto, TypeOK
  <2>. QED  BY <1>t, <2>1 DEF TimeInv, InBody
<1>12. CASE SetMotors(c)
  <2>1. /\ p = "steer_x" /\ pc'[c] = "ack" /\ body'[c] = b /\ mem'[c] = m
        /\ motors'[c].run = TRUE /\ wait'[c] = w /\ tries'[c] = t /\ silence'[c] = s
    BY <1>12 DEF SetMotors, Goto, TypeOK
  <2>. QED  BY <1>t, <2>1 DEF TimeInv, InBody
<1>13. CASE SetFollow(c)
  <2>1. /\ p = "follow" /\ pc'[c] = "ack" /\ body'[c] = b /\ mem'[c] = m
        /\ motors'[c].run = TRUE /\ wait'[c] = w /\ tries'[c] = t /\ silence'[c] = s
    BY <1>13 DEF SetFollow, Goto, TypeOK
  <2>. QED  BY <1>t, <2>1 DEF TimeInv, Fresh, InBody
<1>14. CASE SlaveListen(c)
  <2>1. /\ p = "slave" /\ pc'[c] = "slave_listen" /\ body'[c] = b
        /\ mem'[c] = [m EXCEPT !.slave_message = FALSE]
        /\ motors'[c].run = run /\ wait'[c] = TIMEOUT /\ tries'[c] = t /\ silence'[c] = s
    BY <1>14 DEF SlaveListen, Goto, TypeOK
  <2>2. mem'[c].state = m.state
    BY <1>0, <2>1 DEF Memory
  <2>. QED  BY <1>0, <1>t, <2>1, <2>2, Limits DEF TimeInv, Fresh, InBody
<1>15. CASE SlaveHeard(c)
  <2>1. /\ p = "slave_listen" /\ pc'[c] = "reply" /\ body'[c] = b /\ mem'[c] = m
        /\ motors'[c].run = run /\ wait'[c] = w /\ tries'[c] = t /\ silence'[c] = s
    BY <1>15 DEF SlaveHeard, Goto, TypeOK
  <2>. QED  BY <1>0, <1>t, <2>1, Limits DEF TimeInv, InBody
<1>16. CASE SlaveTimedOut(c)
  <2>1. /\ p = "slave_listen" /\ pc'[c] = "end" /\ body'[c] = b
        /\ mem'[c] = [m EXCEPT !.next_state = STATE_CAR_WAIT_FOR_REMOTE]
        /\ motors'[c].run = run /\ wait'[c] = w /\ tries'[c] = t /\ silence'[c] = s
    BY <1>16 DEF SlaveTimedOut, Goto, TypeOK
  <2>2. mem'[c].state = m.state /\ b = STATE_CAR_TRUCK_POOLING_SLAVE
    BY <1>0, <1>c, <2>1 DEF Memory, BodyInv
  <2>. QED  BY <1>0, <1>t, <2>1, <2>2, Limits DEF TimeInv, InBody
<1>17. CASE MasterAcked(c) \/ MasterTimedOut(c)
  <2>1. /\ p = "feed_listen" /\ body'[c] = b /\ mem'[c] = m
        /\ pc'[c] = "end" \/ (pc'[c] = "feed" /\ t < RETIRES)
        /\ motors'[c].run = run /\ wait'[c] = w /\ tries'[c] = t /\ silence'[c] = s
    BY <1>17 DEF MasterAcked, MasterTimedOut, Goto, TypeOK
  <2>2. b = STATE_CAR_TRUCK_POOLING_MASTER
    BY <1>c, <2>1 DEF BodyInv
  <2>3. s <= t * TIMEOUT /\ t <= RETIRES
    BY <1>0, <1>t, <2>1, OneMore DEF TimeInv
  <2>4. s <= RETIRES * TIMEOUT
    BY <1>0, <2>3, OneMore
  <2>. QED  BY <1>t, <2>1, <2>2, <2>3, <2>4 DEF TimeInv, InBody
<1>18. CASE EndBody(c)
  <2>1. /\ p = "end" /\ pc'[c] = "clear" /\ body'[c] = b
        /\ mem'[c] = [m EXCEPT !.state = m.next_state]
        /\ motors'[c].run = run /\ wait'[c] = w /\ tries'[c] = t /\ silence'[c] = s
    BY <1>18 DEF EndBody, Goto, TypeOK
  <2>2. mem'[c].state = m.next_state /\ m.next_state \in CarStates
    BY <1>0, <2>1, EndsInAState DEF Memory
  <2>3. s <= Base(m.next_state)
    <3>1. CASE b = STATE_CAR_WAIT_FOR_REMOTE
      <4>1. s = 0
        BY <1>t, <1>c, <2>1, <3>1 DEF TimeInv, MotorInv, Standing
      <4>. QED  BY <2>2, <4>1, Limits
    <3>2. CASE b \in {STATE_CAR_SINGLE_MODE, STATE_CAR_TRUCK_POOLING_PENDING}
      <4>1. Fresh(m, s)
        BY <1>t, <2>1, <3>2 DEF TimeInv, InBody
      <4>. QED  BY <2>2, <4>1, Limits DEF Fresh
    <3>3. CASE b = STATE_CAR_TRUCK_POOLING_SLAVE
      <4>1. m.next_state \in {STATE_CAR_TRUCK_POOLING_SLAVE, STATE_CAR_WAIT_FOR_REMOTE}
        BY <1>c, <2>1, <3>3 DEF BodyInv, NextInv, InBody
      <4>2. s <= TIMEOUT
        BY <1>t, <2>1, <3>3 DEF TimeInv
      <4>. QED  BY <4>1, <4>2, Limits
    <3>4. CASE b = STATE_CAR_TRUCK_POOLING_MASTER
      <4>1. m.next_state = STATE_CAR_TRUCK_POOLING_MASTER
        BY <1>c, <2>1, <3>4 DEF BodyInv, NextInv, InBody
      <4>2. s <= RETIRES * TIMEOUT
        BY <1>t, <2>1, <3>4 DEF TimeInv
      <4>. QED  BY <4>1, <4>2, Limits
    <3>. QED  BY <1>0, <3>1, <3>2, <3>3, <3>4 DEF CarStates
  <2>4. s <= DeadManAt(m.next_state)
    BY <1>0, <2>2, <2>3, Limits
  <2>. QED  BY <1>t, <2>1, <2>2, <2>3, <2>4 DEF TimeInv, InBody
<1>. QED
  BY <1>1, <1>2, <1>3, <1>4, <1>5, <1>6, <1>7, <1>8, <1>9, <1>10, <1>11, <1>12, <1>13,
     <1>14, <1>15, <1>16, <1>17, <1>18 DEF LocalStep

\* A frame that any cars hear keeps the time of all.
LEMMA HearTimed ==
    ASSUME TypeOK, ClockInv, NEW H \in SUBSET Cars, NEW f \in Frame, CarsHear(H, f),
           NEW c \in Cars
    PROVE  TimeInv(pc[c], body[c], mem'[c], motors[c].run, wait[c], tries[c], silence'[c])
<1>1. /\ TimeInv(pc[c], body[c], mem[c], motors[c].run, wait[c], tries[c], silence[c])
      /\ mem[c] \in Memory /\ my_id[c] \in Ids
      /\ wait[c] \in Nat /\ tries[c] \in Nat /\ silence[c] \in Nat
  BY DEF ClockInv, TypeOK
<1>2. CASE c \in H
  <2>1. /\ mem'[c] = EventHandler(mem[c], my_id[c], f)
        /\ silence'[c] = IF f.id = my_id[c] /\ f.type \in Commands THEN 0 ELSE silence[c]
    BY <1>2 DEF CarsHear
  <2>. QED  BY <1>1, <2>1, HandlerTimed
<1>3. CASE c \notin H
  BY <1>1, <1>3 DEF CarsHear
<1>. QED  BY <1>2, <1>3

\* A transmission keeps the time of the sender and of all that hear it.
LEMMA TransmitTimed ==
    ASSUME TypeOK, LoopInv, ClockInv, NEW c \in Cars, NEW H \in SUBSET Cars, c \notin H,
           Transmit(c, H)
    PROVE  ClockInv'
<1>. DEFINE b == body[c]
            m == mem[c]
            run == motors[c].run
            w == wait[c]
            t == tries[c]
            s == silence[c]
<1>0. /\ b \in CarStates /\ m \in Memory /\ w \in Nat /\ t \in Nat /\ s \in Nat
      /\ TimeInv(pc[c], b, m, run, w, t, s)
      /\ BodyInv(pc[c], b, m)
      /\ SentFrame(c) \in Frame
  BY SentFrameType
     DEF TypeOK, ClockInv, LoopInv, Coherent, Transmit, SendAck, SendRequest, SendSpeed,
         Transmitting
<1>1. ASSUME NEW d \in Cars, d # c
      PROVE  TimeInv(pc'[d], body'[d], mem'[d], motors'[d].run, wait'[d], tries'[d],
                     silence'[d])
  <2>1. /\ pc'[d] = pc[d] /\ body'[d] = body[d] /\ motors'[d] = motors[d]
        /\ wait'[d] = wait[d] /\ tries'[d] = tries[d]
    BY <1>1 DEF Transmit, SendAck, SendRequest, SendSpeed, TypeOK
  <2>2. CASE SendAck(c, H) \/ SendRequest(c, H)
    BY <1>0, <2>1, <2>2, HearTimed DEF SendAck, SendRequest
  <2>3. CASE SendSpeed(c, H)
    <3>1. /\ TimeInv(pc[d], body[d], mem[d], motors[d].run, wait[d], tries[d], silence[d])
          /\ mem[d] \in Memory /\ my_id[d] \in Ids
          /\ wait[d] \in Nat /\ tries[d] \in Nat /\ silence[d] \in Nat
      BY DEF ClockInv, TypeOK
    <3>2. SentFrame(c).type \notin Commands
      BY <2>3 DEF SendSpeed, SentFrame, CarFrame, Commands
    <3>3. /\ mem'[d] = mem[d] \/ mem'[d] = EventHandler(mem[d], my_id[d], SentFrame(c))
          /\ silence'[d] = silence[d]
      BY <1>1, <2>3 DEF SendSpeed
    <3>4. TimeInv(pc[d], body[d], EventHandler(mem[d], my_id[d], SentFrame(c)),
                  motors[d].run, wait[d], tries[d], silence[d])
      BY <1>0, <3>1, <3>2, HandlerTimed
    <3>. QED  BY <2>1, <3>1, <3>3, <3>4
  <2>. QED  BY <2>2, <2>3 DEF Transmit
<1>2. TimeInv(pc'[c], body'[c], mem'[c], motors'[c].run, wait'[c], tries'[c], silence'[c])
  <2>1. CASE SendAck(c, H)
    <3>1. /\ pc[c] \in {"ack", "reply"}
          /\ pc'[c] = CASE b = STATE_CAR_TRUCK_POOLING_PENDING -> "request"
                        [] b = STATE_CAR_TRUCK_POOLING_MASTER  -> "feed"
                        [] pc[c] = "ack" /\ b = STATE_CAR_TRUCK_POOLING_SLAVE -> "slave"
                        [] OTHER -> "end"
          /\ body'[c] = b /\ mem'[c] = m /\ motors'[c].run = run
          /\ wait'[c] = w /\ tries'[c] = 0 /\ silence'[c] = s
      BY <2>1 DEF SendAck, CarsHear, TypeOK
    <3>2. pc[c] = "reply" => b = STATE_CAR_TRUCK_POOLING_SLAVE
      BY <1>0 DEF BodyInv
    <3>3. 0 <= 0 * TIMEOUT
      BY Limits
    <3>. QED  BY <1>0, <3>1, <3>2, <3>3, Limits DEF TimeInv, InBody
  <2>2. CASE SendRequest(c, H)
    <3>1. /\ pc[c] = "request" /\ pc'[c] \in {"request", "end"}
          /\ body'[c] = b /\ mem'[c] = m /\ motors'[c].run = run
          /\ wait'[c] = w /\ silence'[c] = s
      BY <2>2 DEF SendRequest, CarsHear, TypeOK
    <3>2. b = STATE_CAR_TRUCK_POOLING_PENDING
      BY <1>0, <3>1 DEF BodyInv
    <3>. QED  BY <1>0, <3>1, <3>2 DEF TimeInv, InBody
  <2>3. CASE SendSpeed(c, H)
    <3>1. /\ pc[c] = "feed" /\ pc'[c] = "feed_listen"
          /\ body'[c] = b /\ mem'[c] = [m EXCEPT !.receive_ack = FALSE]
          /\ motors'[c].run = run
          /\ wait'[c] = TIMEOUT /\ tries'[c] = t + 1 /\ silence'[c] = s
      BY <2>3 DEF SendSpeed, TypeOK
    <3>2. mem'[c].state = m.state /\ b = STATE_CAR_TRUCK_POOLING_MASTER
      BY <1>0, <3>1 DEF Memory, BodyInv
    <3>3. t + 1 <= RETIRES /\ s + TIMEOUT <= (t + 1) * TIMEOUT
      <4>1. t < RETIRES /\ s <= t * TIMEOUT
        BY <1>0, <3>1 DEF TimeInv
      <4>. QED  BY <1>0, <4>1, Limits, OneMore
    <3>. QED  BY <1>0, <3>1, <3>2, <3>3 DEF TimeInv, InBody
  <2>. QED  BY <2>1, <2>2, <2>3 DEF Transmit
<1>. QED  BY <1>1, <1>2 DEF ClockInv

\* A tick takes from every delay what it adds to the silence.
LEMMA TickTimed ==
    ASSUME TypeOK, LoopInv, ClockInv, CarsTick
    PROVE  ClockInv'
<1>. SUFFICES ASSUME NEW c \in Cars
              PROVE  TimeInv(pc[c], body[c], mem[c], motors[c].run, wait'[c], tries[c],
                             silence'[c])
  BY DEF CarsTick, ClockInv
<1>. DEFINE w == wait[c]
            t == tries[c]
            s == silence[c]
<1>0. /\ w \in Nat /\ t \in Nat /\ s \in Nat /\ mem[c].state \in CarStates
      /\ body[c] \in CarStates /\ motors[c].run \in BOOLEAN
      /\ TimeInv(pc[c], body[c], mem[c], motors[c].run, w, t, s)
      /\ MotorInv(pc[c], body[c], motors[c], my_id[c])
      /\ BodyInv(pc[c], body[c], mem[c])
  BY DEF TypeOK, Memory, Motion, ClockInv, LoopInv, Coherent
<1>1. Idle(c)
  BY DEF CarsTick
<1>2. /\ wait'[c] = IF w > 0 THEN w - 1 ELSE 0
      /\ ~motors[c].run => silence'[c] = 0
      /\ motors[c].run => silence'[c] <= s + 1
      /\ silence'[c] \in Nat
  <2>1. LongSilence \in Nat
    BY Limits DEF LongSilence
  <2>2. silence'[c] = IF motors[c].run
                      THEN IF s < LongSilence THEN s + 1 ELSE LongSilence
                      ELSE 0
    BY DEF CarsTick
  <2>. QED  BY <1>0, <2>1, <2>2 DEF CarsTick
<1>3. CASE ~motors[c].run
  <2>1. TimeInv(pc[c], body[c], mem[c], FALSE, w, t, 0)
    BY <1>0, <1>3, Commanded
  <2>2. wait'[c] \in Nat /\ wait'[c] <= w
    BY <1>0, <1>2
  <2>3. TimeInv(pc[c], body[c], mem[c], FALSE, wait'[c], t, 0)
    BY <1>0, <2>1, <2>2, Limits, OneMore DEF TimeInv, Fresh
  <2>. QED  BY <1>0, <1>2, <1>3, <2>3
<1>4. CASE motors[c].run
  <2>1. pc[c] \notin {"boot", "await"}
    BY <1>0, <1>4 DEF MotorInv, Standing
  <2>2. /\ pc[c] \in {"listen", "slave_listen", "feed_listen"}
        /\ wait'[c] = w - 1 /\ w > 0 /\ silence'[c] <= s + 1 /\ silence'[c] \in Nat
        /\ pc[c] = "listen" => ~mem[c].recevice_message
    BY <1>1, <1>2, <1>4, <2>1 DEF Idle
  <2>3. silence'[c] + wait'[c] <= s + w
    BY <1>0, <2>2
  <2>4. /\ Base(mem[c].state) \in Nat /\ DeadManAt(mem[c].state) \in Nat
        /\ Base(mem[c].state) + TIMEOUT <= DeadManAt(mem[c].state)
    BY <1>0, Limits
  <2>5. CASE pc[c] = "listen"
    <3>1. s + w <= Base(mem[c].state) + TIMEOUT
      BY <1>0, <2>5 DEF TimeInv
    <3>2. /\ silence'[c] + wait'[c] <= Base(mem[c].state) + TIMEOUT
          /\ silence'[c] <= DeadManAt(mem[c].state)
      BY <1>0, <2>2, <2>3, <2>4, <3>1, Limits
    <3>. QED  BY <1>4, <2>2, <2>5, <3>2 DEF TimeInv, InBody
  <2>6. CASE pc[c] = "slave_listen"
    <3>1. s + w <= TIMEOUT /\ body[c] = STATE_CAR_TRUCK_POOLING_SLAVE
      BY <1>0, <2>6 DEF TimeInv, BodyInv
    <3>2. /\ silence'[c] + wait'[c] <= TIMEOUT
          /\ silence'[c] <= DeadManAt(mem[c].state)
      BY <1>0, <2>2, <2>3, <2>4, <3>1, Limits
    <3>. QED  BY <1>4, <2>6, <3>1, <3>2 DEF TimeInv, InBody
  <2>7. CASE pc[c] = "feed_listen"
    <3>1. /\ t <= RETIRES /\ s + w <= t * TIMEOUT
          /\ body[c] = STATE_CAR_TRUCK_POOLING_MASTER
          /\ mem[c].state = STATE_CAR_TRUCK_POOLING_MASTER
      BY <1>0, <2>7 DEF TimeInv, BodyInv, InBody
    <3>2. silence'[c] + wait'[c] <= t * TIMEOUT /\ t * TIMEOUT \in Nat
      BY <1>0, <2>2, <2>3, <3>1, OneMore
    <3>3. silence'[c] + wait'[c] \in Nat
      BY <1>0, <2>2
    <3>4. silence'[c] <= DeadManAt(mem[c].state)
      <4>1. silence'[c] + wait'[c] <= RETIRES * TIMEOUT
        BY <1>0, <3>1, <3>2, <3>3, OneMore
      <4>. QED  BY <1>0, <2>2, <2>4, <3>1, <4>1, Limits
    <3>. QED  BY <1>4, <2>7, <3>1, <3>2, <3>4 DEF TimeInv, InBody
  <2>. QED  BY <2>2, <2>5, <2>6, <2>7
<1>. QED  BY <1>0, <1>3, <1>4

\* A car that boots has been silent for no time.
LEMMA ColdTimed ==
    ASSUME NEW w \in Nat
    PROVE  TimeInv("boot", STATE_CAR_WAIT_FOR_REMOTE, ColdMemory, FALSE, w, 0, 0)
<1>1. ColdMemory.state = STATE_CAR_WAIT_FOR_REMOTE
  BY DEF ColdMemory
<1>2. STATE_CAR_WAIT_FOR_REMOTE \in CarStates
  BY DEF CarStates
<1>. QED  BY <1>1, <1>2, Limits DEF TimeInv, Fresh, InBody

\* ClockInv is inductive.
LEMMA StepTimed ==
    ASSUME TypeOK, LoopInv, ClockInv, [CarNext]_carVars
    PROVE  ClockInv'
<1>1. ASSUME NEW c \in Cars, LocalStep(c)
      PROVE  ClockInv'
  <2>1. ASSUME NEW d \in Cars
        PROVE  TimeInv(pc'[d], body'[d], mem'[d], motors'[d].run, wait'[d], tries'[d],
                       silence'[d])
    <3>1. CASE d = c
      BY <1>1, <3>1, LocalStepTimed
    <3>2. CASE d # c
      BY <1>1, <3>2, OthersUndisturbed, OthersUntimed DEF ClockInv
    <3>. QED  BY <3>1, <3>2
  <2>. QED  BY <2>1 DEF ClockInv
<1>2. ASSUME NEW c \in Cars, NEW H \in SUBSET CarListeners, c \notin H, Transmit(c, H)
      PROVE  ClockInv'
  <2>1. H \in SUBSET Cars
    BY DEF CarListeners
  <2>. QED  BY <1>2, <2>1, TransmitTimed
<1>3. ASSUME NEW f \in Frame, NEW H \in SUBSET CarListeners, Environment(f, H)
      PROVE  ClockInv'
  <2>1. H \in SUBSET Cars
    BY DEF CarListeners
  <2>. QED  BY <1>3, <2>1, HearTimed DEF Environment, ClockInv
<1>4. ASSUME NEW c \in Cars, PowerCycle(c)
      PROVE  ClockInv'
  <2>1. ASSUME NEW d \in Cars
        PROVE  TimeInv(pc'[d], body'[d], mem'[d], motors'[d].run, wait'[d], tries'[d],
                       silence'[d])
    <3>1. CASE d = c
      BY <1>4, <3>1, ColdTimed, CarAssumption DEF PowerCycle, TypeOK, Stopped
    <3>2. CASE d # c
      BY <1>4, <3>2 DEF PowerCycle, TypeOK, ClockInv
    <3>. QED  BY <3>1, <3>2
  <2>. QED  BY <2>1 DEF ClockInv
<1>5. CASE UNCHANGED carVars
  BY <1>5 DEF carVars, ClockInv
<1>. QED  BY <1>1, <1>2, <1>3, <1>4, <1>5, TickTimed DEF CarNext

\* A car runs on without a command of its remote for one TIMEOUT in single and pending
\* mode, two in slave mode and RETIRES + 1 in master mode, whatever frames surround it and
\* whenever they interrupt it (main.c:252-303, 433-451).
THEOREM StopsWithoutCommand == CarSpec => []DeadMan
<1>1. CarInit => ClockInv
  <2>. SUFFICES ASSUME CarInit, NEW c \in Cars
                PROVE  TimeInv(pc[c], body[c], mem[c], motors[c].run, wait[c], tries[c],
                               silence[c])
    BY DEF ClockInv
  <2>. QED  BY ColdTimed, CarAssumption DEF CarInit, Stopped
<1>2. TypeOK /\ LoopInv /\ ClockInv /\ [CarNext]_carVars => ClockInv'
  BY StepTimed
<1>3. ClockInv => DeadMan
  BY DEF ClockInv, TimeInv, DeadMan
<1>. QED  BY <1>1, <1>2, <1>3, Correctness, PTL DEF CarSpec
=============================================================================
