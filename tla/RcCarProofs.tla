----------------------------- MODULE RcCarProofs -----------------------------
(***************************************************************************)
(* Theorems about the car firmware, for any number of cars, any frames     *)
(* around them and any values of the time-outs.                            *)
(***************************************************************************)
EXTENDS RcCarProps, TLAPS

USE DEF STATE_CAR_WAIT_FOR_REMOTE, STATE_CAR_SINGLE_MODE,
        STATE_CAR_TRUCK_POOLING_PENDING, STATE_CAR_TRUCK_POOLING_SLAVE,
        STATE_CAR_TRUCK_POOLING_MASTER,
        MSG_REMOTE_TYPE_ADVERTISE_AVAILABLE, MSG_REMOTE_TYPE_SINGLE_MODE_STEERING,
        MSG_REMOTE_TYPE_TRUCK_POOLING_REQUEST, MSG_REMOTE_TYPE_TRUCK_POOLING_SLAVE,
        MSG_REMOTE_TYPE_TRUCK_POOLING_STOP, MSG_CAR_TYPE_CONNECTED_TO,
        MSG_CAR_TYPE_ACKNOWLEDGE, MSG_CAR_TYPE_REQUEST_POOLING,
        MSG_CAR_TYPE_POOLING_SLAVE, MSG_CAR_TYPE_SPEED_INFO,
        MSG_CAR_TYPE_ACKNOWLEDGE_MASTER
-----------------------------------------------------------------------------
(***************************************************************************)
(* The event handler.                                                      *)
(***************************************************************************)

\* What the handler may write into the shared variables keeps their types.
LEMMA MemoryUpdates ==
    ASSUME NEW m \in Memory
    PROVE  /\ \A b \in BOOLEAN : /\ [m EXCEPT !.recevice_message = b] \in Memory
                               /\ [m EXCEPT !.slave_message = b] \in Memory
                               /\ [m EXCEPT !.receive_ack = b] \in Memory
           /\ \A s \in CarStates : /\ [m EXCEPT !.state = s] \in Memory
                                 /\ [m EXCEPT !.next_state = s] \in Memory
           /\ \A f \in Frame : Stored(m, f) \in Memory
<1>1. \A b \in BOOLEAN : /\ [m EXCEPT !.recevice_message = b] \in Memory
                       /\ [m EXCEPT !.slave_message = b] \in Memory
                       /\ [m EXCEPT !.receive_ack = b] \in Memory
  BY DEF Memory
<1>2. \A s \in CarStates : /\ [m EXCEPT !.state = s] \in Memory
                         /\ [m EXCEPT !.next_state = s] \in Memory
  BY DEF Memory
<1>3. \A f \in Frame : Stored(m, f) \in Memory
  BY DEF Memory, Stored, Frame, Axis
<1>. QED  BY <1>1, <1>2, <1>3

\* The event handler (main.c:76-164) leaves every shared variable in its type.
LEMMA HandlerType ==
    ASSUME NEW m \in Memory, NEW id \in Ids, NEW f \in Frame
    PROVE  EventHandler(m, id, f) \in Memory
<1>1. /\ STATE_CAR_SINGLE_MODE \in CarStates
      /\ STATE_CAR_TRUCK_POOLING_PENDING \in CarStates
      /\ STATE_CAR_TRUCK_POOLING_SLAVE \in CarStates
      /\ STATE_CAR_TRUCK_POOLING_MASTER \in CarStates
  BY DEF CarStates
<1>2. OwnFrame(m, f) \in Memory
  <2>. DEFINE s == Stored(m, f)
  <2>1. s \in Memory
    BY MemoryUpdates
  <2>2. /\ [s EXCEPT !.recevice_message = TRUE] \in Memory
        /\ [s EXCEPT !.slave_message = TRUE] \in Memory
    BY <2>1, MemoryUpdates
  <2>3. [s EXCEPT !.state = STATE_CAR_TRUCK_POOLING_PENDING,
                  !.next_state = STATE_CAR_TRUCK_POOLING_PENDING,
                  !.recevice_message = TRUE] \in Memory
    BY <1>1, <2>1 DEF Memory
  <2>4. [s EXCEPT !.next_state = STATE_CAR_SINGLE_MODE,
                  !.recevice_message = TRUE] \in Memory
    BY <1>1, <2>1 DEF Memory
  <2>. QED  BY <2>1, <2>2, <2>3, <2>4 DEF OwnFrame
<1>3. OtherFrame(m, id, f) \in Memory
  <2>. DEFINE s == Stored(m, f)
  <2>1. [s EXCEPT !.next_state = STATE_CAR_SINGLE_MODE,
                  !.recevice_message = TRUE] \in Memory
    <3>1. s \in Memory
      BY MemoryUpdates
    <3>. HIDE DEF s
    <3>. QED  BY <1>1, <3>1 DEF Memory
  <2>2. [m EXCEPT !.next_state = STATE_CAR_TRUCK_POOLING_SLAVE,
                  !.recevice_message = TRUE] \in Memory
    BY <1>1 DEF Memory
  <2>3. /\ [m EXCEPT !.next_state = STATE_CAR_TRUCK_POOLING_MASTER] \in Memory
        /\ [m EXCEPT !.receive_ack = TRUE] \in Memory
    BY <1>1, MemoryUpdates
  <2>. QED  BY <2>1, <2>2, <2>3 DEF OtherFrame
<1>. QED  BY <1>2, <1>3 DEF EventHandler

\* The values a reset leaves (main.c:56-71, 347) are in their types.
LEMMA ColdTypes ==
    /\ ColdMemory \in Memory
    /\ Stopped \in Motion
    /\ ColdMessage \in [senderID : Ids, type : CarTypes]
    /\ 0 \in Axis /\ 0 \in Ids /\ STATE_CAR_WAIT_FOR_REMOTE \in CarStates
<1>1. 0 \in Axis /\ 0 \in Ids /\ STATE_CAR_WAIT_FOR_REMOTE \in CarStates
  BY IdsAssumption, StickAssumption DEF Axis, CarStates
<1>2. ColdMemory \in Memory
  BY <1>1 DEF ColdMemory, Memory
<1>3. Stopped \in Motion
  BY <1>1 DEF Stopped, Motion
<1>4. ColdMessage \in [senderID : Ids, type : CarTypes]
  BY <1>1 DEF ColdMessage, CarTypes
<1>. QED  BY <1>1, <1>2, <1>3, <1>4

\* A set of cars that handle a frame keep their types (main.c:89-161).
LEMMA HearType ==
    ASSUME TypeOK, NEW H \in SUBSET Cars, NEW f \in Frame, CarsHear(H, f)
    PROVE  mem' \in [Cars -> Memory] /\ silence' \in [Cars -> Nat]
<1>1. \A c \in Cars : EventHandler(mem[c], my_id[c], f) \in Memory
  BY HandlerType DEF TypeOK
<1>. QED  BY <1>1 DEF CarsHear, TypeOK

\* What a car transmits is a frame (rc_utilities.c:73-76, 131-133).
LEMMA SentFrameType ==
    ASSUME TypeOK, NEW c \in Cars, Transmitting(c)
    PROVE  SentFrame(c) \in Frame
  BY IdsAssumption DEF SentFrame, CarFrame, Frame, TypeOK, CarTypes, Transmitting

-----------------------------------------------------------------------------
(***************************************************************************)
(* Type correctness.                                                       *)
(***************************************************************************)

\* A body ends with NEXT_STATE set: main.c:466 never copies the 0 of line 56.
LEMMA EndsInAState ==
    ASSUME TypeOK, LoopInv, NEW c \in Cars, pc[c] = "end"
    PROVE  mem[c].next_state \in CarStates
<1>1. /\ NextInv(pc[c], mem[c])
      /\ BodyInv(pc[c], body[c], mem[c])
      /\ mem[c] \in Memory
  BY DEF LoopInv, Coherent, TypeOK
<1>. QED  BY <1>1 DEF NextInv, BodyInv, InBody, Memory, CarStates

\* Each step of the main loop keeps the types.
LEMMA LocalStepType ==
    ASSUME TypeOK, LoopInv, NEW c \in Cars, LocalStep(c)
    PROVE  TypeOK'
<1>0. mem[c] \in Memory /\ my_id[c] \in Ids /\ motors[c] \in Motion
  BY DEF TypeOK
<1>1. CASE Booted(c)
  BY <1>1, IdsAssumption DEF Booted, Goto, TypeOK, Pcs
<1>2. CASE Clear(c)
  <2>1. mem' = [mem EXCEPT ![c] = [mem[c] EXCEPT !.recevice_message = FALSE]]
    BY <1>2 DEF Clear
  <2>2. mem' \in [Cars -> Memory]
    BY <1>0, <2>1, MemoryUpdates DEF TypeOK
  <2>. QED  BY <1>2, <2>2 DEF Clear, Goto, TypeOK, Pcs
<1>3. CASE Listen(c)
  BY <1>3, CarAssumption DEF Listen, Goto, TypeOK, Pcs
<1>4. CASE Heard(c)
  BY <1>4 DEF Heard, Goto, TypeOK, Pcs
<1>5. CASE TimedOut(c)
  BY <1>5 DEF TimedOut, Goto, TypeOK, Pcs
<1>6. CASE DropState(c)
  <2>1. mem' = [mem EXCEPT ![c] = [mem[c] EXCEPT !.state = STATE_CAR_WAIT_FOR_REMOTE]]
    BY <1>6 DEF DropState
  <2>2. STATE_CAR_WAIT_FOR_REMOTE \in CarStates
    BY DEF CarStates
  <2>3. mem' \in [Cars -> Memory]
    BY <1>0, <2>1, <2>2, MemoryUpdates DEF TypeOK
  <2>. QED  BY <1>6, <2>3 DEF DropState, Goto, TypeOK, Pcs
<1>7. CASE DropNext(c)
  <2>1. mem' = [mem EXCEPT ![c] = [mem[c] EXCEPT !.next_state = mem[c].state]]
    BY <1>7 DEF DropNext
  <2>2. mem[c].state \in CarStates
    BY <1>0 DEF Memory
  <2>3. mem' \in [Cars -> Memory]
    BY <1>0, <2>1, <2>2, MemoryUpdates DEF TypeOK
  <2>. QED  BY <1>7, <2>3 DEF DropNext, Goto, TypeOK, Pcs
<1>8. CASE Dispatch(c)
  <2>1. mem[c].state \in CarStates
    BY <1>0 DEF Memory
  <2>. QED  BY <1>8, <2>1 DEF Dispatch, TypeOK, Pcs
<1>9. CASE Halt(c)
  <2>1. Stopped \in Motion
    BY IdsAssumption, StickAssumption DEF Stopped, Motion, Axis
  <2>. QED  BY <1>9, <2>1 DEF Halt, Goto, TypeOK, Pcs
<1>10. CASE Await(c)
  BY <1>10 DEF Await, Goto, TypeOK, Pcs
<1>11. CASE Adopt(c)
  <2>1. mem[c].remote_msg.senderID \in Ids
    BY <1>0 DEF Memory
  <2>2. my_id' \in [Cars -> Ids]
    BY <1>11, <2>1 DEF Adopt, TypeOK
  <2>3. car_msg' \in [Cars -> [senderID : Ids, type : CarTypes]]
    BY <1>11, <2>2 DEF Adopt, Message, TypeOK, CarTypes
  <2>. QED  BY <1>11, <2>2, <2>3 DEF Adopt, Goto, TypeOK, Pcs
<1>12. CASE ReadTurn(c)
  <2>1. mem[c].remote_msg.y \in Axis
    BY <1>0 DEF Memory
  <2>. QED  BY <1>12, <2>1 DEF ReadTurn, Goto, TypeOK, Pcs
<1>13. CASE SetMotors(c)
  <2>1. mem[c].remote_msg.x \in Axis /\ mem[c].remote_msg.senderID \in Ids
    BY <1>0 DEF Memory
  <2>2. motors' \in [Cars -> Motion]
    BY <1>13, <2>1 DEF SetMotors, Motion, TypeOK
  <2>3. car_msg' \in [Cars -> [senderID : Ids, type : CarTypes]]
    BY <1>13 DEF SetMotors, Message, TypeOK, CarTypes
  <2>. QED  BY <1>13, <2>2, <2>3 DEF SetMotors, Goto, TypeOK, Pcs
<1>14. CASE SetFollow(c)
  <2>1. mem[c].remote_msg.y \in Axis /\ mem[c].remote_msg.senderID \in Ids
    BY <1>0 DEF Memory
  <2>2. motors' \in [Cars -> Motion]
    BY <1>14, <2>1 DEF SetFollow, Motion, TypeOK
  <2>3. car_msg' \in [Cars -> [senderID : Ids, type : CarTypes]]
    BY <1>14, IdsAssumption DEF SetFollow, Message, TypeOK, CarTypes
  <2>. QED  BY <1>14, <2>2, <2>3 DEF SetFollow, Goto, TypeOK, Pcs
<1>15. CASE SlaveListen(c)
  <2>1. mem' = [mem EXCEPT ![c] = [mem[c] EXCEPT !.slave_message = FALSE]]
    BY <1>15 DEF SlaveListen
  <2>2. mem' \in [Cars -> Memory]
    BY <1>0, <2>1, MemoryUpdates DEF TypeOK
  <2>. QED  BY <1>15, <2>2, CarAssumption DEF SlaveListen, Goto, TypeOK, Pcs
<1>16. CASE SlaveHeard(c)
  BY <1>16 DEF SlaveHeard, Goto, TypeOK, Pcs, Message, CarTypes
<1>17. CASE SlaveTimedOut(c)
  <2>1. mem' = [mem EXCEPT ![c] = [mem[c] EXCEPT !.next_state = STATE_CAR_WAIT_FOR_REMOTE]]
    BY <1>17 DEF SlaveTimedOut
  <2>2. STATE_CAR_WAIT_FOR_REMOTE \in CarStates
    BY DEF CarStates
  <2>3. mem' \in [Cars -> Memory]
    BY <1>0, <2>1, <2>2, MemoryUpdates DEF TypeOK
  <2>. QED  BY <1>17, <2>3 DEF SlaveTimedOut, Goto, TypeOK, Pcs
<1>18. CASE MasterAcked(c)
  BY <1>18 DEF MasterAcked, Goto, TypeOK, Pcs
<1>19. CASE MasterTimedOut(c)
  BY <1>19 DEF MasterTimedOut, Goto, TypeOK, Pcs
<1>20. CASE EndBody(c)
  <2>1. mem' = [mem EXCEPT ![c] = [mem[c] EXCEPT !.state = mem[c].next_state]]
    BY <1>20 DEF EndBody
  <2>2. mem[c].next_state \in CarStates
    BY <1>0, <1>20, EndsInAState DEF EndBody, Goto
  <2>3. mem' \in [Cars -> Memory]
    BY <1>0, <2>1, <2>2, MemoryUpdates DEF TypeOK
  <2>. QED  BY <1>20, <2>3 DEF EndBody, Goto, TypeOK, Pcs
<1>. QED
  BY <1>1, <1>2, <1>3, <1>4, <1>5, <1>6, <1>7, <1>8, <1>9, <1>10, <1>11, <1>12, <1>13,
     <1>14, <1>15, <1>16, <1>17, <1>18, <1>19, <1>20 DEF LocalStep

\* A transmission keeps the types, whoever hears it.
LEMMA TransmitType ==
    ASSUME TypeOK, NEW c \in Cars, NEW H \in SUBSET Cars, Transmit(c, H)
    PROVE  TypeOK'
<1>1. SentFrame(c) \in Frame
  BY SentFrameType DEF Transmit, SendAck, SendRequest, SendSpeed, Transmitting
<1>2. CASE SendAck(c, H)
  <2>1. mem' \in [Cars -> Memory] /\ silence' \in [Cars -> Nat]
    BY <1>1, <1>2, HearType DEF SendAck
  <2>. QED  BY <1>2, <2>1 DEF SendAck, TypeOK, Pcs
<1>3. CASE SendRequest(c, H)
  <2>1. mem' \in [Cars -> Memory] /\ silence' \in [Cars -> Nat]
    BY <1>1, <1>3, HearType DEF SendRequest
  <2>2. car_msg' \in [Cars -> [senderID : Ids, type : CarTypes]]
    BY <1>3, IdsAssumption DEF SendRequest, Message, TypeOK, CarTypes
  <2>. QED  BY <1>3, <2>1, <2>2 DEF SendRequest, TypeOK, Pcs
<1>4. CASE SendSpeed(c, H)
  <2>1. \A d \in Cars : EventHandler(mem[d], my_id[d], SentFrame(c)) \in Memory
    BY <1>1, HandlerType DEF TypeOK
  <2>2. [mem[c] EXCEPT !.receive_ack = FALSE] \in Memory
    BY MemoryUpdates DEF TypeOK
  <2>3. mem' \in [Cars -> Memory]
    BY <1>4, <2>1, <2>2 DEF SendSpeed, TypeOK
  <2>4. pc' \in [Cars -> Pcs] /\ tries' \in [Cars -> Nat] /\ wait' \in [Cars -> Nat]
    BY <1>4, CarAssumption DEF SendSpeed, TypeOK, Pcs
  <2>5. listening' \in [Cars -> BOOLEAN]
    BY <1>4 DEF SendSpeed, TypeOK
  <2>. QED  BY <1>4, <2>3, <2>4, <2>5 DEF SendSpeed, TypeOK
<1>. QED  BY <1>2, <1>3, <1>4 DEF Transmit

\* So does a frame from elsewhere, a tick and the loss of power.
LEMMA OtherStepType ==
    ASSUME TypeOK,
           \/ \E f \in Frame, H \in SUBSET CarListeners : Environment(f, H)
           \/ CarsTick
           \/ \E c \in Cars : PowerCycle(c)
    PROVE  TypeOK'
<1>1. ASSUME NEW f \in Frame, NEW H \in SUBSET CarListeners, Environment(f, H)
      PROVE  TypeOK'
  <2>1. H \in SUBSET Cars
    BY DEF CarListeners
  <2>2. mem' \in [Cars -> Memory] /\ silence' \in [Cars -> Nat]
    BY <1>1, <2>1, HearType DEF Environment
  <2>. QED  BY <1>1, <2>2 DEF Environment, TypeOK
<1>2. CASE CarsTick
  <2>1. LongSilence \in Nat
    BY CarAssumption DEF LongSilence
  <2>2. silence' \in [Cars -> Nat]
    BY <1>2, <2>1 DEF CarsTick, TypeOK
  <2>. QED  BY <1>2, <2>2 DEF CarsTick, TypeOK
<1>3. ASSUME NEW c \in Cars, PowerCycle(c)
      PROVE  TypeOK'
  <2>1. ColdMemory \in Memory
    BY ColdTypes
  <2>2. /\ Stopped \in Motion
        /\ ColdMessage \in [senderID : Ids, type : CarTypes]
        /\ 0 \in Axis /\ 0 \in Ids /\ STATE_CAR_WAIT_FOR_REMOTE \in CarStates
    BY ColdTypes
  <2>. QED  BY <1>3, <2>1, <2>2, CarAssumption DEF PowerCycle, TypeOK, Pcs
<1>. QED  BY <1>1, <1>2, <1>3
-----------------------------------------------------------------------------
(***************************************************************************)
(* LoopInv is inductive.                                                   *)
(***************************************************************************)

\* All that a frame can do to a car, whichever it is: store a message of the
\* car's own remote, ask for a pool, pair, find a master, be made a master.
Effect(m, id, n) ==
    \/ /\ n.state = m.state /\ n.next_state = m.next_state
       /\ \/ n.remote_msg.senderID = id
          \/ /\ n.remote_msg.senderID = m.remote_msg.senderID
             /\ n.recevice_message = m.recevice_message
    \/ /\ m.state = STATE_CAR_SINGLE_MODE
       /\ n.state = STATE_CAR_TRUCK_POOLING_PENDING
       /\ n.next_state = STATE_CAR_TRUCK_POOLING_PENDING
       /\ n.remote_msg.senderID = id
    \/ /\ m.state = STATE_CAR_WAIT_FOR_REMOTE /\ n.state = m.state
       /\ n.next_state = STATE_CAR_SINGLE_MODE
    \/ /\ m.state = STATE_CAR_TRUCK_POOLING_PENDING /\ n.state = m.state
       /\ n.next_state = STATE_CAR_TRUCK_POOLING_SLAVE
       /\ n.remote_msg.senderID = m.remote_msg.senderID
    \/ /\ m.state = STATE_CAR_SINGLE_MODE /\ n.state = m.state
       /\ n.next_state = STATE_CAR_TRUCK_POOLING_MASTER
       /\ n.remote_msg.senderID = m.remote_msg.senderID
       /\ n.recevice_message = m.recevice_message

\* The event handler (main.c:76-164) has no other effect on the loop.
LEMMA HandlerEffect ==
    ASSUME NEW m \in Memory, NEW id \in Ids, NEW f \in Frame, NEW n,
           n = EventHandler(m, id, f)
    PROVE  Effect(m, id, n)
<1>0. m.state # 1
  BY DEF Memory, CarStates
<1>1. CASE f.id = id
  <2>1. n = OwnFrame(m, f)
    BY <1>1 DEF EventHandler
  <2>. DEFINE s == Stored(m, f)
  <2>2. s \in Memory
    BY MemoryUpdates
  <2>3. /\ s.state = m.state /\ s.next_state = m.next_state
        /\ s.remote_msg.senderID = id
    BY <1>1 DEF Stored, Memory
  <2>4. \/ n = s
        \/ n = [s EXCEPT !.recevice_message = TRUE]
        \/ n = [s EXCEPT !.slave_message = TRUE]
        \/ /\ m.state = STATE_CAR_SINGLE_MODE
           /\ n = [s EXCEPT !.state = STATE_CAR_TRUCK_POOLING_PENDING,
                            !.next_state = STATE_CAR_TRUCK_POOLING_PENDING,
                            !.recevice_message = TRUE]
    <3>. HIDE DEF s
    <3>. QED  BY <1>0, <2>1, Zenon DEF OwnFrame, s
  <2>. HIDE DEF s
  <2>. QED  BY <2>2, <2>3, <2>4 DEF Effect, Memory
<1>2. CASE f.id # id
  <2>1. n = OtherFrame(m, id, f)
    BY <1>2 DEF EventHandler
  <2>. QED  BY <1>2, <2>1 DEF Effect, OtherFrame, Stored, Memory
<1>. QED  BY <1>1, <1>2

\* An interrupt leaves the loop and its memory coherent wherever it strikes.
LEMMA HandlerCoherent ==
    ASSUME NEW m \in Memory, NEW id \in Ids, NEW f \in Frame,
           NEW p \in Pcs, NEW b \in CarStates, NEW msg, NEW mot,
           Coherent(p, b, m, id, msg, mot)
    PROVE  Coherent(p, b, EventHandler(m, id, f), id, msg, mot)
<1>. DEFINE n == EventHandler(m, id, f)
<1>1. n \in Memory
  BY HandlerType
<1>2. /\ NextInv(p, m) /\ BodyInv(p, b, m) /\ SenderInv(p, m, id)
      /\ AnswerInv(p, b, m, id, msg) /\ MotorInv(p, b, mot, id)
  BY DEF Coherent
<1>3. /\ NextInv(p, n)
      /\ BodyInv(p, b, n)
      /\ SenderInv(p, n, id)
      /\ AnswerInv(p, b, n, id, msg)
  <2>1. Effect(m, id, n)
    BY HandlerEffect
  <2>. HIDE DEF n
  <2>2. NextInv(p, n)
    BY <1>2, <2>1 DEF Effect, NextInv
  <2>3. BodyInv(p, b, n)
    BY <1>2, <2>1 DEF Effect, BodyInv, InBody, NextInv
  <2>4. SenderInv(p, n, id)
    BY <1>2, <2>1 DEF Effect, SenderInv, Steerable, InBody
  <2>5. AnswerInv(p, b, n, id, msg)
    BY <1>2, <2>1 DEF Effect, AnswerInv, Addressed
  <2>. QED  BY <2>2, <2>3, <2>4, <2>5
<1>. QED  BY <1>2, <1>3 DEF Coherent

\* A frame that any cars hear.
LEMMA HearCoherent ==
    ASSUME TypeOK, LoopInv, NEW H \in SUBSET Cars, NEW f \in Frame, CarsHear(H, f)
    PROVE  \A c \in Cars :
               Coherent(pc[c], body[c], mem'[c], my_id[c], car_msg[c], motors[c])
<1>. SUFFICES ASSUME NEW c \in Cars
              PROVE  Coherent(pc[c], body[c], mem'[c], my_id[c], car_msg[c], motors[c])
  OBVIOUS
<1>1. Coherent(pc[c], body[c], mem[c], my_id[c], car_msg[c], motors[c])
  BY DEF LoopInv
<1>2. mem'[c] = mem[c] \/ mem'[c] = EventHandler(mem[c], my_id[c], f)
  BY DEF CarsHear
<1>. QED  BY <1>1, <1>2, HandlerCoherent DEF TypeOK

\* A step of a car disturbs no other car.
LEMMA OthersUndisturbed ==
    ASSUME TypeOK, NEW c \in Cars, NEW d \in Cars, d # c, LocalStep(c)
    PROVE  /\ pc'[d] = pc[d] /\ body'[d] = body[d] /\ mem'[d] = mem[d]
           /\ my_id'[d] = my_id[d] /\ car_msg'[d] = car_msg[d] /\ motors'[d] = motors[d]
<1>1. CASE Booted(c)
  BY <1>1 DEF Booted, Goto, TypeOK
<1>2. CASE Clear(c)
  BY <1>2 DEF Clear, Goto, TypeOK
<1>3. CASE Listen(c)
  BY <1>3 DEF Listen, Goto, TypeOK
<1>4. CASE Heard(c)
  BY <1>4 DEF Heard, Goto, TypeOK
<1>5. CASE TimedOut(c)
  BY <1>5 DEF TimedOut, Goto, TypeOK
<1>6. CASE DropState(c)
  BY <1>6 DEF DropState, Goto, TypeOK
<1>7. CASE DropNext(c)
  BY <1>7 DEF DropNext, Goto, TypeOK
<1>8. CASE Dispatch(c)
  BY <1>8 DEF Dispatch, Goto, TypeOK
<1>9. CASE Halt(c)
  BY <1>9 DEF Halt, Goto, TypeOK
<1>10. CASE Await(c)
  BY <1>10 DEF Await, Goto, TypeOK
<1>11. CASE Adopt(c)
  BY <1>11 DEF Adopt, Goto, TypeOK
<1>12. CASE ReadTurn(c)
  BY <1>12 DEF ReadTurn, Goto, TypeOK
<1>13. CASE SetMotors(c)
  BY <1>13 DEF SetMotors, Goto, TypeOK
<1>14. CASE SetFollow(c)
  BY <1>14 DEF SetFollow, Goto, TypeOK
<1>15. CASE SlaveListen(c)
  BY <1>15 DEF SlaveListen, Goto, TypeOK
<1>16. CASE SlaveHeard(c)
  BY <1>16 DEF SlaveHeard, Goto, TypeOK
<1>17. CASE SlaveTimedOut(c)
  BY <1>17 DEF SlaveTimedOut, Goto, TypeOK
<1>18. CASE MasterAcked(c)
  BY <1>18 DEF MasterAcked, Goto, TypeOK
<1>19. CASE MasterTimedOut(c)
  BY <1>19 DEF MasterTimedOut, Goto, TypeOK
<1>20. CASE EndBody(c)
  BY <1>20 DEF EndBody, Goto, TypeOK
<1>. QED
  BY <1>1, <1>2, <1>3, <1>4, <1>5, <1>6, <1>7, <1>8, <1>9, <1>10, <1>11, <1>12, <1>13, <1>14, <1>15, <1>16, <1>17, <1>18, <1>19, <1>20 DEF LocalStep

\* Each step of the main loop keeps its own car coherent.
LEMMA LocalStepCoherent ==
    ASSUME TypeOK, LoopInv, NEW c \in Cars, LocalStep(c)
    PROVE  Coherent(pc'[c], body'[c], mem'[c], my_id'[c], car_msg'[c], motors'[c])
<1>. DEFINE p == pc[c]
           b == body[c]
           m == mem[c]
           id == my_id[c]
           msg == car_msg[c]
           mot == motors[c]
<1>0. /\ p \in Pcs /\ b \in CarStates /\ m \in Memory /\ id \in Ids /\ mot \in Motion
      /\ msg \in [senderID : Ids, type : CarTypes]
  BY DEF TypeOK
<1>. DEFINE Goal == Coherent(pc'[c], body'[c], mem'[c], my_id'[c], car_msg'[c], motors'[c])
<1>c. Coherent(p, b, m, id, msg, mot)
  BY DEF LoopInv
<1>1. CASE Booted(c)
  BY <1>0, <1>c, <1>1 DEF Booted, Goto, TypeOK, Memory, Coherent, NextInv, BodyInv,
       SenderInv, Steerable, AnswerInv, Addressed, MotorInv, Standing, InBody
<1>2. CASE Clear(c)
  BY <1>0, <1>c, <1>2 DEF Clear, Goto, TypeOK, Memory, Coherent, NextInv, BodyInv,
       SenderInv, Steerable, AnswerInv, Addressed, MotorInv, Standing, InBody
<1>3. CASE Listen(c)
  BY <1>0, <1>c, <1>3 DEF Listen, Goto, TypeOK, Memory, Coherent, NextInv, BodyInv,
       SenderInv, Steerable, AnswerInv, Addressed, MotorInv, Standing, InBody
<1>4. CASE Heard(c)
  BY <1>0, <1>c, <1>4 DEF Heard, Goto, TypeOK, Memory, Coherent, NextInv, BodyInv,
       SenderInv, Steerable, AnswerInv, Addressed, MotorInv, Standing, InBody
<1>5. CASE TimedOut(c)
  BY <1>0, <1>c, <1>5 DEF TimedOut, Goto, TypeOK, Memory, Coherent, NextInv, BodyInv,
       SenderInv, Steerable, AnswerInv, Addressed, MotorInv, Standing, InBody
<1>6. CASE DropState(c)
  BY <1>0, <1>c, <1>6 DEF DropState, Goto, TypeOK, Memory, Coherent, NextInv, BodyInv,
       SenderInv, Steerable, AnswerInv, Addressed, MotorInv, Standing, InBody
<1>7. CASE DropNext(c)
  BY <1>0, <1>c, <1>7 DEF DropNext, Goto, TypeOK, Memory, Coherent, NextInv, BodyInv,
       SenderInv, Steerable, AnswerInv, Addressed, MotorInv, Standing, InBody
<1>8. CASE Dispatch(c)
  <2>1. /\ p = "dispatch" /\ body'[c] = m.state
        /\ pc'[c] = CASE m.state = STATE_CAR_WAIT_FOR_REMOTE      -> "halt"
                      [] m.state = STATE_CAR_TRUCK_POOLING_SLAVE  -> "follow"
                      [] OTHER                                    -> "steer"
        /\ mem'[c] = m /\ my_id'[c] = id /\ car_msg'[c] = msg /\ motors'[c] = mot
    BY <1>8 DEF Dispatch, TypeOK
  <2>2. NextInv(pc'[c], m)
    BY <1>0, <1>c, <2>1 DEF Coherent, NextInv, BodyInv, InBody
  <2>3. BodyInv(pc'[c], body'[c], m)
    BY <1>0, <1>c, <2>1 DEF Coherent, NextInv, BodyInv, InBody, CarStates, Memory
  <2>4. SenderInv(pc'[c], m, id)
    BY <1>0, <1>c, <2>1 DEF Coherent, BodyInv, SenderInv, Steerable, InBody
  <2>5. AnswerInv(pc'[c], body'[c], m, id, msg)
    BY <1>0, <1>c, <2>1 DEF Coherent, BodyInv, AnswerInv, Addressed, Message, InBody
  <2>6. MotorInv(pc'[c], body'[c], mot, id)
    BY <1>0, <1>c, <2>1 DEF Coherent, BodyInv, MotorInv, Standing, InBody
  <2>. QED  BY <2>1, <2>2, <2>3, <2>4, <2>5, <2>6 DEF Coherent
<1>9. CASE Halt(c)
  <2>1. /\ p = "halt" /\ pc'[c] = "await" /\ body'[c] = b /\ mem'[c] = m
        /\ my_id'[c] = id /\ car_msg'[c] = msg /\ ~motors'[c].run
    BY <1>9 DEF Halt, Goto, TypeOK, Stopped
  <2>2. NextInv("await", m)
    BY <1>0, <1>c, <2>1 DEF Coherent, NextInv, BodyInv, InBody
  <2>3. BodyInv("await", b, m)
    BY <1>0, <1>c, <2>1 DEF Coherent, NextInv, BodyInv, InBody, CarStates, Memory
  <2>4. SenderInv("await", m, id)
    BY <1>0, <1>c, <2>1 DEF Coherent, BodyInv, SenderInv, Steerable, InBody
  <2>5. AnswerInv("await", b, m, id, msg)
    BY <1>0, <1>c, <2>1 DEF Coherent, BodyInv, AnswerInv, Addressed, Message, InBody
  <2>6. MotorInv("await", b, motors'[c], id)
    BY <1>0, <1>c, <2>1 DEF Coherent, BodyInv, MotorInv, Standing, InBody
  <2>. QED  BY <2>1, <2>2, <2>3, <2>4, <2>5, <2>6 DEF Coherent
<1>10. CASE Await(c)
  BY <1>0, <1>c, <1>10 DEF Await, Goto, TypeOK, Memory, Coherent, NextInv, BodyInv,
       SenderInv, Steerable, AnswerInv, Addressed, MotorInv, Standing, InBody
<1>11. CASE Adopt(c)
  <2>1. /\ p = "adopt" /\ pc'[c] = "ack" /\ body'[c] = b /\ mem'[c] = m
        /\ car_msg'[c] = Message(my_id'[c], MSG_CAR_TYPE_CONNECTED_TO)
        /\ motors'[c] = mot
    BY <1>11 DEF Adopt, Goto, TypeOK
  <2>2. NextInv("ack", m)
    BY <1>0, <1>c, <2>1 DEF Coherent, NextInv, BodyInv, InBody
  <2>3. BodyInv("ack", b, m)
    BY <1>0, <1>c, <2>1 DEF Coherent, NextInv, BodyInv, InBody, CarStates, Memory
  <2>4. SenderInv("ack", m, my_id'[c])
    BY <1>0, <1>c, <2>1 DEF Coherent, BodyInv, SenderInv, Steerable, InBody
  <2>5. AnswerInv("ack", b, m, my_id'[c], car_msg'[c])
    BY <1>0, <1>c, <2>1 DEF Coherent, BodyInv, AnswerInv, Addressed, Message, InBody
  <2>6. MotorInv("ack", b, mot, my_id'[c])
    BY <1>0, <1>c, <2>1 DEF Coherent, BodyInv, MotorInv, Standing, InBody
  <2>. QED  BY <2>1, <2>2, <2>3, <2>4, <2>5, <2>6 DEF Coherent
<1>12. CASE ReadTurn(c)
  BY <1>0, <1>c, <1>12 DEF ReadTurn, Goto, TypeOK, Memory, Coherent, NextInv, BodyInv,
       SenderInv, Steerable, AnswerInv, Addressed, MotorInv, Standing, InBody
<1>13. CASE SetMotors(c)
  <2>1. /\ p = "steer_x" /\ pc'[c] = "ack" /\ body'[c] = b /\ mem'[c] = m /\ my_id'[c] = id
        /\ car_msg'[c] = Message(IF b = STATE_CAR_TRUCK_POOLING_PENDING
                                 THEN id ELSE msg.senderID, MSG_CAR_TYPE_ACKNOWLEDGE)
        /\ motors'[c].by = m.remote_msg.senderID
    BY <1>13 DEF SetMotors, Goto, TypeOK
  <2>2. NextInv("ack", m)
    BY <1>0, <1>c, <2>1 DEF Coherent, NextInv, BodyInv, InBody
  <2>3. BodyInv("ack", b, m)
    BY <1>0, <1>c, <2>1 DEF Coherent, NextInv, BodyInv, InBody, CarStates, Memory
  <2>4. SenderInv("ack", m, id)
    BY <1>0, <1>c, <2>1 DEF Coherent, BodyInv, SenderInv, Steerable, InBody
  <2>5. AnswerInv("ack", b, m, id, car_msg'[c])
    BY <1>0, <1>c, <2>1 DEF Coherent, BodyInv, AnswerInv, Addressed, Message, InBody
  <2>6. MotorInv("ack", b, motors'[c], id)
    BY <1>0, <1>c, <2>1 DEF Coherent, BodyInv, SenderInv, Steerable, MotorInv,
                             Standing, InBody
  <2>. QED  BY <2>1, <2>2, <2>3, <2>4, <2>5, <2>6 DEF Coherent
<1>14. CASE SetFollow(c)
  BY <1>0, <1>c, <1>14 DEF SetFollow, Goto, TypeOK, Memory, Coherent, NextInv, BodyInv,
       SenderInv, Steerable, AnswerInv, Addressed, MotorInv, Standing, InBody
<1>15. CASE SlaveListen(c)
  BY <1>0, <1>c, <1>15 DEF SlaveListen, Goto, TypeOK, Memory, Coherent, NextInv, BodyInv,
       SenderInv, Steerable, AnswerInv, Addressed, MotorInv, Standing, InBody
<1>16. CASE SlaveHeard(c)
  BY <1>0, <1>c, <1>16 DEF SlaveHeard, Goto, TypeOK, Memory, Coherent, NextInv, BodyInv,
       SenderInv, Steerable, AnswerInv, Addressed, MotorInv, Standing, InBody
<1>17. CASE SlaveTimedOut(c)
  BY <1>0, <1>c, <1>17 DEF SlaveTimedOut, Goto, TypeOK, Memory, Coherent, NextInv, BodyInv,
       SenderInv, Steerable, AnswerInv, Addressed, MotorInv, Standing, InBody
<1>18. CASE MasterAcked(c)
  BY <1>0, <1>c, <1>18 DEF MasterAcked, Goto, TypeOK, Memory, Coherent, NextInv, BodyInv,
       SenderInv, Steerable, AnswerInv, Addressed, MotorInv, Standing, InBody
<1>19. CASE MasterTimedOut(c)
  BY <1>0, <1>c, <1>19 DEF MasterTimedOut, Goto, TypeOK, Memory, Coherent, NextInv, BodyInv,
       SenderInv, Steerable, AnswerInv, Addressed, MotorInv, Standing, InBody
<1>20. CASE EndBody(c)
  <2>1. /\ p = "end" /\ pc'[c] = "clear" /\ body'[c] = b
        /\ mem'[c] = [m EXCEPT !.state = m.next_state]
        /\ my_id'[c] = id /\ car_msg'[c] = msg /\ motors'[c] = mot
    BY <1>20 DEF EndBody, Goto, TypeOK
  <2>7. /\ mem'[c].state = m.next_state /\ mem'[c].next_state = m.next_state
        /\ mem'[c].remote_msg = m.remote_msg
    BY <1>0, <2>1 DEF Memory
  <2>2. NextInv("clear", mem'[c])
    BY <1>0, <1>c, <2>1, <2>7 DEF Coherent, NextInv, BodyInv, InBody
  <2>3. BodyInv("clear", b, mem'[c])
    BY <1>0, <1>c, <2>1, <2>7 DEF Coherent, NextInv, BodyInv, InBody, CarStates, Memory
  <2>4. SenderInv("clear", mem'[c], id)
    BY <1>0, <1>c, <2>1, <2>7 DEF Coherent, NextInv, BodyInv, SenderInv, Steerable, InBody,
                                  Memory, CarStates
  <2>5. AnswerInv("clear", b, mem'[c], id, msg)
    BY <1>0, <1>c, <2>1, <2>7 DEF Coherent, NextInv, BodyInv, AnswerInv, Addressed, InBody,
                                  Memory, CarStates
  <2>6. MotorInv("clear", b, mot, id)
    BY <1>0, <1>c, <2>1, <2>7 DEF Coherent, BodyInv, MotorInv, Standing, InBody
  <2>. QED  BY <2>1, <2>2, <2>3, <2>4, <2>5, <2>6 DEF Coherent
<1>. QED
  BY <1>1, <1>2, <1>3, <1>4, <1>5, <1>6, <1>7, <1>8, <1>9, <1>10, <1>11, <1>12, <1>13, <1>14, <1>15, <1>16, <1>17, <1>18, <1>19, <1>20 DEF LocalStep

\* A transmission keeps the sender coherent and all that hear it.
LEMMA TransmitCoherent ==
    ASSUME TypeOK, LoopInv, NEW c \in Cars, NEW H \in SUBSET Cars, c \notin H,
           Transmit(c, H)
    PROVE  LoopInv'
<1>. DEFINE b == body[c]
           m == mem[c]
           id == my_id[c]
           msg == car_msg[c]
           mot == motors[c]
<1>0. /\ b \in CarStates /\ m \in Memory
      /\ Coherent(pc[c], b, m, id, msg, mot)
      /\ SentFrame(c) \in Frame
  BY SentFrameType DEF TypeOK, LoopInv, Transmit, SendAck, SendRequest, SendSpeed, Transmitting
<1>1. ASSUME NEW d \in Cars, d # c
      PROVE  /\ pc'[d] = pc[d] /\ body'[d] = body[d] /\ my_id'[d] = my_id[d]
             /\ car_msg'[d] = car_msg[d] /\ motors'[d] = motors[d]
  BY <1>1 DEF Transmit, SendAck, SendRequest, SendSpeed, TypeOK
<1>2. ASSUME NEW d \in Cars, d # c
      PROVE  mem'[d] = mem[d] \/ mem'[d] = EventHandler(mem[d], my_id[d], SentFrame(c))
  BY <1>2 DEF Transmit, SendAck, SendRequest, SendSpeed, CarsHear
<1>3. ASSUME NEW d \in Cars, d # c
      PROVE  Coherent(pc[d], body[d], mem'[d], my_id[d], car_msg[d], motors[d])
  <2>1. Coherent(pc[d], body[d], mem[d], my_id[d], car_msg[d], motors[d])
    BY DEF LoopInv
  <2>. QED  BY <1>0, <1>2, <1>3, <2>1, HandlerCoherent DEF TypeOK
<1>4. Coherent(pc'[c], body'[c], mem'[c], my_id'[c], car_msg'[c], motors'[c])
  <2>1. CASE SendAck(c, H)
    <3>1. /\ pc[c] \in {"ack", "reply"}
          /\ pc'[c] = CASE b = STATE_CAR_TRUCK_POOLING_PENDING -> "request"
                        [] b = STATE_CAR_TRUCK_POOLING_MASTER  -> "feed"
                        [] pc[c] = "ack" /\ b = STATE_CAR_TRUCK_POOLING_SLAVE -> "slave"
                        [] OTHER -> "end"
          /\ body'[c] = b /\ mem'[c] = m /\ my_id'[c] = id /\ car_msg'[c] = msg
          /\ motors'[c] = mot
      BY <2>1 DEF SendAck, CarsHear, TypeOK
    <3>. QED
      BY <1>0, <3>1 DEF Coherent, NextInv, BodyInv, SenderInv, Steerable, AnswerInv,
         Addressed, MotorInv, Standing, InBody, Memory, CarStates
  <2>2. CASE SendRequest(c, H)
    <3>1. /\ pc[c] = "request" /\ pc'[c] \in {"request", "end"}
          /\ body'[c] = b /\ mem'[c] = m /\ my_id'[c] = id /\ motors'[c] = mot
      BY <2>2 DEF SendRequest, CarsHear, TypeOK
    <3>. QED
      BY <1>0, <3>1 DEF Coherent, NextInv, BodyInv, SenderInv, Steerable, AnswerInv,
         Addressed, MotorInv, Standing, InBody, Memory, CarStates
  <2>3. CASE SendSpeed(c, H)
    <3>1. /\ pc[c] = "feed" /\ pc'[c] = "feed_listen"
          /\ body'[c] = b /\ mem'[c] = [m EXCEPT !.receive_ack = FALSE]
          /\ my_id'[c] = id /\ car_msg'[c] = msg /\ motors'[c] = mot
      BY <2>3 DEF SendSpeed, TypeOK
    <3>2. /\ mem'[c].state = m.state /\ mem'[c].next_state = m.next_state
          /\ mem'[c].remote_msg = m.remote_msg
      BY <1>0, <3>1 DEF Memory
    <3>. QED
      BY <1>0, <3>1, <3>2 DEF Coherent, NextInv, BodyInv, SenderInv, Steerable, AnswerInv,
         Addressed, MotorInv, Standing, InBody, Memory, CarStates
  <2>. QED  BY <2>1, <2>2, <2>3 DEF Transmit
<1>5. ASSUME NEW d \in Cars
      PROVE  Coherent(pc'[d], body'[d], mem'[d], my_id'[d], car_msg'[d], motors'[d])
  BY <1>1, <1>3, <1>4
<1>. QED  BY <1>5 DEF LoopInv

\* A car without power, or waiting for it, is coherent.
LEMMA ColdCoherent ==
    Coherent("boot", STATE_CAR_WAIT_FOR_REMOTE, ColdMemory, 0, ColdMessage, Stopped)
  BY DEF ColdMemory, ColdMessage, Stopped, Coherent, NextInv, BodyInv, SenderInv,
         Steerable, AnswerInv, Addressed, MotorInv, Standing, InBody
-----------------------------------------------------------------------------
(***************************************************************************)
(* The theorems.                                                           *)
(***************************************************************************)

\* Inv is inductive: every step of the module preserves it.
LEMMA StepInvariant ==
    ASSUME TypeOK, LoopInv, [CarNext]_carVars
    PROVE  TypeOK' /\ LoopInv'
<1>1. ASSUME NEW c \in Cars, LocalStep(c)
      PROVE  TypeOK' /\ LoopInv'
  <2>1. ASSUME NEW d \in Cars
        PROVE  Coherent(pc'[d], body'[d], mem'[d], my_id'[d], car_msg'[d], motors'[d])
    <3>1. CASE d = c
      BY <1>1, <3>1, LocalStepCoherent
    <3>2. CASE d # c
      BY <1>1, <3>2, OthersUndisturbed DEF LoopInv
    <3>. QED  BY <3>1, <3>2
  <2>. QED  BY <1>1, <2>1, LocalStepType DEF LoopInv
<1>2. ASSUME NEW c \in Cars, NEW H \in SUBSET CarListeners, c \notin H, Transmit(c, H)
      PROVE  TypeOK' /\ LoopInv'
  <2>1. H \in SUBSET Cars
    BY DEF CarListeners
  <2>. QED  BY <1>2, <2>1, TransmitType, TransmitCoherent
<1>3. ASSUME NEW f \in Frame, NEW H \in SUBSET CarListeners, Environment(f, H)
      PROVE  TypeOK' /\ LoopInv'
  <2>1. H \in SUBSET Cars
    BY DEF CarListeners
  <2>2. LoopInv'
    BY <1>3, <2>1, HearCoherent DEF Environment, LoopInv
  <2>. QED  BY <1>3, <2>2, OtherStepType
<1>4. CASE CarsTick
  BY <1>4, OtherStepType DEF CarsTick, LoopInv
<1>5. ASSUME NEW c \in Cars, PowerCycle(c)
      PROVE  TypeOK' /\ LoopInv'
  <2>1. ASSUME NEW d \in Cars
        PROVE  Coherent(pc'[d], body'[d], mem'[d], my_id'[d], car_msg'[d], motors'[d])
    <3>1. CASE d = c
      BY <1>5, <3>1, ColdCoherent DEF PowerCycle, TypeOK
    <3>2. CASE d # c
      BY <1>5, <3>2 DEF PowerCycle, TypeOK, LoopInv
    <3>. QED  BY <3>1, <3>2
  <2>. QED  BY <1>5, <2>1, OtherStepType DEF LoopInv
<1>6. CASE UNCHANGED carVars
  BY <1>6 DEF carVars, TypeOK, LoopInv
<1>. QED  BY <1>1, <1>2, <1>3, <1>4, <1>5, <1>6 DEF CarNext

\* The car main.c:309-347 boots is coherent.
LEMMA InitInvariant ==
    ASSUME CarInit
    PROVE  TypeOK /\ LoopInv
<1>1. TypeOK
  BY ColdTypes, CarAssumption DEF CarInit, TypeOK, Pcs
<1>2. LoopInv
  BY ColdCoherent DEF CarInit, LoopInv
<1>. QED  BY <1>1, <1>2

\* Every variable of the firmware keeps a value of its declaration, and the loop
\* finds coherent memory whenever the radio interrupts it (main.c:76-164, 351-468).
THEOREM Correctness == CarSpec => [](TypeOK /\ LoopInv)
<1>1. CarInit => TypeOK /\ LoopInv
  BY InitInvariant
<1>2. TypeOK /\ LoopInv /\ [CarNext]_carVars => (TypeOK /\ LoopInv)'
  BY StepInvariant
<1>. QED  BY <1>1, <1>2, PTL DEF CarSpec

\* The types alone.
THEOREM TypeCorrect == CarSpec => []TypeOK
  BY Correctness, PTL

\* A car is only ever driven by the remote it has adopted, for any number of
\* remotes and cars on the channel (main.c:95, 134, 358-362, 375).
THEOREM DrivenByOwnRemote == CarSpec => []OnlyOwnRemote
<1>1. LoopInv => OnlyOwnRemote
  BY DEF LoopInv, OnlyOwnRemote, Coherent, MotorInv
<1>. QED  BY <1>1, Correctness, PTL

\* The answer being sent carries the id of the adopted remote.
LEMMA AddressedAlways ==
    ASSUME TypeOK, LoopInv
    PROVE  AckAddressing
<1>. SUFFICES ASSUME NEW c \in Cars, Transmitting(c)
              PROVE  SentFrame(c).id =
                       IF SentFrame(c).type \in {MSG_CAR_TYPE_CONNECTED_TO,
                                                 MSG_CAR_TYPE_ACKNOWLEDGE,
                                                 MSG_CAR_TYPE_POOLING_SLAVE}
                       THEN my_id[c] ELSE 0
  BY DEF AckAddressing
<1>1. AnswerInv(pc[c], body[c], mem[c], my_id[c], car_msg[c])
  BY DEF LoopInv, Coherent
<1>2. CASE pc[c] \in {"ack", "reply"}
  BY <1>1, <1>2 DEF AnswerInv, SentFrame, CarFrame, Message
<1>3. CASE pc[c] \in {"request", "feed"}
  BY <1>3 DEF SentFrame, CarFrame
<1>. QED  BY <1>2, <1>3 DEF Transmitting

\* Every answer goes to the adopted remote and every pool message to id 0, though
\* one static car_msg carries them all (main.c:364, 378, 388, 400, 418, 443, 457).
THEOREM AnswersAddressed == CarSpec => []AckAddressing
  BY AddressedAlways, Correctness, PTL

(***************************************************************************)
(* RcCar implements CarModes.                                              *)
(***************************************************************************)

\* A step that leaves mode, owner and motion of every car alone is a stutter.
LEMMA Stutter ==
    ASSUME UNCHANGED <<my_id, motors>>, \A c \in Cars : mem'[c].state = mem[c].state
    PROVE  UNCHANGED Modes!vars
  BY DEF Modes!vars

\* Frames move cars from single to pending mode, and do nothing else to a mode.
LEMMA HearImplements ==
    ASSUME TypeOK, NEW f \in Frame,
           UNCHANGED <<my_id, motors>>,
           \A c \in Cars : \/ mem'[c].state = mem[c].state
                          \/ mem'[c] = EventHandler(mem[c], my_id[c], f)
    PROVE  [Modes!Next]_(Modes!vars)
<1>. PICK C \in SUBSET Cars : C = {c \in Cars : mem'[c].state # mem[c].state}
  OBVIOUS
<1>1. ASSUME NEW c \in C
      PROVE  /\ mem[c].state = STATE_CAR_SINGLE_MODE
             /\ mem'[c].state = STATE_CAR_TRUCK_POOLING_PENDING
  <2>1. mem'[c] = EventHandler(mem[c], my_id[c], f)
    OBVIOUS
  <2>2. mem[c] \in Memory /\ my_id[c] \in Ids
    BY DEF TypeOK
  <2>. QED  BY <2>1, <2>2, HandlerEffect DEF Effect
<1>2. \A c \in Cars : mem'[c].state = IF c \in C THEN STATE_CAR_TRUCK_POOLING_PENDING
                                             ELSE mem[c].state
  BY <1>1
<1>3. \A c \in C : c \in Cars /\ mem[c].state = STATE_CAR_SINGLE_MODE
  BY <1>1
<1>4. Modes!Request(C)
  BY <1>2, <1>3 DEF Modes!Request, Modes!Single, Modes!Pending
<1>. QED  BY <1>4 DEF Modes!Next

\* Each step of the main loop is a step of CarModes or a stutter.
LEMMA LocalStepImplements ==
    ASSUME TypeOK, LoopInv, NEW c \in Cars, LocalStep(c)
    PROVE  [Modes!Next]_(Modes!vars)
<1>. DEFINE m == mem[c]
<1>0. /\ m \in Memory /\ Coherent(pc[c], body[c], m, my_id[c], car_msg[c], motors[c])
      /\ motors[c] \in Motion
  BY DEF TypeOK, LoopInv
<1>1. CASE Booted(c)
  <2>1. my_id' = my_id
    BY <1>0, <1>1 DEF Booted, Goto, Coherent, TypeOK
  <2>. QED  BY <1>1, <2>1, Stutter DEF Booted
<1>2. CASE Clear(c) \/ SlaveListen(c)
  <2>1. /\ \A d \in Cars : d # c => mem'[d] = mem[d]
        /\ \/ mem'[c] = [m EXCEPT !.recevice_message = FALSE]
           \/ mem'[c] = [m EXCEPT !.slave_message = FALSE]
    BY <1>2 DEF Clear, SlaveListen, TypeOK
  <2>2. mem'[c].state = m.state
    BY <1>0, <2>1 DEF Memory
  <2>. QED  BY <1>2, <2>1, <2>2, Stutter DEF Clear, SlaveListen
<1>3. CASE DropNext(c) \/ SlaveTimedOut(c)
  <2>1. /\ \A d \in Cars : d # c => mem'[d] = mem[d]
        /\ \/ mem'[c] = [m EXCEPT !.next_state = m.state]
           \/ mem'[c] = [m EXCEPT !.next_state = STATE_CAR_WAIT_FOR_REMOTE]
    BY <1>3 DEF DropNext, SlaveTimedOut, TypeOK
  <2>2. mem'[c].state = m.state
    BY <1>0, <2>1 DEF Memory
  <2>. QED  BY <1>3, <2>1, <2>2, Stutter DEF DropNext, SlaveTimedOut
<1>4. CASE \/ Listen(c) \/ Heard(c) \/ TimedOut(c) \/ Dispatch(c) \/ Await(c) \/ ReadTurn(c)
           \/ SlaveHeard(c) \/ MasterAcked(c) \/ MasterTimedOut(c)
  <2>1. UNCHANGED <<mem, my_id, motors>>
    BY <1>4 DEF Listen, Heard, TimedOut, Dispatch, Await, ReadTurn, SlaveHeard,
       MasterAcked, MasterTimedOut
  <2>. QED  BY <2>1, Stutter
<1>5. CASE DropState(c)
  <2>1. /\ mem'[c].state = STATE_CAR_WAIT_FOR_REMOTE
        /\ \A d \in Cars : d # c => mem'[d] = mem[d]
        /\ UNCHANGED <<my_id, motors>>
    BY <1>0, <1>5 DEF DropState, TypeOK, Memory
  <2>2. CASE m.state = STATE_CAR_WAIT_FOR_REMOTE
    BY <2>1, <2>2, Stutter
  <2>3. CASE m.state # STATE_CAR_WAIT_FOR_REMOTE
    <3>1. Modes!Drop(c)
      BY <2>1, <2>3 DEF Modes!Drop, Modes!Wait
    <3>. QED  BY <3>1 DEF Modes!Next, Modes!CarStep
  <2>. QED  BY <2>2, <2>3
<1>6. CASE Halt(c)
  <2>1. m.state = STATE_CAR_WAIT_FOR_REMOTE
    BY <1>0, <1>6 DEF Halt, Goto, Coherent, BodyInv, InBody
  <2>2. Modes!Halt(c)
    BY <1>6, <2>1 DEF Halt, Modes!Halt, Modes!Wait, Stopped, TypeOK
  <2>. QED  BY <2>2 DEF Modes!Next, Modes!CarStep
<1>7. CASE Adopt(c)
  <2>1. m.state = STATE_CAR_WAIT_FOR_REMOTE /\ ~motors[c].run
    BY <1>0, <1>7 DEF Adopt, Goto, Coherent, BodyInv, MotorInv, Standing, InBody
  <2>2. m.remote_msg.senderID \in Ids
    BY <1>0 DEF Memory
  <2>3. CASE my_id[c] = 0
    <3>1. Modes!Adopt(c)
      BY <1>7, <2>1, <2>2, <2>3 DEF Adopt, Modes!Adopt, Modes!Wait, TypeOK
    <3>. QED  BY <3>1 DEF Modes!Next, Modes!CarStep
  <2>4. CASE my_id[c] # 0
    <3>1. UNCHANGED <<mem, my_id, motors>>
      BY <1>7, <2>4 DEF Adopt, TypeOK
    <3>. QED  BY <3>1, Stutter
  <2>. QED  BY <2>3, <2>4
<1>8. CASE SetMotors(c) \/ SetFollow(c)
  <2>1. m.state # STATE_CAR_WAIT_FOR_REMOTE
    BY <1>0, <1>8 DEF SetMotors, SetFollow, Goto, Coherent, BodyInv, InBody
  <2>2. /\ motors'[c].run = TRUE
        /\ \A d \in Cars : d # c => motors'[d] = motors[d]
        /\ UNCHANGED <<mem, my_id>>
    BY <1>8 DEF SetMotors, SetFollow, TypeOK
  <2>3. Modes!Drive(c)
    BY <2>1, <2>2 DEF Modes!Drive, Modes!Wait
  <2>. QED  BY <2>3 DEF Modes!Next, Modes!CarStep
<1>9. CASE EndBody(c)
  <2>1. /\ mem'[c].state = m.next_state
        /\ \A d \in Cars : d # c => mem'[d] = mem[d]
        /\ UNCHANGED <<my_id, motors>>
    BY <1>0, <1>9 DEF EndBody, TypeOK, Memory
  <2>2. \/ m.next_state = m.state
        \/ /\ m.state = STATE_CAR_WAIT_FOR_REMOTE /\ m.next_state = STATE_CAR_SINGLE_MODE
           /\ ~motors[c].run
        \/ m.state = STATE_CAR_SINGLE_MODE /\ m.next_state = STATE_CAR_TRUCK_POOLING_MASTER
        \/ /\ m.state = STATE_CAR_TRUCK_POOLING_PENDING
           /\ m.next_state = STATE_CAR_TRUCK_POOLING_SLAVE
        \/ /\ m.state = STATE_CAR_TRUCK_POOLING_SLAVE
           /\ m.next_state = STATE_CAR_WAIT_FOR_REMOTE
    BY <1>0, <1>9 DEF EndBody, Goto, Coherent, NextInv, BodyInv, MotorInv, Standing, InBody,
       Memory, CarStates
  <2>3. CASE m.next_state = m.state
    BY <2>1, <2>3, Stutter
  <2>4. CASE /\ m.state = STATE_CAR_WAIT_FOR_REMOTE /\ m.next_state = STATE_CAR_SINGLE_MODE
             /\ ~motors[c].run
    <3>1. Modes!Pair(c)
      BY <2>1, <2>4 DEF Modes!Pair, Modes!Become, Modes!Wait, Modes!Single
    <3>. QED  BY <3>1 DEF Modes!Next, Modes!CarStep
  <2>5. CASE /\ m.state = STATE_CAR_SINGLE_MODE
             /\ m.next_state = STATE_CAR_TRUCK_POOLING_MASTER
    <3>1. Modes!BecomeMaster(c)
      BY <2>1, <2>5 DEF Modes!BecomeMaster, Modes!Become, Modes!Single, Modes!Master
    <3>. QED  BY <3>1 DEF Modes!Next, Modes!CarStep
  <2>6. CASE /\ m.state = STATE_CAR_TRUCK_POOLING_PENDING
             /\ m.next_state = STATE_CAR_TRUCK_POOLING_SLAVE
    <3>1. Modes!BecomeSlave(c)
      BY <2>1, <2>6 DEF Modes!BecomeSlave, Modes!Become, Modes!Pending, Modes!Slave
    <3>. QED  BY <3>1 DEF Modes!Next, Modes!CarStep
  <2>7. CASE /\ m.state = STATE_CAR_TRUCK_POOLING_SLAVE
             /\ m.next_state = STATE_CAR_WAIT_FOR_REMOTE
    <3>1. mem'[c].state = STATE_CAR_WAIT_FOR_REMOTE /\ m.state # STATE_CAR_WAIT_FOR_REMOTE
      BY <2>1, <2>7
    <3>2. Modes!Drop(c)
      BY <2>1, <3>1 DEF Modes!Drop, Modes!Wait
    <3>. QED  BY <3>2 DEF Modes!Next, Modes!CarStep
  <2>. QED  BY <2>2, <2>3, <2>4, <2>5, <2>6, <2>7
<1>. QED
  BY <1>1, <1>2, <1>3, <1>4, <1>5, <1>6, <1>7, <1>8, <1>9 DEF LocalStep

\* A transmission too: the sender keeps its mode, its hearers may become pending.
LEMMA TransmitImplements ==
    ASSUME TypeOK, NEW c \in Cars, NEW H \in SUBSET Cars, c \notin H, Transmit(c, H)
    PROVE  [Modes!Next]_(Modes!vars)
<1>1. SentFrame(c) \in Frame
  BY SentFrameType DEF Transmit, SendAck, SendRequest, SendSpeed, Transmitting
<1>2. UNCHANGED <<my_id, motors>>
  BY DEF Transmit, SendAck, SendRequest, SendSpeed
<1>3. ASSUME NEW d \in Cars
      PROVE  \/ mem'[d].state = mem[d].state
             \/ mem'[d] = EventHandler(mem[d], my_id[d], SentFrame(c))
  <2>1. mem[d] \in Memory
    BY DEF TypeOK
  <2>2. CASE SendAck(c, H) \/ SendRequest(c, H)
    BY <2>2 DEF SendAck, SendRequest, CarsHear
  <2>3. CASE SendSpeed(c, H)
    <3>1. \/ mem'[d] = [mem[c] EXCEPT !.receive_ack = FALSE] /\ d = c
          \/ mem'[d] = EventHandler(mem[d], my_id[d], SentFrame(c))
          \/ mem'[d] = mem[d]
      BY <2>3 DEF SendSpeed
    <3>. QED  BY <2>1, <3>1 DEF Memory
  <2>. QED  BY <2>2, <2>3 DEF Transmit
<1>. QED  BY <1>1, <1>2, <1>3, HearImplements

\* The firmware implements CarModes: pairing from a standstill only, one remote
\* until the power is cut, no motion outside the modes of a paired car.
THEOREM Implementation == CarSpec => ImplementsModes
<1>1. CarInit => Modes!Init
  BY DEF CarInit, Modes!Init, Modes!Wait, ColdMemory, Stopped
<1>2. TypeOK /\ LoopInv /\ [CarNext]_carVars => [Modes!Next]_(Modes!vars)
  <2>. SUFFICES ASSUME TypeOK, LoopInv, [CarNext]_carVars
                PROVE  [Modes!Next]_(Modes!vars)
    OBVIOUS
  <2>1. ASSUME NEW c \in Cars, LocalStep(c)
        PROVE  [Modes!Next]_(Modes!vars)
    BY <2>1, LocalStepImplements
  <2>2. ASSUME NEW c \in Cars, NEW H \in SUBSET CarListeners, c \notin H, Transmit(c, H)
        PROVE  [Modes!Next]_(Modes!vars)
    <3>1. H \in SUBSET Cars
      BY DEF CarListeners
    <3>. QED  BY <2>2, <3>1, TransmitImplements
  <2>3. ASSUME NEW f \in Frame, NEW H \in SUBSET CarListeners, Environment(f, H)
        PROVE  [Modes!Next]_(Modes!vars)
    <3>1. \A c \in Cars : \/ mem'[c].state = mem[c].state
                           \/ mem'[c] = EventHandler(mem[c], my_id[c], f)
      BY <2>3 DEF Environment, CarsHear
    <3>2. UNCHANGED <<my_id, motors>>
      BY <2>3 DEF Environment
    <3>. QED  BY <3>1, <3>2, HearImplements
  <2>4. CASE CarsTick
    BY <2>4, Stutter DEF CarsTick
  <2>5. ASSUME NEW c \in Cars, PowerCycle(c)
        PROVE  [Modes!Next]_(Modes!vars)
    <3>1. Modes!PowerCycle(c)
      BY <2>5 DEF PowerCycle, Modes!PowerCycle, Modes!Wait, ColdMemory, Stopped, TypeOK
    <3>. QED  BY <3>1 DEF Modes!Next, Modes!CarStep
  <2>6. CASE UNCHANGED carVars
    BY <2>6, Stutter DEF carVars
  <2>. QED  BY <2>1, <2>2, <2>3, <2>4, <2>5, <2>6 DEF CarNext
<1>. QED  BY <1>1, <1>2, Correctness, PTL DEF CarSpec, Modes!Spec, ImplementsModes
=============================================================================
