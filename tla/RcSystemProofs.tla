--------------------------- MODULE RcSystemProofs ---------------------------
(***************************************************************************)
(* Theorems about cars and remotes together: the composition is a case of  *)
(* both open specifications, so what is proved of a car or of a remote     *)
(* among arbitrary frames holds of every system of them; a remote that     *)
(* believes it is connected is, a car that becomes a slave has a master,   *)
(* and a node hears what it waits for, for any number of nodes and any     *)
(* losses; and an acknowledge between one car and one remote is sound.     *)
(***************************************************************************)
EXTENDS RcSystemProps, RcCarTimeProofs, RcRemoteProofs

Invariant == TypeOK /\ LoopInv /\ RemoteTypeOK /\ RetriesExhausted /\ resets \in Nat

\* What a node sends in the system is a frame of the protocol.
LEMMA PacketFrame ==
    ASSUME NEW f, NEW n
    PROVE  Packet(f, n).frame = f
  BY DEF Packet

\* The receivers of a frame are nodes that listen.
LEMMA ReceiversListen ==
    ASSUME NEW p, NEW n, NEW H \in SUBSET (Receivers(p) \ {n})
    PROVE  /\ H \cap Cars \in SUBSET CarListeners
           /\ H \cap Remotes \in SUBSET {r \in Remotes : rlistening[r]}
           /\ n \notin H
  BY NodesAssumption DEF Receivers, CarListeners

\* A step of the system is one of the cars among arbitrary frames, and one of the
\* remotes among arbitrary frames.
LEMMA SystemStep ==
    ASSUME Invariant, [Next]_vars
    PROVE  [CarNext]_carVars /\ [RemoteNext]_remoteVars
<1>1. ASSUME NEW c \in Cars, CarStep(c)
      PROVE  CarNext /\ UNCHANGED remoteVars
  BY <1>1 DEF CarStep, CarNext
<1>2. ASSUME NEW c \in Cars, CarSends(c)
      PROVE  CarNext /\ RemoteNext
  <2>1. PICK H \in SUBSET (Receivers(NextPacket(c)) \ {c}) :
            /\ Transmit(c, H \cap Cars)
            /\ RemotesHear(H \cap Remotes, SentFrame(c))
            /\ UNCHANGED <<rpc, remote_msg, rnext, rwait, rtries, rlistening>>
    BY <1>2 DEF CarSends
  <2>2. /\ H \cap Cars \in SUBSET CarListeners /\ c \notin H \cap Cars
        /\ H \cap Remotes \in SUBSET {r \in Remotes : rlistening[r]}
    BY ReceiversListen
  <2>3. SentFrame(c) \in Frame
    BY <1>2, SentFrameType DEF CarSends, Invariant
  <2>4. CarNext
    BY <2>1, <2>2 DEF CarNext
  <2>5. RemoteHears(SentFrame(c))
    BY <2>1, <2>2 DEF RemoteHears
  <2>. QED  BY <2>3, <2>4, <2>5 DEF RemoteNext
<1>3. ASSUME NEW c \in Cars, CarReset(c)
      PROVE  CarNext /\ UNCHANGED remoteVars
  BY <1>3 DEF CarReset, CarNext
<1>4. ASSUME NEW r \in Remotes, RemoteRound(r)
      PROVE  RemoteNext /\ UNCHANGED carVars
  BY <1>4 DEF RemoteRound, RemoteNext
<1>5. ASSUME NEW r \in Remotes, RemoteSends(r)
      PROVE  CarNext /\ RemoteNext
  <2>. DEFINE p == Packet(RemoteSentFrame(r), 0)
  <2>1. p.frame = RemoteSentFrame(r)
    BY PacketFrame
  <2>. HIDE DEF p
  <2>2. PICK H \in SUBSET (Receivers(p) \ {r}) :
            /\ RemoteTransmit(r)
            /\ RemotesHear(H \cap Remotes, p.frame)
            /\ Environment(p.frame, H \cap Cars)
    BY <1>5 DEF RemoteSends, p
  <2>3. /\ H \cap Cars \in SUBSET CarListeners /\ r \notin H \cap Remotes
        /\ H \cap Remotes \in SUBSET {q \in Remotes : rlistening[q]}
    BY ReceiversListen
  <2>4. RemoteSentFrame(r) \in Frame
    BY RemoteFrameType DEF Invariant
  <2>. QED  BY <2>1, <2>2, <2>3, <2>4 DEF CarNext, RemoteNext
<1>6. CASE Tick
  BY <1>6 DEF Tick, CarNext, RemoteNext
<1>7. CASE UNCHANGED vars
  BY <1>7 DEF vars
<1>. QED  BY <1>1, <1>2, <1>3, <1>4, <1>5, <1>6, <1>7 DEF Next

\* The resets are counted.
LEMMA ResetsCounted ==
    ASSUME resets \in Nat, [Next]_vars
    PROVE  resets' \in Nat
<1>1. ASSUME NEW c \in Cars, CarStep(c) \/ CarSends(c)
      PROVE  UNCHANGED resets
  BY <1>1 DEF CarStep, CarSends, Deliver
<1>2. ASSUME NEW r \in Remotes, RemoteRound(r) \/ RemoteSends(r)
      PROVE  UNCHANGED resets
  BY <1>2 DEF RemoteRound, RemoteSends, Deliver, airVars
<1>3. ASSUME NEW c \in Cars, CarReset(c)
      PROVE  resets' = resets + 1
  BY <1>3 DEF CarReset
<1>4. CASE Tick \/ UNCHANGED vars
  BY <1>4 DEF Tick, airVars, vars
<1>. QED  BY <1>1, <1>2, <1>3, <1>4 DEF Next

\* Both invariants hold in the composition.
LEMMA SystemInvariant == Spec => []Invariant
<1>1. Init => Invariant
  BY InitInvariant, RemoteInitInvariant DEF Init, Invariant
<1>2. Invariant /\ [Next]_vars => Invariant'
  BY SystemStep, ResetsCounted, StepInvariant, RemoteInvariant DEF Invariant
<1>. QED  BY <1>1, <1>2, PTL DEF Spec

\* The system with any remotes and any losses is a case of the open specifications of the
\* cars and of the remotes.
THEOREM SystemImplements == Spec => CarSpec /\ RemoteSpec
<1>1. Init => CarInit /\ RemoteInit
  BY DEF Init
<1>2. Invariant /\ [Next]_vars => [CarNext]_carVars /\ [RemoteNext]_remoteVars
  BY SystemStep
<1>. QED  BY <1>1, <1>2, SystemInvariant, PTL DEF Spec, CarSpec, RemoteSpec

\* So the theorems about cars hold in every system: a car stops without commands, is driven
\* by its own remote alone, answers with its remote's id, and its modes follow CarModes.
THEOREM CarsInSystem ==
    Spec => []DeadMan /\ []OnlyOwnRemote /\ []AckAddressing /\ ImplementsModes
  BY SystemImplements, StopsWithoutCommand, DrivenByOwnRemote, AnswersAddressed,
     Implementation, PTL

\* ... and those about remotes.
THEOREM RemotesInSystem == Spec => []RetriesExhausted
  BY SystemImplements, LostAfterRetries, PTL
-----------------------------------------------------------------------------
(***************************************************************************)
(* A remote that believes it is connected has a car.  The invariant: while *)
(* no car has lost its power, a remote that is connected, is about to be   *)
(* or has an answer in receive_ack has been adopted.  An adoption lasts,   *)
(* because a remote changes its id, and a car its remote, only once.       *)
(***************************************************************************)
USE DEF STATE_REMOTE_WAIT_FOR_CHANNEL_SELECT, STATE_REMOTE_ADVERTISE_AVAILABLE,
        STATE_REMOTE_SINGLE_MODE, STATE_REMOTE_TRUCK_POOLING_PENDING,
        STATE_REMOTE_TRUCK_POOLING_ENABLED,
        MSG_REMOTE_TYPE_ADVERTISE_AVAILABLE, MSG_REMOTE_TYPE_SINGLE_MODE_STEERING,
        MSG_REMOTE_TYPE_TRUCK_POOLING_REQUEST, MSG_REMOTE_TYPE_TRUCK_POOLING_SLAVE,
        MSG_REMOTE_TYPE_TRUCK_POOLING_STOP, MSG_CAR_TYPE_CONNECTED_TO,
        MSG_CAR_TYPE_ACKNOWLEDGE, MSG_CAR_TYPE_POOLING_SLAVE,
        MSG_CAR_TYPE_REQUEST_POOLING, MSG_CAR_TYPE_SPEED_INFO

Connected == {STATE_REMOTE_SINGLE_MODE, STATE_REMOTE_TRUCK_POOLING_PENDING,
              STATE_REMOTE_TRUCK_POOLING_ENABLED}

\* The remote has no channel yet.
Unselected(r) ==
    /\ rpc[r] = "round"
    /\ rmem[r].state = STATE_REMOTE_WAIT_FOR_CHANNEL_SELECT
    /\ rnext[r] = STATE_REMOTE_WAIT_FOR_CHANNEL_SELECT
    /\ ~rmem[r].receive_ack

\* It has one, and keeps it.
Selected(r) ==
    /\ remote_msg[r].senderID \in Channels
    /\ rnext[r] # STATE_REMOTE_WAIT_FOR_CHANNEL_SELECT
    /\ rmem[r].state = STATE_REMOTE_WAIT_FOR_CHANNEL_SELECT =>
           rpc[r] = "next" /\ ~rmem[r].receive_ack

SelectedOnce == \A r \in Remotes : Unselected(r) \/ Selected(r)

Believes(r) ==
    rmem[r].state \in Connected \/ rnext[r] \in Connected \/ rmem[r].receive_ack

BeliefJustified ==
    resets = 0 => \A r \in Remotes : Believes(r) => \E c \in Cars : Adopted(c, r)

\* A frame that becomes an answer is one the remote expects, with its id.
LEMMA NewAnswer ==
    ASSUME RemoteTypeOK, NEW G \in SUBSET Remotes, NEW f \in Frame, RemotesHear(G, f),
           NEW r \in Remotes, ~rmem[r].receive_ack, rmem'[r].receive_ack
    PROVE  f.id = remote_msg[r].senderID /\ f.type \in AnswersExpected(rmem[r].state)
<1>. DEFINE m == rmem[r]
<1>1. m \in RemoteMemory
  BY DEF RemoteTypeOK, RemoteMemory
<1>2. rmem'[r] = RemoteHandler(m, remote_msg[r].senderID, f)
  BY DEF RemotesHear
<1>3. f.id = remote_msg[r].senderID
  BY <1>2 DEF RemoteHandler
<1>. DEFINE ack == m.receive_ack \/ f.type \in AnswersExpected(m.state)
<1>4. rmem'[r] = [m EXCEPT !.car_type = f.type, !.receive_ack = ack]
  BY <1>2, <1>3 DEF RemoteHandler
<1>. HIDE DEF ack
<1>5. rmem'[r].receive_ack = ack
  BY <1>1, <1>4 DEF RemoteMemory
<1>. QED  BY <1>3, <1>5 DEF ack

\* A frame is no answer before a channel is selected.
LEMMA HearSelected ==
    ASSUME RemoteTypeOK, SelectedOnce, NEW G \in SUBSET Remotes, NEW f \in Frame,
           RemotesHear(G, f), UNCHANGED <<remote_msg, rnext>>,
           \A r \in Remotes : rpc'[r] = rpc[r] \/ rpc[r] = "transmit"
    PROVE  SelectedOnce'
<1>. SUFFICES ASSUME NEW r \in Remotes
              PROVE  (Unselected(r) \/ Selected(r))'
  BY DEF SelectedOnce
<1>1. rmem'[r].state = rmem[r].state
  BY RemotesHearEffect
<1>2. rmem[r].state = STATE_REMOTE_WAIT_FOR_CHANNEL_SELECT /\ ~rmem[r].receive_ack
          => ~rmem'[r].receive_ack
  BY NewAnswer DEF AnswersExpected
<1>3. Unselected(r) \/ Selected(r)
  BY DEF SelectedOnce
<1>. QED  BY <1>1, <1>2, <1>3 DEF Unselected, Selected

\* The remote's main loop selects a channel once.
LEMMA RoundSelected ==
    ASSUME RemoteTypeOK, SelectedOnce, NEW r \in Remotes, RemoteStep(r)
    PROVE  SelectedOnce'
<1>. USE DEF RGoto
<1>1. SUFFICES ASSUME NEW q \in Remotes
               PROVE  (Unselected(q) \/ Selected(q))'
  BY DEF SelectedOnce
<1>2. Unselected(q) \/ Selected(q)
  BY DEF SelectedOnce
<1>3. CASE q # r
  <2>1. /\ rpc'[q] = rpc[q] /\ rmem'[q] = rmem[q] /\ remote_msg'[q] = remote_msg[q]
        /\ rnext'[q] = rnext[q]
    BY <1>3 DEF RemoteStep, SelectChannel, Advertise, Sample, SampleTurn, Sampled, BeginSend,
                Answered, Unanswered, Return, EndRound, Delayed, RemoteTypeOK
  <2>. QED  BY <1>2, <2>1 DEF Unselected, Selected
<1>4. CASE q = r /\ SelectChannel(r)
  <2>1. Unselected(r)
    BY <1>2, <1>4 DEF SelectChannel, Selected
  <2>. QED  BY <1>4, <2>1 DEF SelectChannel, Unselected, Selected, RemoteTypeOK, RemoteMessage
<1>5. CASE q = r /\ ~SelectChannel(r)
  <2>1. Selected(r) /\ (rmem[r].state # STATE_REMOTE_WAIT_FOR_CHANNEL_SELECT \/ EndRound(r))
    BY <1>2, <1>5 DEF RemoteStep, SelectChannel, Advertise, Sample, SampleTurn, BeginSend,
                      Answered, Unanswered, Return, EndRound, Delayed, Unselected, Selected
  <2>2. CASE Advertise(r) \/ Sample(r) \/ SampleTurn(r)
    BY <1>5, <2>1, <2>2
       DEF Advertise, Sample, SampleTurn, Sampled, Selected, RemoteTypeOK, RemoteMessage
  <2>3. CASE BeginSend(r) \/ Answered(r) \/ Unanswered(r) \/ Delayed(r)
    BY <1>5, <2>1, <2>3
       DEF BeginSend, Answered, Unanswered, Delayed, Selected, RemoteTypeOK
  <2>4. CASE Return(r)
    BY <1>5, <2>1, <2>4 DEF Return, Selected, RemoteTypeOK
  <2>5. CASE EndRound(r)
    BY <1>5, <2>1, <2>5 DEF EndRound, Selected, RemoteTypeOK
  <2>. QED  BY <1>5, <2>2, <2>3, <2>4, <2>5 DEF RemoteStep
<1>. QED  BY <1>3, <1>4, <1>5

\* An adoption lasts while the car keeps its remote, or gets its first.
LEMMA AdoptionLasts ==
    ASSUME NEW r \in Remotes, 0 \notin Channels, remote_msg[r].senderID \in Channels,
           remote_msg'[r].senderID = remote_msg[r].senderID,
           \A c \in Cars : my_id[c] = 0 \/ my_id'[c] = my_id[c],
           \E c \in Cars : Adopted(c, r)
    PROVE  (\E c \in Cars : Adopted(c, r))'
  BY DEF Adopted

\* A step of a car other than a reset gives it its first remote at most.
LEMMA CarKeepsRemote ==
    ASSUME TypeOK, LoopInv, NEW c \in Cars,
           LocalStep(c) \/ (\E H \in SUBSET Cars : Transmit(c, H))
    PROVE  \A d \in Cars : my_id[d] = 0 \/ my_id'[d] = my_id[d]
<1>1. CASE LocalStep(c) /\ ~Booted(c) /\ ~Adopt(c)
  BY <1>1 DEF LocalStep, Clear, Listen, Heard, TimedOut, DropState, DropNext, Dispatch, Halt,
              Await, ReadTurn, SetMotors, SetFollow, SlaveListen, SlaveHeard, SlaveTimedOut,
              MasterAcked, MasterTimedOut, EndBody
<1>2. CASE Booted(c)
  <2>1. my_id[c] = 0
    BY <1>2 DEF Booted, Goto, LoopInv, Coherent
  <2>. QED  BY <1>2, <2>1 DEF Booted, TypeOK
<1>3. CASE Adopt(c)
  BY <1>3 DEF Adopt, TypeOK
<1>4. CASE \E H \in SUBSET Cars : Transmit(c, H)
  BY <1>4 DEF Transmit, SendAck, SendRequest, SendSpeed
<1>. QED  BY <1>1, <1>2, <1>3, <1>4

\* An answer comes from the car that has adopted the remote (AckAddressing); a remote is
\* never an answer.
LEMMA AnswerJustified ==
    ASSUME TypeOK, LoopInv, RemoteTypeOK, NEW r \in Remotes, NEW f \in Frame,
           f.id = remote_msg[r].senderID, f.type \in AnswersExpected(rmem[r].state),
           \/ \E q \in Remotes : f = RemoteSentFrame(q)
           \/ \E c \in Cars : Transmitting(c) /\ f = SentFrame(c)
    PROVE  \E c \in Cars : Adopted(c, r)
<1>1. f.type \in {MSG_CAR_TYPE_CONNECTED_TO, MSG_CAR_TYPE_ACKNOWLEDGE,
                  MSG_CAR_TYPE_POOLING_SLAVE}
  BY DEF AnswersExpected
<1>2. ~\E q \in Remotes : f = RemoteSentFrame(q)
  BY <1>1, SMTT(30) DEF RemoteSentFrame, RemoteFrame, RemoteTypeOK, RemoteMessage, RemoteTypes
<1>3. PICK c \in Cars : Transmitting(c) /\ f = SentFrame(c)
  BY <1>2
<1>4. SentFrame(c).id = my_id[c]
  BY <1>1, <1>3, AddressedAlways DEF AckAddressing
<1>. QED  BY <1>3, <1>4 DEF Adopted

\* What a transmission makes the remotes believe is justified.
LEMMA HearJustified ==
    ASSUME TypeOK, LoopInv, RemoteTypeOK, SelectedOnce, BeliefJustified, 0 \notin Channels,
           NEW G \in SUBSET Remotes, NEW f \in Frame, RemotesHear(G, f),
           \/ \E q \in Remotes : f = RemoteSentFrame(q)
           \/ \E c \in Cars : Transmitting(c) /\ f = SentFrame(c),
           \A c \in Cars : my_id[c] = 0 \/ my_id'[c] = my_id[c],
           UNCHANGED <<remote_msg, rnext, resets>>
    PROVE  BeliefJustified'
<1>. SUFFICES ASSUME resets = 0, NEW r \in Remotes, Believes(r)'
              PROVE  (\E c \in Cars : Adopted(c, r))'
  BY DEF BeliefJustified
<1>1. rmem'[r].state = rmem[r].state
  BY RemotesHearEffect
<1>2. CASE Believes(r)
  <2>1. \E c \in Cars : Adopted(c, r)
    BY <1>2 DEF BeliefJustified
  <2>2. Selected(r)
    BY <1>2 DEF SelectedOnce, Unselected, Believes, Connected
  <2>. QED  BY <2>1, <2>2, AdoptionLasts DEF Selected
<1>3. CASE ~Believes(r)
  <2>1. ~rmem[r].receive_ack /\ rmem'[r].receive_ack
    BY <1>1, <1>3 DEF Believes
  <2>2. f.id = remote_msg[r].senderID /\ f.type \in AnswersExpected(rmem[r].state)
    BY <2>1, NewAnswer
  <2>3. \E c \in Cars : Adopted(c, r)
    BY <2>2, AnswerJustified
  <2>4. Selected(r)
    BY <2>2 DEF SelectedOnce, Unselected, AnswersExpected
  <2>. QED  BY <2>3, <2>4, AdoptionLasts DEF Selected
<1>. QED  BY <1>2, <1>3

\* The main loop of a remote believes what an answer justified.
LEMMA RoundJustified ==
    ASSUME RemoteTypeOK, SelectedOnce, BeliefJustified, 0 \notin Channels,
           NEW r \in Remotes, RemoteStep(r), UNCHANGED <<my_id, resets>>
    PROVE  BeliefJustified'
<1>. USE DEF RGoto
<1>. SUFFICES ASSUME resets = 0, NEW q \in Remotes, Believes(q)'
              PROVE  (\E c \in Cars : Adopted(c, q))'
  BY DEF BeliefJustified
<1>1. Believes(q) /\ remote_msg'[q].senderID = remote_msg[q].senderID
  <2>1. CASE q # r
    <3>1. rmem'[q] = rmem[q] /\ remote_msg'[q] = remote_msg[q] /\ rnext'[q] = rnext[q]
      BY <2>1 DEF RemoteStep, SelectChannel, Advertise, Sample, SampleTurn, Sampled, BeginSend,
                  Answered, Unanswered, Return, EndRound, Delayed, RemoteTypeOK
    <3>. QED  BY <3>1 DEF Believes
  <2>2. CASE q = r /\ SelectChannel(r)
    <3>1. Unselected(r)
      BY <2>2 DEF SelectChannel, SelectedOnce, Selected
    <3>2. rmem'[r] = rmem[r] /\ rnext'[r] = STATE_REMOTE_ADVERTISE_AVAILABLE
      BY <2>2 DEF SelectChannel, RemoteTypeOK
    <3>. QED  BY <2>2, <3>1, <3>2 DEF Believes, Unselected, Connected
  <2>3. CASE q = r /\ (Advertise(r) \/ Sample(r))
    BY <2>3 DEF Advertise, Sample, Sampled, Believes, RemoteTypeOK, RemoteMessage
  <2>4. CASE q = r /\ SampleTurn(r)
    BY <2>4 DEF SampleTurn, Sampled, Believes, Connected, RemoteTypeOK, RemoteMessage
  <2>5. CASE q = r /\ BeginSend(r)
    BY <2>5 DEF BeginSend, Believes, RemoteTypeOK
  <2>6. CASE q = r /\ (Answered(r) \/ Unanswered(r) \/ Delayed(r))
    BY <2>6 DEF Answered, Unanswered, Delayed, Believes
  <2>7. CASE q = r /\ Return(r)
    BY <2>7 DEF Return, Believes, Connected, RemoteTypeOK
  <2>8. CASE q = r /\ EndRound(r)
    BY <2>8 DEF EndRound, Believes, RemoteTypeOK
  <2>. QED  BY <2>1, <2>2, <2>3, <2>4, <2>5, <2>6, <2>7, <2>8 DEF RemoteStep
<1>2. \E c \in Cars : Adopted(c, q)
  BY <1>1 DEF BeliefJustified
<1>. QED  BY <1>1, <1>2 DEF Adopted

\* Every step of the system keeps both.
LEMMA BeliefInvariant ==
    ASSUME Invariant, SelectedOnce, BeliefJustified, 0 \notin Channels, [Next]_vars
    PROVE  SelectedOnce' /\ BeliefJustified'
<1>. USE DEF Invariant
<1>1. ASSUME NEW c \in Cars, CarStep(c)
      PROVE  SelectedOnce' /\ BeliefJustified'
  <2>1. \A d \in Cars : my_id[d] = 0 \/ my_id'[d] = my_id[d]
    BY <1>1, CarKeepsRemote DEF CarStep
  <2>2. UNCHANGED <<rpc, rmem, remote_msg, rnext, resets>>
    BY <1>1 DEF CarStep, remoteVars
  <2>3. SelectedOnce'
    BY <2>2 DEF SelectedOnce, Selected, Unselected
  <2>4. BeliefJustified'
    <3>. SUFFICES ASSUME resets = 0, NEW r \in Remotes, Believes(r)
                  PROVE  (\E d \in Cars : Adopted(d, r))'
      BY <2>2 DEF BeliefJustified, Believes
    <3>1. \E d \in Cars : Adopted(d, r)
      BY DEF BeliefJustified
    <3>2. Selected(r)
      BY DEF SelectedOnce, Unselected, Believes, Connected
    <3>. QED  BY <2>1, <2>2, <3>1, <3>2, AdoptionLasts DEF Selected
  <2>. QED  BY <2>3, <2>4
<1>2. ASSUME NEW c \in Cars, CarSends(c)
      PROVE  SelectedOnce' /\ BeliefJustified'
  <2>1. PICK H \in SUBSET (Receivers(NextPacket(c)) \ {c}) :
            /\ Deliver(c, NextPacket(c), H)
            /\ Transmit(c, H \cap Cars)
            /\ RemotesHear(H \cap Remotes, SentFrame(c))
            /\ UNCHANGED <<rpc, remote_msg, rnext, rwait, rtries, rlistening>>
    BY <1>2 DEF CarSends
  <2>2. Transmitting(c) /\ SentFrame(c) \in Frame /\ UNCHANGED resets
    BY <1>2, <2>1, SentFrameType DEF CarSends, Deliver
  <2>3. \A d \in Cars : my_id[d] = 0 \/ my_id'[d] = my_id[d]
    BY <2>1, CarKeepsRemote
  <2>4. SelectedOnce'
    BY <2>1, <2>2, HearSelected
  <2>5. BeliefJustified'
    BY <2>1, <2>2, <2>3, HearJustified
  <2>. QED  BY <2>4, <2>5
<1>3. ASSUME NEW c \in Cars, CarReset(c)
      PROVE  SelectedOnce' /\ BeliefJustified'
  <2>1. UNCHANGED <<rpc, rmem, remote_msg, rnext>>
    BY <1>3 DEF CarReset, remoteVars
  <2>2. SelectedOnce'
    BY <2>1 DEF SelectedOnce, Selected, Unselected
  <2>3. resets' # 0
    BY <1>3 DEF CarReset
  <2>. QED  BY <2>2, <2>3 DEF BeliefJustified
<1>4. ASSUME NEW r \in Remotes, RemoteRound(r)
      PROVE  SelectedOnce' /\ BeliefJustified'
  BY <1>4, RoundSelected, RoundJustified DEF RemoteRound, carVars, airVars
<1>5. ASSUME NEW r \in Remotes, RemoteSends(r)
      PROVE  SelectedOnce' /\ BeliefJustified'
  <2>. DEFINE p == Packet(RemoteSentFrame(r), 0)
  <2>1. p.frame = RemoteSentFrame(r) /\ RemoteSentFrame(r) \in Frame
    BY PacketFrame, RemoteFrameType
  <2>. HIDE DEF p
  <2>2. PICK H \in SUBSET (Receivers(p) \ {r}) :
            /\ Deliver(r, p, H)
            /\ RemoteTransmit(r)
            /\ RemotesHear(H \cap Remotes, p.frame)
            /\ Environment(p.frame, H \cap Cars)
    BY <1>5 DEF RemoteSends, p
  <2>3. /\ UNCHANGED <<remote_msg, rnext, my_id, resets>>
        /\ \A q \in Remotes : rpc'[q] = rpc[q] \/ rpc[q] = "transmit"
    BY <2>2 DEF Deliver, RemoteTransmit, RGoto, Environment, RemoteTypeOK
  <2>4. SelectedOnce'
    BY <2>1, <2>2, <2>3, HearSelected
  <2>5. BeliefJustified'
    BY <2>1, <2>2, <2>3, HearJustified
  <2>. QED  BY <2>4, <2>5
<1>6. CASE Tick \/ UNCHANGED vars
  <2>1. UNCHANGED <<rpc, rmem, remote_msg, rnext, my_id, resets>>
    BY <1>6 DEF Tick, CarsTick, RemotesTick, airVars, vars, carVars, remoteVars
  <2>. QED  BY <2>1 DEF SelectedOnce, Selected, Unselected, BeliefJustified, Believes, Adopted
<1>. QED  BY <1>1, <1>2, <1>3, <1>4, <1>5, <1>6 DEF Next

\* While no car has lost its power, a remote that believes it is connected has been
\* adopted by a car, whatever frames are lost and whoever else is on the channel, if the
\* user's channel is never read as 0 (remote main.c:247 can read 0).
THEOREM ConnectionsReal ==
    ASSUME 0 \notin Channels
    PROVE  Spec => []ConnectedMeansAdopted
<1>1. Init => SelectedOnce /\ BeliefJustified
  BY DEF Init, RemoteInit, SelectedOnce, Unselected, BeliefJustified, Believes, Connected
<1>2. Invariant /\ SelectedOnce /\ BeliefJustified /\ [Next]_vars
          => (SelectedOnce /\ BeliefJustified)'
  BY BeliefInvariant
<1>3. BeliefJustified => ConnectedMeansAdopted
  BY DEF BeliefJustified, Believes, Connected, ConnectedMeansAdopted
<1>. QED  BY <1>1, <1>2, <1>3, SystemInvariant, PTL DEF Spec
-----------------------------------------------------------------------------
(***************************************************************************)
(* A car that becomes a slave has a master.  The invariant: a car whose    *)
(* next state is SLAVE has a message to act upon, so it runs and no time   *)
(* passes, and the master whose SPEED_INFO it heard can not leave its mode *)
(* before time does.  A car with nothing to act upon can not hear one: the *)
(* radio does not receive from the answer to the next wait.                *)
(***************************************************************************)
USE DEF STATE_CAR_WAIT_FOR_REMOTE, STATE_CAR_SINGLE_MODE, STATE_CAR_TRUCK_POOLING_PENDING,
        STATE_CAR_TRUCK_POOLING_SLAVE, STATE_CAR_TRUCK_POOLING_MASTER,
        MSG_CAR_TYPE_ACKNOWLEDGE_MASTER

SteeredModes == {STATE_CAR_SINGLE_MODE, STATE_CAR_TRUCK_POOLING_PENDING}

\* The radio is off between the answer and the next wait, in the modes of a driven car.
Deaf(c) ==
    /\ pc[c] \in {"request", "end"} /\ body[c] \in SteeredModes \cup {STATE_CAR_WAIT_FOR_REMOTE}
           => ~listening[c]
    /\ pc[c] \in {"clear", "enter"} /\ mem[c].state \in SteeredModes => ~listening[c]

\* The next state is SLAVE.
Joining(c) == /\ mem[c].state = STATE_CAR_TRUCK_POOLING_PENDING
              /\ mem[c].next_state = STATE_CAR_TRUCK_POOLING_SLAVE

\* A master that time alone can stop.
Leading(c) == /\ mem[c].state = STATE_CAR_TRUCK_POOLING_MASTER
              /\ pc[c] # "drop"
              /\ pc[c] = "listen" => wait[c] > 0

Running(c) == pc[c] \notin {"clear", "enter"} /\ (pc[c] = "listen" => mem[c].recevice_message)

DeafAll == \A c \in Cars : Deaf(c)

Joined == \A c \in Cars : Joining(c) => Running(c) /\ \E d \in Cars \ {c} : Leading(d)

\* A frame makes a car join only if it is SPEED_INFO, and never takes a message back.
LEMMA HandlerJoins ==
    ASSUME NEW m \in Memory, NEW id \in Ids, NEW f \in Frame, NEW n,
           n = EventHandler(m, id, f)
    PROVE  /\ \/ n.state = m.state
              \/ /\ m.state = STATE_CAR_SINGLE_MODE
                 /\ n.state = STATE_CAR_TRUCK_POOLING_PENDING
                 /\ n.next_state = STATE_CAR_TRUCK_POOLING_PENDING
           /\ m.recevice_message => n.recevice_message
           /\ \/ n.next_state = m.next_state
              \/ n.next_state # STATE_CAR_TRUCK_POOLING_SLAVE
              \/ f.type = MSG_CAR_TYPE_SPEED_INFO /\ n.recevice_message
<1>1. CASE f.id = id
  <2>1. n = OwnFrame(m, f)
    BY <1>1 DEF EventHandler
  <2>. DEFINE s == Stored(m, f)
  <2>2. s \in Memory
    BY MemoryUpdates
  <2>3. /\ s.state = m.state /\ s.next_state = m.next_state
        /\ s.recevice_message = m.recevice_message
    BY DEF Stored, Memory
  <2>4. \/ n = s
        \/ n = [s EXCEPT !.recevice_message = TRUE]
        \/ n = [s EXCEPT !.slave_message = TRUE]
        \/ n = [s EXCEPT !.next_state = STATE_CAR_SINGLE_MODE, !.recevice_message = TRUE]
        \/ /\ m.state = STATE_CAR_SINGLE_MODE
           /\ n = [s EXCEPT !.state = STATE_CAR_TRUCK_POOLING_PENDING,
                            !.next_state = STATE_CAR_TRUCK_POOLING_PENDING,
                            !.recevice_message = TRUE]
    <3>. HIDE DEF s
    <3>. QED  BY <2>1, Zenon DEF OwnFrame, s
  <2>. HIDE DEF s
  <2>5. /\ n.state = m.state \/ (/\ m.state = STATE_CAR_SINGLE_MODE
                               /\ n.state = STATE_CAR_TRUCK_POOLING_PENDING
                               /\ n.next_state = STATE_CAR_TRUCK_POOLING_PENDING)
        /\ n.recevice_message = m.recevice_message \/ n.recevice_message = TRUE
        /\ \/ n.next_state = m.next_state
           \/ n.next_state = STATE_CAR_SINGLE_MODE
           \/ n.next_state = STATE_CAR_TRUCK_POOLING_PENDING
    BY <2>2, <2>3, <2>4 DEF Memory
  <2>. QED  BY <2>5
<1>2. CASE f.id # id
  <2>1. n = OtherFrame(m, id, f)
    BY <1>2 DEF EventHandler
  <2>. QED  BY <2>1 DEF OtherFrame, Stored, Memory
<1>. QED  BY <1>1, <1>2

\* SPEED_INFO comes from a master in its repeat loop (car main.c:276-290).
LEMMA SpeedFromMaster ==
    ASSUME TypeOK, LoopInv, NEW c \in Cars, Transmitting(c),
           SentFrame(c).type = MSG_CAR_TYPE_SPEED_INFO
    PROVE  pc[c] = "feed" /\ mem[c].state = STATE_CAR_TRUCK_POOLING_MASTER
<1>1. /\ AnswerInv(pc[c], body[c], mem[c], my_id[c], car_msg[c])
      /\ BodyInv(pc[c], body[c], mem[c])
  BY DEF LoopInv, Coherent
<1>2. pc[c] \notin {"ack", "reply"}
  BY <1>1 DEF AnswerInv, SentFrame, CarFrame, Message
<1>3. pc[c] # "request"
  BY DEF SentFrame, CarFrame
<1>. QED  BY <1>1, <1>2, <1>3 DEF Transmitting, BodyInv, InBody

\* What a step of one car does to another that may hear it.
LEMMA HearJoined ==
    ASSUME TypeOK, NEW c \in Cars, NEW f \in Frame, Deaf(c),
           Joining(c) => Running(c),
           \/ mem'[c] = mem[c]
           \/ mem'[c] = EventHandler(mem[c], my_id[c], f) /\ listening[c],
           pc'[c] = pc[c], body'[c] = body[c], listening'[c] = listening[c],
           wait'[c] = wait[c]
    PROVE  /\ Deaf(c)' /\ (Joining(c)' => Running(c)')
           /\ Joining(c)' => Joining(c) \/ f.type = MSG_CAR_TYPE_SPEED_INFO
           /\ Leading(c) => Leading(c)'
<1>0. mem[c] \in Memory /\ my_id[c] \in Ids
  BY DEF TypeOK
<1>1. CASE mem'[c] = mem[c]
  BY <1>1 DEF Deaf, Joining, Running, Leading
<1>2. CASE mem'[c] = EventHandler(mem[c], my_id[c], f) /\ listening[c]
  <2>. DEFINE n == mem'[c]
  <2>1. /\ \/ n.state = mem[c].state
           \/ /\ mem[c].state = STATE_CAR_SINGLE_MODE
              /\ n.state = STATE_CAR_TRUCK_POOLING_PENDING
              /\ n.next_state = STATE_CAR_TRUCK_POOLING_PENDING
        /\ mem[c].recevice_message => n.recevice_message
        /\ \/ n.next_state = mem[c].next_state
           \/ n.next_state # STATE_CAR_TRUCK_POOLING_SLAVE
           \/ f.type = MSG_CAR_TYPE_SPEED_INFO /\ n.recevice_message
    BY <1>0, <1>2, HandlerJoins
  <2>. HIDE DEF n
  <2>2. mem'[c] = n
    BY DEF n
  <2>3. Deaf(c)'
    BY <1>2, <2>1, <2>2 DEF Deaf, SteeredModes
  <2>4. Joining(c)' => /\ mem[c].state = STATE_CAR_TRUCK_POOLING_PENDING
                       /\ Joining(c) \/ (f.type = MSG_CAR_TYPE_SPEED_INFO /\ n.recevice_message)
    BY <2>1, <2>2 DEF Joining
  <2>5. Joining(c)' => Running(c)'
    BY <1>2, <2>1, <2>2, <2>4 DEF Running, Deaf, SteeredModes
  <2>6. Leading(c) => Leading(c)'
    BY <2>1, <2>2 DEF Leading
  <2>. QED  BY <2>3, <2>4, <2>5, <2>6
<1>. QED  BY <1>1, <1>2

\* A step of the main loop alone: it joins nothing, it loses no time while it joins, and
\* a master stays one.
LEMMA LocalJoined ==
    ASSUME TypeOK, LoopInv, NEW c \in Cars, LocalStep(c), Deaf(c),
           Joining(c) => Running(c)
    PROVE  /\ Deaf(c)' /\ (Joining(c)' => Joining(c) /\ Running(c)')
           /\ Leading(c) => Leading(c)'
<1>0. /\ mem[c] \in Memory
      /\ Coherent(pc[c], body[c], mem[c], my_id[c], car_msg[c], motors[c])
  BY DEF TypeOK, LoopInv
<1>1. NextInv(pc[c], mem[c]) /\ BodyInv(pc[c], body[c], mem[c])
  BY <1>0 DEF Coherent
<1>. USE DEF Goto
<1>2. CASE Booted(c)
  <2>1. /\ mem'[c] = mem[c] /\ pc'[c] = "clear"
        /\ mem[c].state = STATE_CAR_WAIT_FOR_REMOTE
    BY <1>1, <1>2 DEF Booted, TypeOK, NextInv
  <2>. QED  BY <2>1 DEF Deaf, Joining, Running, Leading, SteeredModes
<1>3. CASE Clear(c)
  <2>1. /\ pc[c] = "clear" /\ pc'[c] = "enter" /\ listening'[c] = listening[c]
        /\ mem'[c].state = mem[c].state /\ mem'[c].next_state = mem[c].next_state
    BY <1>0, <1>3 DEF Clear, TypeOK, Memory
  <2>. QED  BY <2>1 DEF Deaf, Joining, Running, Leading, SteeredModes
<1>4. CASE Listen(c)
  <2>1. /\ pc[c] = "enter" /\ pc'[c] = "listen" /\ mem'[c] = mem[c] /\ wait'[c] > 0
    BY <1>4, CarAssumption DEF Listen, TypeOK
  <2>. QED  BY <2>1 DEF Deaf, Joining, Running, Leading, SteeredModes
<1>5. CASE Heard(c) \/ Dispatch(c) \/ ReadTurn(c)
  <2>1. /\ pc[c] \in {"listen", "dispatch", "steer"} /\ mem'[c] = mem[c]
        /\ pc'[c] \in {"dispatch", "halt", "follow", "steer", "steer_x"}
    BY <1>5 DEF Heard, Dispatch, ReadTurn, TypeOK
  <2>. QED  BY <2>1 DEF Deaf, Joining, Running, Leading, SteeredModes
<1>6. CASE TimedOut(c)
  <2>1. /\ pc[c] = "listen" /\ mem'[c] = mem[c] /\ pc'[c] = "drop"
        /\ wait[c] = 0
    BY <1>6 DEF TimedOut, TypeOK
  <2>. QED  BY <2>1 DEF Deaf, Joining, Running, Leading, SteeredModes
<1>7. CASE DropState(c)
  <2>1. /\ pc[c] = "drop" /\ mem'[c].state = STATE_CAR_WAIT_FOR_REMOTE /\ pc'[c] = "drop_next"
    BY <1>0, <1>7 DEF DropState, TypeOK, Memory
  <2>. QED  BY <2>1 DEF Deaf, Joining, Running, Leading, SteeredModes
<1>8. CASE DropNext(c)
  <2>1. /\ pc[c] = "drop_next" /\ mem'[c].state = STATE_CAR_WAIT_FOR_REMOTE
        /\ mem[c].state = STATE_CAR_WAIT_FOR_REMOTE /\ pc'[c] = "dispatch"
    BY <1>0, <1>1, <1>8 DEF DropNext, TypeOK, Memory, NextInv
  <2>. QED  BY <2>1 DEF Deaf, Joining, Running, Leading, SteeredModes
<1>9. CASE Halt(c) \/ Await(c) \/ Adopt(c) \/ SetMotors(c) \/ SetFollow(c) \/ SlaveHeard(c)
  <2>1. /\ mem'[c] = mem[c]
        /\ pc'[c] \in {"await", "adopt", "ack", "reply"}
        /\ pc[c] \in {"halt", "await", "adopt", "steer_x", "follow", "slave_listen"}
    BY <1>9 DEF Halt, Await, Adopt, SetMotors, SetFollow, SlaveHeard, TypeOK
  <2>. QED  BY <2>1 DEF Deaf, Joining, Running, Leading, SteeredModes
<1>10. CASE SlaveListen(c) \/ SlaveTimedOut(c)
  <2>1. /\ pc[c] \in {"slave", "slave_listen"} /\ pc'[c] \in {"slave_listen", "end"}
        /\ mem'[c].state = mem[c].state /\ body'[c] = body[c]
    BY <1>0, <1>10 DEF SlaveListen, SlaveTimedOut, TypeOK, Memory
  <2>2. mem[c].state = STATE_CAR_TRUCK_POOLING_SLAVE /\ body[c] = STATE_CAR_TRUCK_POOLING_SLAVE
    BY <1>1, <2>1 DEF BodyInv, InBody
  <2>. QED  BY <2>1, <2>2 DEF Deaf, Joining, Running, Leading, SteeredModes
<1>11. CASE MasterAcked(c) \/ MasterTimedOut(c)
  <2>1. /\ pc[c] = "feed_listen" /\ pc'[c] \in {"feed", "end"} /\ mem'[c] = mem[c]
        /\ body'[c] = body[c]
    BY <1>11 DEF MasterAcked, MasterTimedOut, TypeOK
  <2>2. body[c] = STATE_CAR_TRUCK_POOLING_MASTER
    BY <1>1, <2>1 DEF BodyInv
  <2>. QED  BY <2>1, <2>2 DEF Deaf, Joining, Running, Leading, SteeredModes
<1>12. CASE EndBody(c)
  <2>1. /\ pc[c] = "end" /\ pc'[c] = "clear" /\ listening'[c] = listening[c]
        /\ mem'[c].state = mem[c].next_state /\ mem'[c].next_state = mem[c].next_state
    BY <1>0, <1>12 DEF EndBody, TypeOK, Memory
  <2>2. mem[c].next_state \in SteeredModes => ~listening[c]
    BY <1>0, <1>1, <2>1 DEF Deaf, SteeredModes, BodyInv, InBody, NextInv, Memory, CarStates
  <2>3. Leading(c) => Leading(c)'
    BY <1>1, <2>1 DEF Leading, NextInv
  <2>. QED  BY <2>1, <2>2, <2>3 DEF Deaf, Joining
<1>. QED
  BY <1>2, <1>3, <1>4, <1>5, <1>6, <1>7, <1>8, <1>9, <1>10, <1>11, <1>12 DEF LocalStep

\* So does the sender of a transmission.
LEMMA SenderJoined ==
    ASSUME TypeOK, LoopInv, NEW c \in Cars, NEW H \in SUBSET Cars, c \notin H,
           Transmit(c, H), Deaf(c), Joining(c) => Running(c)
    PROVE  /\ Deaf(c)' /\ (Joining(c)' => Joining(c) /\ Running(c)')
           /\ Leading(c) => Leading(c)'
           /\ mem[c].state = STATE_CAR_TRUCK_POOLING_MASTER /\ pc[c] = "feed" => Leading(c)'
<1>0. mem[c] \in Memory
  BY DEF TypeOK
<1>1. BodyInv(pc[c], body[c], mem[c])
  BY DEF LoopInv, Coherent
<1>2. CASE SendAck(c, H)
  <2>1. /\ pc[c] \in {"ack", "reply"} /\ pc'[c] \in {"request", "feed", "slave", "end"}
        /\ mem'[c] = mem[c] /\ ~listening'[c]
    BY <1>2 DEF SendAck, CarsHear, TypeOK
  <2>. QED  BY <2>1 DEF Deaf, Joining, Running, Leading
<1>3. CASE SendRequest(c, H)
  <2>1. /\ pc[c] = "request" /\ pc'[c] \in {"request", "end"}
        /\ mem'[c] = mem[c] /\ listening'[c] = listening[c]
        /\ body[c] = STATE_CAR_TRUCK_POOLING_PENDING
    BY <1>1, <1>3 DEF SendRequest, CarsHear, TypeOK, BodyInv
  <2>. QED  BY <2>1 DEF Deaf, Joining, Running, Leading, SteeredModes
<1>4. CASE SendSpeed(c, H)
  <2>1. /\ pc[c] = "feed" /\ pc'[c] = "feed_listen"
        /\ mem'[c] = [mem[c] EXCEPT !.receive_ack = FALSE]
    BY <1>4 DEF SendSpeed, TypeOK
  <2>2. mem'[c].state = mem[c].state /\ mem'[c].next_state = mem[c].next_state
    BY <1>0, <2>1 DEF Memory
  <2>. QED  BY <2>1, <2>2 DEF Deaf, Joining, Running, Leading
<1>. QED  BY <1>2, <1>3, <1>4 DEF Transmit

\* Neither touches the delay loop or the radio of another car.
LEMMA OthersWait ==
    ASSUME TypeOK, NEW c \in Cars, NEW d \in Cars \ {c},
           LocalStep(c) \/ \E H \in SUBSET Cars : Transmit(c, H)
    PROVE  wait'[d] = wait[d] /\ listening'[d] = listening[d]
<1>1. CASE LocalStep(c)
  BY <1>1 DEF LocalStep, Booted, Clear, Listen, Heard, TimedOut, DropState, DropNext, Dispatch,
              Halt, Await, Adopt, ReadTurn, SetMotors, SetFollow, SlaveListen, SlaveHeard,
              SlaveTimedOut, MasterAcked, MasterTimedOut, EndBody, TypeOK
<1>2. CASE \E H \in SUBSET Cars : Transmit(c, H)
  BY <1>2 DEF Transmit, SendAck, SendRequest, SendSpeed, TypeOK
<1>. QED  BY <1>1, <1>2

\* A transmission reaches another car's memory through its event handler alone.
LEMMA OthersHear ==
    ASSUME TypeOK, NEW c \in Cars, NEW d \in Cars \ {c}, NEW H \in SUBSET Cars, Transmit(c, H)
    PROVE  /\ pc'[d] = pc[d] /\ body'[d] = body[d]
           /\ \/ mem'[d] = mem[d]
              \/ mem'[d] = EventHandler(mem[d], my_id[d], SentFrame(c)) /\ d \in H
  BY DEF Transmit, SendAck, SendRequest, SendSpeed, CarsHear, TypeOK

\* A car that joins runs, so time does not pass.
LEMMA JoiningRuns ==
    ASSUME TypeOK, LoopInv, NEW c \in Cars, Joining(c), Running(c)
    PROVE  ~Idle(c)
<1>1. NextInv(pc[c], mem[c]) /\ BodyInv(pc[c], body[c], mem[c])
  BY DEF LoopInv, Coherent
<1>. QED  BY <1>1 DEF Joining, Running, Idle, NextInv, BodyInv, InBody

\* Every step of a system whose cars keep their power keeps both.
LEMMA JoinedInvariant ==
    ASSUME Invariant, DeafAll, Joined, MaxResets = 0, [Next]_vars
    PROVE  DeafAll' /\ Joined'
<1>. USE DEF Invariant
<1>0. \A c \in Cars : Deaf(c) /\ (Joining(c) => Running(c))
  BY DEF DeafAll, Joined
<1>1. ASSUME NEW c \in Cars, CarStep(c)
      PROVE  DeafAll' /\ Joined'
  <2>1. LocalStep(c)
    BY <1>1 DEF CarStep
  <2>2. \A d \in Cars : d # c => /\ pc'[d] = pc[d] /\ body'[d] = body[d] /\ mem'[d] = mem[d]
                                /\ wait'[d] = wait[d] /\ listening'[d] = listening[d]
    BY <2>1, OthersUndisturbed, OthersWait
  <2>3. /\ Deaf(c)' /\ (Joining(c)' => Joining(c) /\ Running(c)')
        /\ Leading(c) => Leading(c)'
    BY <1>0, <2>1, LocalJoined
  <2>4. \A d \in Cars : /\ Deaf(d)' /\ (Joining(d)' => Joining(d) /\ Running(d)')
                        /\ Leading(d) => Leading(d)'
    BY <1>0, <2>2, <2>3 DEF Deaf, Joining, Running, Leading
  <2>. QED  BY <2>4 DEF DeafAll, Joined
<1>2. ASSUME NEW c \in Cars, CarSends(c)
      PROVE  DeafAll' /\ Joined'
  <2>. DEFINE f == SentFrame(c)
  <2>1. PICK H \in SUBSET (Receivers(NextPacket(c)) \ {c}) : Transmit(c, H \cap Cars)
    BY <1>2 DEF CarSends
  <2>2. Transmitting(c) /\ f \in Frame
    BY <1>2, SentFrameType DEF CarSends
  <2>3. H \cap Cars \in SUBSET CarListeners /\ H \cap Cars \in SUBSET Cars /\ c \notin H \cap Cars
    BY ReceiversListen
  <2>4. /\ Deaf(c)' /\ (Joining(c)' => Joining(c) /\ Running(c)')
        /\ Leading(c) => Leading(c)'
        /\ mem[c].state = STATE_CAR_TRUCK_POOLING_MASTER /\ pc[c] = "feed" => Leading(c)'
    BY <1>0, <2>1, <2>3, SenderJoined
  <2>5. f.type = MSG_CAR_TYPE_SPEED_INFO => Leading(c)'
    BY <2>2, <2>4, SpeedFromMaster
  <2>. HIDE DEF f
  <2>6. ASSUME NEW d \in Cars \ {c}
        PROVE  /\ Deaf(d)' /\ (Joining(d)' => Running(d)')
               /\ Joining(d)' => Joining(d) \/ Leading(c)'
               /\ Leading(d) => Leading(d)'
    <3>1. wait'[d] = wait[d] /\ listening'[d] = listening[d]
      BY <2>1, <2>3, OthersWait
    <3>2. /\ pc'[d] = pc[d] /\ body'[d] = body[d]
          /\ \/ mem'[d] = mem[d]
             \/ mem'[d] = EventHandler(mem[d], my_id[d], f) /\ d \in H \cap Cars
      BY <2>1, <2>3, OthersHear DEF f
    <3>3. d \in H \cap Cars => listening[d]
      BY <2>3 DEF CarListeners
    <3>4. /\ Deaf(d)' /\ (Joining(d)' => Running(d)')
          /\ Joining(d)' => Joining(d) \/ f.type = MSG_CAR_TYPE_SPEED_INFO
          /\ Leading(d) => Leading(d)'
      BY <1>0, <2>2, <3>1, <3>2, <3>3, HearJoined
    <3>. QED  BY <2>5, <3>4
  <2>7. DeafAll'
    BY <2>4, <2>6 DEF DeafAll
  <2>8. ASSUME NEW d \in Cars, Joining(d)'
        PROVE  Running(d)' /\ \E e \in Cars \ {d} : Leading(e)'
    <3>1. Running(d)'
      BY <2>4, <2>6, <2>8
    <3>2. CASE Joining(d)
      <4>1. PICK e \in Cars \ {d} : Leading(e)
        BY <3>2 DEF Joined
      <4>2. Leading(e)'
        BY <2>4, <2>6, <4>1
      <4>. QED  BY <3>1, <4>1, <4>2
    <3>3. CASE ~Joining(d)
      <4>1. d # c /\ Leading(c)'
        BY <2>4, <2>6, <2>8, <3>3
      <4>. QED  BY <3>1, <4>1
    <3>. QED  BY <3>2, <3>3
  <2>. QED  BY <2>7, <2>8 DEF Joined
<1>3. ASSUME NEW r \in Remotes, RemoteRound(r)
      PROVE  DeafAll' /\ Joined'
  BY <1>3 DEF RemoteRound, carVars, DeafAll, Joined, Deaf, Joining, Running, Leading
<1>4. ASSUME NEW r \in Remotes, RemoteSends(r)
      PROVE  DeafAll' /\ Joined'
  <2>. DEFINE p == Packet(RemoteSentFrame(r), 0)
  <2>1. p.frame = RemoteSentFrame(r) /\ RemoteSentFrame(r) \in Frame
    BY PacketFrame, RemoteFrameType
  <2>2. RemoteSentFrame(r).type # MSG_CAR_TYPE_SPEED_INFO
    BY DEF RemoteSentFrame, RemoteFrame, RemoteTypeOK, RemoteMessage, RemoteTypes
  <2>. HIDE DEF p
  <2>3. PICK H \in SUBSET (Receivers(p) \ {r}) : Environment(p.frame, H \cap Cars)
    BY <1>4 DEF RemoteSends, p
  <2>4. H \cap Cars \in SUBSET CarListeners
    BY ReceiversListen
  <2>5. ASSUME NEW d \in Cars
        PROVE  /\ Deaf(d)' /\ (Joining(d)' => Joining(d) /\ Running(d)')
               /\ Leading(d) => Leading(d)'
    <3>1. /\ pc'[d] = pc[d] /\ body'[d] = body[d] /\ listening'[d] = listening[d]
          /\ wait'[d] = wait[d]
          /\ \/ mem'[d] = mem[d]
             \/ mem'[d] = EventHandler(mem[d], my_id[d], p.frame) /\ d \in H \cap Cars
      BY <2>3 DEF Environment, CarsHear
    <3>2. d \in H \cap Cars => listening[d]
      BY <2>4 DEF CarListeners
    <3>. QED  BY <1>0, <2>1, <2>2, <3>1, <3>2, HearJoined
  <2>. QED  BY <2>5 DEF DeafAll, Joined
<1>5. CASE Tick
  <2>1. \A c \in Cars : ~Joining(c)
    BY <1>5, JoiningRuns DEF Tick, CarsTick, Joined
  <2>2. UNCHANGED <<pc, body, mem, listening>>
    BY <1>5 DEF Tick, CarsTick
  <2>. QED  BY <2>1, <2>2 DEF DeafAll, Deaf, Joined, Joining
<1>6. CASE UNCHANGED vars
  BY <1>6 DEF vars, carVars, DeafAll, Joined, Deaf, Joining, Running, Leading
<1>7. ASSUME NEW c \in Cars
      PROVE  ~CarReset(c)
  BY DEF CarReset
<1>. QED  BY <1>1, <1>2, <1>3, <1>4, <1>5, <1>6, <1>7 DEF Next

\* A frame makes no slave.
LEMMA HandlerNoSlave ==
    ASSUME TypeOK, NEW c \in Cars, NEW f \in Frame,
           mem'[c] = mem[c] \/ mem'[c] = EventHandler(mem[c], my_id[c], f)
    PROVE  \/ mem'[c].state = mem[c].state
           \/ mem'[c].state = STATE_CAR_TRUCK_POOLING_PENDING
  BY HandlerJoins DEF TypeOK

\* Only the end of a body makes one: of a car that joins.
LEMMA SlavesJoin ==
    ASSUME TypeOK, LoopInv, [CarNext]_carVars, NEW c \in Cars,
           mem[c].state # STATE_CAR_TRUCK_POOLING_SLAVE,
           mem'[c].state = STATE_CAR_TRUCK_POOLING_SLAVE
    PROVE  Joining(c)
<1>0. mem[c] \in Memory /\ NextInv(pc[c], mem[c])
  BY DEF TypeOK, LoopInv, Coherent
<1>1. CASE LocalStep(c)
  <2>1. \/ mem'[c].state = mem[c].state
        \/ mem'[c].state = STATE_CAR_WAIT_FOR_REMOTE
        \/ EndBody(c)
    BY <1>0, <1>1 DEF LocalStep, Booted, Clear, Listen, Heard, TimedOut, DropState, DropNext,
       Dispatch, Halt, Await, Adopt, ReadTurn, SetMotors, SetFollow, SlaveListen, SlaveHeard,
       SlaveTimedOut, MasterAcked, MasterTimedOut, TypeOK, Memory
  <2>2. pc[c] = "end" /\ mem[c].next_state = STATE_CAR_TRUCK_POOLING_SLAVE
    BY <1>0, <2>1 DEF EndBody, Goto, TypeOK, Memory
  <2>. QED  BY <1>0, <2>2 DEF NextInv, Joining, Memory, CarStates
<1>2. ASSUME NEW d \in Cars \ {c}, LocalStep(d)
      PROVE  FALSE
  BY <1>2, OthersUndisturbed
<1>3. ASSUME NEW d \in Cars, NEW H \in SUBSET CarListeners, d \notin H, Transmit(d, H)
      PROVE  FALSE
  <2>1. H \in SUBSET Cars
    BY DEF CarListeners
  <2>2. CASE d = c
    <3>1. mem'[c] = mem[c] \/ mem'[c] = [mem[c] EXCEPT !.receive_ack = FALSE]
      BY <1>3, <2>2 DEF Transmit, SendAck, SendRequest, SendSpeed, CarsHear, TypeOK
    <3>. QED  BY <1>0, <3>1 DEF Memory
  <2>3. CASE d # c
    <3>1. mem'[c] = mem[c] \/ mem'[c] = EventHandler(mem[c], my_id[c], SentFrame(d))
      BY <1>3, <2>1, <2>3, OthersHear
    <3>2. SentFrame(d) \in Frame
      BY <1>3, SentFrameType DEF Transmit, SendAck, SendRequest, SendSpeed, Transmitting
    <3>. QED  BY <3>1, <3>2, HandlerNoSlave
  <2>. QED  BY <2>2, <2>3
<1>4. ASSUME NEW f \in Frame, NEW H \in SUBSET CarListeners, Environment(f, H)
      PROVE  FALSE
  <2>1. mem'[c] = mem[c] \/ mem'[c] = EventHandler(mem[c], my_id[c], f)
    BY <1>4 DEF Environment, CarsHear
  <2>. QED  BY <2>1, HandlerNoSlave
<1>5. ASSUME NEW d \in Cars, PowerCycle(d)
      PROVE  FALSE
  BY <1>5 DEF PowerCycle, ColdMemory, TypeOK
<1>6. CASE CarsTick \/ UNCHANGED carVars
  BY <1>6 DEF CarsTick, carVars
<1>. QED  BY <1>1, <1>2, <1>3, <1>4, <1>5, <1>6 DEF CarNext

\* A car becomes a slave only when another car is master, however many cars and remotes
\* share the channel and whatever frames are lost, while no car loses its power.
THEOREM SlavesAreLed ==
    ASSUME MaxResets = 0
    PROVE  Spec => SlaveHasMaster
<1>1. Init => DeafAll /\ Joined
  BY DEF Init, CarInit, DeafAll, Deaf, Joined, Joining, ColdMemory, SteeredModes
<1>2. Invariant /\ DeafAll /\ Joined /\ [Next]_vars => (DeafAll /\ Joined)'
  BY JoinedInvariant
<1>3. Invariant /\ Joined /\ [Next]_vars =>
          [\A c \in Cars :
             mem[c].state # STATE_CAR_TRUCK_POOLING_SLAVE
             /\ mem'[c].state = STATE_CAR_TRUCK_POOLING_SLAVE
             => \E d \in Cars \ {c} : mem[d].state = STATE_CAR_TRUCK_POOLING_MASTER]_vars
  <2>. SUFFICES ASSUME Invariant, Joined, [Next]_vars, NEW c \in Cars,
                       mem[c].state # STATE_CAR_TRUCK_POOLING_SLAVE,
                       mem'[c].state = STATE_CAR_TRUCK_POOLING_SLAVE
                PROVE  \E d \in Cars \ {c} : mem[d].state = STATE_CAR_TRUCK_POOLING_MASTER
    OBVIOUS
  <2>1. Joining(c)
    BY SystemStep, SlavesJoin DEF Invariant
  <2>. QED  BY <2>1 DEF Joined, Leading
<1>. QED  BY <1>1, <1>2, <1>3, SystemInvariant, PTL DEF Spec, SlaveHasMaster

-----------------------------------------------------------------------------
(***************************************************************************)
(* One car and one remote.  A car that has read a message, or is about to  *)
(* act upon one, runs, so time does not pass, so the remote still waits    *)
(* for the answer: nothing overwrites the sample until the motors have it. *)
(***************************************************************************)

\* The modes and bodies of a car that no other car can talk into a pool.
Alone(c) ==
    /\ mem[c].state \in SteeredModes \cup {STATE_CAR_WAIT_FOR_REMOTE}
    /\ mem[c].next_state \in SteeredModes \cup {0, STATE_CAR_WAIT_FOR_REMOTE}
    /\ body[c] \in SteeredModes \cup {STATE_CAR_WAIT_FOR_REMOTE}
    /\ pc[c] \notin {"follow", "slave", "slave_listen", "reply", "feed", "feed_listen"}

\* A message of the remote's that steers carries one sample.
OneSample(r) ==
    remote_msg[r].type \in {MSG_REMOTE_TYPE_SINGLE_MODE_STEERING,
                            MSG_REMOTE_TYPE_TRUCK_POOLING_REQUEST}
        => <<remote_msg[r].x, remote_msg[r].y>> \in Positions

WaitsForAnswer(r) == rpc[r] = "listen" /\ rwait[r] > 0 /\ ~rmem[r].receive_ack

Driven(c) == mem[c].state \in SteeredModes

\* It is to steer by the message it holds ...
ToSteer(c) ==
    \/ pc[c] \in {"enter", "listen"} /\ mem[c].recevice_message /\ Driven(c)
    \/ pc[c] = "dispatch" /\ Driven(c)
    \/ pc[c] \in {"steer", "steer_x"}

\* ... or has an answer to give.
Busy(c) ==
    \/ pc[c] \in {"enter", "listen"} /\ mem[c].recevice_message
    \/ pc[c] = "dispatch" /\ (Driven(c) \/ mem[c].next_state = STATE_CAR_SINGLE_MODE)
    \/ pc[c] \in {"halt", "await"} /\ mem[c].next_state = STATE_CAR_SINGLE_MODE
    \/ pc[c] \in {"adopt", "steer", "steer_x", "ack"}

\* The message is the one the remote waits to have answered.
Holds(c, r) ==
    /\ Adopted(c, r)
    /\ mem[c].remote_msg = [senderID |-> remote_msg[r].senderID,
                            x |-> remote_msg[r].x, y |-> remote_msg[r].y]
    /\ <<remote_msg[r].x, remote_msg[r].y>> \in Positions

OneAtATime(c, r) ==
    /\ rpc[r] = "transmit" => ~rmem[r].receive_ack
    /\ Busy(c) => WaitsForAnswer(r)
    /\ ToSteer(c) => Holds(c, r)
    /\ pc[c] = "steer_x" => turn[c] = remote_msg[r].y
    /\ pc[c] = "ack" /\ body[c] # STATE_CAR_WAIT_FOR_REMOTE => Adopted(c, r) /\ Obeys(c, r)

Untorn(c) ==
    motors[c].run /\ motors[c].x # Follow => <<motors[c].x, motors[c].y>> \in Positions

PairInv(c, r) == Alone(c) /\ OneSample(r) /\ OneAtATime(c, r) /\ Untorn(c)

\* An answered remote is obeyed until it goes on: its car can not hear anything else, and
\* time does not pass.
AnsweredSteering(r) ==
    rpc[r] = "listen" /\ rmem[r].receive_ack /\ rmem[r].state = STATE_REMOTE_SINGLE_MODE

Obeyed(c, r) ==
    AnsweredSteering(r) =>
        /\ Adopted(c, r) /\ Obeys(c, r)
        /\ pc[c] \in {"request", "end", "clear", "enter", "listen"}
        /\ pc[c] \in {"enter", "listen"} => ~mem[c].recevice_message
        /\ pc[c] = "listen" => wait[c] > 0

\* A frame of a remote makes no master and no slave, and what makes a driven car read it
\* is its own remote's sample.
LEMMA HandlerAlone ==
    ASSUME NEW m \in Memory, NEW id \in Ids, NEW f \in Frame, f.type \in RemoteTypes, NEW n,
           n = EventHandler(m, id, f)
    PROVE  /\ \/ n.state = m.state
              \/ /\ m.state = STATE_CAR_SINGLE_MODE
                 /\ n.state = STATE_CAR_TRUCK_POOLING_PENDING
           /\ n.next_state \in {m.next_state, STATE_CAR_SINGLE_MODE,
                                STATE_CAR_TRUCK_POOLING_PENDING}
           /\ n.recevice_message /\ ~m.recevice_message /\ n.state \in SteeredModes =>
                 /\ f.id = id
                 /\ n.remote_msg = [senderID |-> f.id, x |-> f.x, y |-> f.y]
                 /\ f.type \in {MSG_REMOTE_TYPE_SINGLE_MODE_STEERING,
                                MSG_REMOTE_TYPE_TRUCK_POOLING_REQUEST}
<1>0. m.state # 1
  BY DEF Memory, CarStates
<1>1. CASE f.id = id
  <2>1. n = OwnFrame(m, f)
    BY <1>1 DEF EventHandler
  <2>. DEFINE s == Stored(m, f)
  <2>2. s \in Memory
    BY MemoryUpdates
  <2>3. /\ s.state = m.state /\ s.next_state = m.next_state
        /\ s.recevice_message = m.recevice_message
        /\ s.remote_msg = [senderID |-> f.id, x |-> f.x, y |-> f.y]
    BY DEF Stored, Memory
  <2>4. \/ n = s
        \/ /\ n = [s EXCEPT !.recevice_message = TRUE]
           /\ f.type \in {MSG_REMOTE_TYPE_SINGLE_MODE_STEERING,
                          MSG_REMOTE_TYPE_TRUCK_POOLING_REQUEST}
        \/ n = [s EXCEPT !.slave_message = TRUE]
        \/ /\ m.state = STATE_CAR_SINGLE_MODE
           /\ n = [s EXCEPT !.state = STATE_CAR_TRUCK_POOLING_PENDING,
                            !.next_state = STATE_CAR_TRUCK_POOLING_PENDING,
                            !.recevice_message = TRUE]
           /\ f.type = MSG_REMOTE_TYPE_TRUCK_POOLING_REQUEST
    <3>. HIDE DEF s
    <3>. QED  BY <1>0, <2>1, Zenon DEF OwnFrame, s
  <2>. HIDE DEF s
  <2>5. CASE n = s
    BY <2>3, <2>5
  <2>6. CASE /\ n = [s EXCEPT !.recevice_message = TRUE]
             /\ f.type \in {MSG_REMOTE_TYPE_SINGLE_MODE_STEERING,
                            MSG_REMOTE_TYPE_TRUCK_POOLING_REQUEST}
    BY <1>1, <2>2, <2>3, <2>6 DEF Memory
  <2>7. CASE n = [s EXCEPT !.slave_message = TRUE]
    BY <2>2, <2>3, <2>7 DEF Memory
  <2>8. CASE /\ m.state = STATE_CAR_SINGLE_MODE
             /\ n = [s EXCEPT !.state = STATE_CAR_TRUCK_POOLING_PENDING,
                              !.next_state = STATE_CAR_TRUCK_POOLING_PENDING,
                              !.recevice_message = TRUE]
             /\ f.type = MSG_REMOTE_TYPE_TRUCK_POOLING_REQUEST
    BY <1>1, <2>2, <2>3, <2>8 DEF Memory
  <2>. QED  BY <2>4, <2>5, <2>6, <2>7, <2>8
<1>2. CASE f.id # id
  <2>1. n = OtherFrame(m, id, f)
    BY <1>2 DEF EventHandler
  <2>2. \/ n = m
        \/ /\ m.state = STATE_CAR_WAIT_FOR_REMOTE
           /\ n = [Stored(m, f) EXCEPT !.next_state = STATE_CAR_SINGLE_MODE,
                                       !.recevice_message = TRUE]
    BY <2>1 DEF OtherFrame, RemoteTypes
  <2>3. CASE n = m
    BY <2>3
  <2>4. CASE /\ m.state = STATE_CAR_WAIT_FOR_REMOTE
             /\ n = [Stored(m, f) EXCEPT !.next_state = STATE_CAR_SINGLE_MODE,
                                         !.recevice_message = TRUE]
    BY <2>4 DEF Stored, Memory, SteeredModes
  <2>. QED  BY <2>2, <2>3, <2>4
<1>. QED  BY <1>1, <1>2

\* The main loop of the car: each step hands the sample on.
LEMMA LocalPair ==
    ASSUME TypeOK, LoopInv, NEW c \in Cars, NEW r \in Remotes, PairInv(c, r), LocalStep(c),
           UNCHANGED remoteVars
    PROVE  PairInv(c, r)'
<1>0. /\ mem[c] \in Memory
      /\ NextInv(pc[c], mem[c]) /\ BodyInv(pc[c], body[c], mem[c])
  BY DEF TypeOK, LoopInv, Coherent
<1>1. /\ Alone(c) /\ OneSample(r) /\ OneAtATime(c, r) /\ Untorn(c)
  BY DEF PairInv
<1>2. UNCHANGED <<rpc, rmem, remote_msg, rwait>>
  BY DEF remoteVars
<1>3. OneSample(r)'
  BY <1>1, <1>2 DEF OneSample
<1>. USE DEF Goto
<1>4. CASE Booted(c)
  <2>1. /\ mem'[c] = mem[c] /\ body'[c] = body[c] /\ motors'[c] = motors[c]
        /\ pc'[c] = "clear"
    BY <1>4 DEF Booted, TypeOK
  <2>. QED  BY <1>1, <1>2, <1>3, <2>1
            DEF PairInv, Alone, Untorn, OneAtATime, Busy, ToSteer
<1>5. CASE Clear(c)
  <2>1. mem'[c] = [mem[c] EXCEPT !.recevice_message = FALSE]
    BY <1>5 DEF Clear, TypeOK
  <2>2. /\ body'[c] = body[c] /\ motors'[c] = motors[c] /\ pc'[c] = "enter"
        /\ mem'[c].state = mem[c].state /\ mem'[c].next_state = mem[c].next_state
        /\ ~mem'[c].recevice_message
    BY <1>0, <1>5, <2>1 DEF Clear, TypeOK, Memory
  <2>. QED  BY <1>1, <1>2, <1>3, <2>2
            DEF PairInv, Alone, Untorn, OneAtATime, Busy, ToSteer
<1>6. CASE Listen(c)
  <2>1. /\ mem'[c] = mem[c] /\ body'[c] = body[c] /\ motors'[c] = motors[c]
        /\ pc[c] = "enter" /\ pc'[c] = "listen" /\ my_id'[c] = my_id[c]
    BY <1>6 DEF Listen, TypeOK
  <2>. QED  BY <1>1, <1>2, <1>3, <2>1
            DEF PairInv, Alone, Untorn, OneAtATime, Busy, ToSteer, Holds, Adopted, Driven,
                WaitsForAnswer
<1>7. CASE Heard(c)
  <2>1. /\ mem'[c] = mem[c] /\ body'[c] = body[c] /\ motors'[c] = motors[c]
        /\ pc[c] = "listen" /\ pc'[c] = "dispatch" /\ my_id'[c] = my_id[c]
        /\ mem[c].recevice_message
    BY <1>7 DEF Heard, TypeOK
  <2>. QED  BY <1>1, <1>2, <1>3, <2>1
            DEF PairInv, Alone, Untorn, OneAtATime, Busy, ToSteer, Holds, Adopted, Driven,
                WaitsForAnswer
<1>8. CASE TimedOut(c)
  <2>1. /\ mem'[c] = mem[c] /\ body'[c] = body[c] /\ motors'[c] = motors[c]
        /\ pc'[c] = "drop"
    BY <1>8 DEF TimedOut, TypeOK
  <2>. QED  BY <1>1, <1>2, <1>3, <2>1
            DEF PairInv, Alone, Untorn, OneAtATime, Busy, ToSteer
<1>9. CASE DropState(c)
  <2>1. mem'[c] = [mem[c] EXCEPT !.state = STATE_CAR_WAIT_FOR_REMOTE]
    BY <1>9 DEF DropState, TypeOK
  <2>2. /\ body'[c] = body[c] /\ motors'[c] = motors[c] /\ pc'[c] = "drop_next"
        /\ mem'[c].state = STATE_CAR_WAIT_FOR_REMOTE /\ mem'[c].next_state = mem[c].next_state
    BY <1>0, <1>9, <2>1 DEF DropState, TypeOK, Memory
  <2>. QED  BY <1>1, <1>2, <1>3, <2>2
            DEF PairInv, Alone, Untorn, OneAtATime, Busy, ToSteer
<1>10. CASE DropNext(c)
  <2>1. mem'[c] = [mem[c] EXCEPT !.next_state = mem[c].state]
    BY <1>10 DEF DropNext, TypeOK
  <2>2. /\ body'[c] = body[c] /\ motors'[c] = motors[c] /\ pc'[c] = "dispatch"
        /\ mem'[c].state = STATE_CAR_WAIT_FOR_REMOTE
        /\ mem'[c].next_state = STATE_CAR_WAIT_FOR_REMOTE
    BY <1>0, <1>10, <2>1 DEF DropNext, TypeOK, Memory, NextInv
  <2>. QED  BY <1>1, <1>2, <1>3, <2>2
            DEF PairInv, Alone, Untorn, OneAtATime, Busy, ToSteer, Driven, SteeredModes
<1>11. CASE Dispatch(c)
  <2>1. /\ mem'[c] = mem[c] /\ body'[c] = mem[c].state /\ motors'[c] = motors[c]
        /\ my_id'[c] = my_id[c] /\ pc[c] = "dispatch"
        /\ pc'[c] = IF Driven(c) THEN "steer" ELSE "halt"
    BY <1>1, <1>11 DEF Dispatch, TypeOK, Alone, Driven, SteeredModes
  <2>. QED  BY <1>1, <1>2, <1>3, <2>1
            DEF PairInv, Alone, Untorn, OneAtATime, Busy, ToSteer, Holds, Adopted, Driven,
                WaitsForAnswer
<1>12. CASE Halt(c)
  <2>1. /\ mem'[c] = mem[c] /\ body'[c] = body[c] /\ ~motors'[c].run
        /\ pc[c] = "halt" /\ pc'[c] = "await"
    BY <1>12 DEF Halt, Stopped, TypeOK
  <2>. QED  BY <1>1, <1>2, <1>3, <2>1
            DEF PairInv, Alone, Untorn, OneAtATime, Busy, ToSteer, WaitsForAnswer
<1>13. CASE Await(c)
  <2>1. /\ mem'[c] = mem[c] /\ body'[c] = body[c] /\ motors'[c] = motors[c]
        /\ pc[c] = "await" /\ pc'[c] = "adopt" /\ mem[c].next_state = STATE_CAR_SINGLE_MODE
    BY <1>13 DEF Await, TypeOK
  <2>. QED  BY <1>1, <1>2, <1>3, <2>1
            DEF PairInv, Alone, Untorn, OneAtATime, Busy, ToSteer, WaitsForAnswer
<1>14. CASE Adopt(c)
  <2>1. /\ mem'[c] = mem[c] /\ body'[c] = body[c] /\ motors'[c] = motors[c]
        /\ pc[c] = "adopt" /\ pc'[c] = "ack" /\ body[c] = STATE_CAR_WAIT_FOR_REMOTE
    BY <1>0, <1>14 DEF Adopt, TypeOK, BodyInv
  <2>. QED  BY <1>1, <1>2, <1>3, <2>1
            DEF PairInv, Alone, Untorn, OneAtATime, Busy, ToSteer, WaitsForAnswer
<1>15. CASE ReadTurn(c)
  <2>1. /\ mem'[c] = mem[c] /\ body'[c] = body[c] /\ motors'[c] = motors[c]
        /\ my_id'[c] = my_id[c] /\ pc[c] = "steer" /\ pc'[c] = "steer_x"
        /\ turn'[c] = mem[c].remote_msg.y
    BY <1>15 DEF ReadTurn, TypeOK
  <2>. QED  BY <1>1, <1>2, <1>3, <2>1
            DEF PairInv, Alone, Untorn, OneAtATime, Busy, ToSteer, Holds, Adopted,
                WaitsForAnswer
<1>16. CASE SetMotors(c)
  <2>1. /\ mem'[c] = mem[c] /\ body'[c] = body[c] /\ my_id'[c] = my_id[c]
        /\ pc[c] = "steer_x" /\ pc'[c] = "ack"
        /\ motors'[c] = [run |-> TRUE, by |-> mem[c].remote_msg.senderID,
                         y |-> turn[c], x |-> mem[c].remote_msg.x]
    BY <1>16 DEF SetMotors, TypeOK
  <2>2. Holds(c, r) /\ turn[c] = remote_msg[r].y /\ WaitsForAnswer(r)
    BY <1>1, <2>1 DEF OneAtATime, ToSteer, Busy
  <2>3. Adopted(c, r)' /\ Obeys(c, r)'
    BY <1>2, <2>1, <2>2 DEF Holds, Adopted, Obeys
  <2>4. Untorn(c)'
    BY <2>1, <2>2 DEF Holds, Untorn
  <2>. QED  BY <1>1, <1>2, <1>3, <2>1, <2>2, <2>3, <2>4
            DEF PairInv, Alone, OneAtATime, Busy, ToSteer, WaitsForAnswer
<1>17. CASE EndBody(c)
  <2>1. /\ mem'[c] = [mem[c] EXCEPT !.state = mem[c].next_state]
        /\ pc[c] = "end" /\ pc'[c] = "clear" /\ body'[c] = body[c] /\ motors'[c] = motors[c]
    BY <1>17 DEF EndBody, TypeOK
  <2>2. /\ mem'[c].state = mem[c].next_state /\ mem'[c].next_state = mem[c].next_state
        /\ mem[c].next_state # 0
    BY <1>0, <1>1, <2>1 DEF Memory, NextInv, BodyInv, InBody, Alone, SteeredModes
  <2>. QED  BY <1>1, <1>2, <1>3, <2>1, <2>2
            DEF PairInv, Alone, Untorn, OneAtATime, Busy, ToSteer
<1>18. CASE \/ SetFollow(c) \/ SlaveListen(c) \/ SlaveHeard(c) \/ SlaveTimedOut(c)
            \/ MasterAcked(c) \/ MasterTimedOut(c)
  BY <1>1, <1>18 DEF SetFollow, SlaveListen, SlaveHeard, SlaveTimedOut, MasterAcked,
                     MasterTimedOut, Alone
<1>. QED
  BY <1>4, <1>5, <1>6, <1>7, <1>8, <1>9, <1>10, <1>11, <1>12, <1>13, <1>14, <1>15, <1>16,
     <1>17, <1>18 DEF LocalStep

\* An obeyed remote stays obeyed: the loop of its car only comes to wait again.
LEMMA LocalObeyed ==
    ASSUME TypeOK, NEW c \in Cars, NEW r \in Remotes, Obeyed(c, r), LocalStep(c),
           UNCHANGED remoteVars
    PROVE  Obeyed(c, r)'
<1>. SUFFICES ASSUME AnsweredSteering(r)
              PROVE  Obeyed(c, r)'
  BY DEF Obeyed, AnsweredSteering, remoteVars
<1>0. mem[c] \in Memory
  BY DEF TypeOK
<1>1. /\ Adopted(c, r) /\ Obeys(c, r)
      /\ pc[c] \in {"request", "end", "clear", "enter", "listen"}
      /\ pc[c] \in {"enter", "listen"} => ~mem[c].recevice_message
      /\ pc[c] = "listen" => wait[c] > 0
  BY DEF Obeyed
<1>. USE DEF Goto
<1>2. CASE Clear(c)
  <2>1. mem'[c] = [mem[c] EXCEPT !.recevice_message = FALSE]
    BY <1>2 DEF Clear, TypeOK
  <2>2. /\ motors'[c] = motors[c] /\ my_id'[c] = my_id[c] /\ pc'[c] = "enter"
        /\ ~mem'[c].recevice_message /\ remote_msg' = remote_msg
    BY <1>0, <1>2, <2>1 DEF Clear, TypeOK, Memory, remoteVars
  <2>. QED  BY <1>1, <2>2 DEF Obeyed, Adopted, Obeys
<1>3. CASE Listen(c)
  <2>1. /\ mem'[c] = mem[c] /\ motors'[c] = motors[c] /\ my_id'[c] = my_id[c]
        /\ pc[c] = "enter" /\ pc'[c] = "listen" /\ wait'[c] > 0 /\ remote_msg' = remote_msg
    BY <1>3, CarAssumption DEF Listen, TypeOK, remoteVars
  <2>. QED  BY <1>1, <2>1 DEF Obeyed, Adopted, Obeys
<1>4. CASE EndBody(c)
  <2>1. /\ motors'[c] = motors[c] /\ my_id'[c] = my_id[c] /\ pc'[c] = "clear"
        /\ remote_msg' = remote_msg
    BY <1>4 DEF EndBody, TypeOK, remoteVars
  <2>. QED  BY <1>1, <2>1 DEF Obeyed, Adopted, Obeys
<1>5. Clear(c) \/ Listen(c) \/ EndBody(c)
  BY <1>1 DEF LocalStep, Booted, Heard, TimedOut, DropState, DropNext, Dispatch, Halt, Await,
     Adopt, ReadTurn, SetMotors, SetFollow, SlaveListen, SlaveHeard, SlaveTimedOut,
     MasterAcked, MasterTimedOut
<1>. QED  BY <1>2, <1>3, <1>4, <1>5

\* The answer, when it comes, is the answer to the sample the motors have.
LEMMA AnswerPair ==
    ASSUME Invariant, NEW c, NEW r, Cars = {c}, Remotes = {r}, PairInv(c, r), CarSends(c)
    PROVE  PairInv(c, r)' /\ (Obeyed(c, r) => Obeyed(c, r)')
<1>. USE DEF Invariant
<1>. DEFINE f == SentFrame(c)
<1>0. c \in Cars /\ r \in Remotes /\ mem[c] \in Memory
  BY DEF TypeOK
<1>1. PICK H \in SUBSET (Receivers(NextPacket(c)) \ {c}) :
          /\ Transmit(c, H \cap Cars)
          /\ RemotesHear(H \cap Remotes, f)
          /\ UNCHANGED <<rpc, remote_msg, rnext, rwait, rtries, rlistening>>
  BY DEF CarSends
<1>2. Transmitting(c) /\ f \in Frame
  BY <1>0, SentFrameType DEF CarSends
<1>3. H \cap Remotes \in SUBSET Remotes /\ c \notin H \cap Cars
  BY <1>0
<1>4. /\ Alone(c) /\ OneSample(r) /\ OneAtATime(c, r) /\ Untorn(c)
      /\ AnswerInv(pc[c], body[c], mem[c], my_id[c], car_msg[c])
      /\ BodyInv(pc[c], body[c], mem[c])
  BY <1>0 DEF PairInv, LoopInv, Coherent
<1>5. pc[c] \in {"ack", "request"}
  BY <1>2, <1>4 DEF Alone, Transmitting
<1>6. /\ pc'[c] \in {"request", "end"} /\ mem'[c] = mem[c]
      /\ body'[c] = body[c] /\ motors'[c] = motors[c] /\ my_id'[c] = my_id[c]
  <2>1. CASE SendAck(c, H \cap Cars)
    BY <1>0, <1>3, <1>4, <1>5, <2>1 DEF SendAck, CarsHear, Alone, SteeredModes, TypeOK
  <2>2. CASE SendRequest(c, H \cap Cars)
    BY <1>0, <1>3, <2>2 DEF SendRequest, CarsHear, TypeOK
  <2>. QED  BY <1>1, <1>5, <2>1, <2>2 DEF Transmit, SendSpeed
<1>7. pc[c] = "request" => f.type = MSG_CAR_TYPE_REQUEST_POOLING
  BY DEF SentFrame, CarFrame
<1>8. pc[c] = "ack" => WaitsForAnswer(r)
  BY <1>4 DEF OneAtATime, Busy
<1>9. pc[c] = "ack" /\ body[c] = STATE_CAR_WAIT_FOR_REMOTE => f.type = MSG_CAR_TYPE_CONNECTED_TO
  BY <1>4 DEF AnswerInv, SentFrame, CarFrame, Message
<1>. HIDE DEF f
<1>10. rmem'[r].state = rmem[r].state
  BY <1>0, <1>1, <1>2, <1>3, RemotesHearEffect
<1>11. ~rmem[r].receive_ack /\ rmem'[r].receive_ack => f.type \in AnswersExpected(rmem[r].state)
  BY <1>0, <1>1, <1>2, <1>3, NewAnswer
<1>12. rpc'[r] = "transmit" => ~rmem'[r].receive_ack
  BY <1>1, <1>4, <1>5, <1>7, <1>8, <1>11 DEF OneAtATime, WaitsForAnswer, AnswersExpected
<1>13. PairInv(c, r)'
  BY <1>1, <1>4, <1>6, <1>12
     DEF PairInv, Alone, OneSample, OneAtATime, Untorn, Busy, ToSteer
<1>14. ASSUME Obeyed(c, r), AnsweredSteering(r)'
       PROVE  Adopted(c, r) /\ Obeys(c, r)
  <2>1. rpc[r] = "listen" /\ rmem[r].state = STATE_REMOTE_SINGLE_MODE /\ rmem'[r].receive_ack
    BY <1>1, <1>10, <1>14 DEF AnsweredSteering
  <2>2. CASE rmem[r].receive_ack
    BY <1>14, <2>1, <2>2 DEF Obeyed, AnsweredSteering
  <2>3. CASE ~rmem[r].receive_ack
    <3>1. f.type = MSG_CAR_TYPE_ACKNOWLEDGE
      BY <1>11, <2>1, <2>3 DEF AnswersExpected
    <3>2. pc[c] = "ack" /\ body[c] # STATE_CAR_WAIT_FOR_REMOTE
      BY <1>5, <1>7, <1>9, <3>1
    <3>. QED  BY <1>4, <3>2 DEF OneAtATime
  <2>. QED  BY <2>2, <2>3
<1>15. Obeyed(c, r) => Obeyed(c, r)'
  BY <1>1, <1>6, <1>14 DEF Obeyed, Adopted, Obeys
<1>. QED  BY <1>13, <1>15

\* The main loop of the remote: it samples only when its car has nothing to act upon.
LEMMA RoundPair ==
    ASSUME RemoteTypeOK, NEW c, NEW r \in Remotes, PairInv(c, r), RemoteStep(r),
           UNCHANGED carVars
    PROVE  PairInv(c, r)' /\ Obeyed(c, r)'
<1>. USE DEF RGoto
<1>1. /\ Alone(c) /\ OneSample(r) /\ OneAtATime(c, r) /\ Untorn(c)
  BY DEF PairInv
<1>2. ~Busy(c)
  BY <1>1 DEF OneAtATime, WaitsForAnswer, RemoteStep, SelectChannel, Advertise, Sample,
              SampleTurn, BeginSend, Answered, Unanswered, Return, EndRound, Delayed
<1>3. Alone(c)' /\ Untorn(c)' /\ ~Busy(c)' /\ pc' = pc
  BY <1>1, <1>2 DEF carVars, Alone, Untorn, Busy, Driven
<1>4. ~ToSteer(c)' /\ pc'[c] \notin {"steer_x", "ack"}
  BY <1>3 DEF ToSteer, Busy, Driven
<1>5. /\ rpc'[r] # "listen"
      /\ rpc'[r] = "transmit" => ~rmem'[r].receive_ack
      /\ OneSample(r)'
  <2>1. CASE SelectChannel(r)
    <3>1. PICK b \in Channels : remote_msg' = [remote_msg EXCEPT ![r].senderID = b]
      BY <2>1 DEF SelectChannel
    <3>2. /\ remote_msg'[r].type = remote_msg[r].type /\ remote_msg'[r].x = remote_msg[r].x
          /\ remote_msg'[r].y = remote_msg[r].y
      BY <3>1 DEF RemoteTypeOK, RemoteMessage
    <3>. QED  BY <1>1, <2>1, <3>2 DEF SelectChannel, OneSample, RemoteTypeOK
  <2>6. CASE Advertise(r)
    <3>1. remote_msg'[r].type = MSG_REMOTE_TYPE_ADVERTISE_AVAILABLE
      BY <2>6 DEF Advertise, RemoteTypeOK, RemoteMessage
    <3>. QED  BY <2>6, <3>1 DEF Advertise, OneSample, RemoteTypeOK
  <2>2. CASE Sample(r)
    <3>1. PICK p \in Positions, b \in Buttons :
              Sampled(r, IF rmem[r].state = STATE_REMOTE_SINGLE_MODE
                         THEN MSG_REMOTE_TYPE_SINGLE_MODE_STEERING
                         ELSE MSG_REMOTE_TYPE_TRUCK_POOLING_REQUEST, p[1], p[2], b)
      BY <2>2 DEF Sample
    <3>2. remote_msg'[r].x = p[1] /\ remote_msg'[r].y = p[2]
      BY <3>1 DEF Sampled, RemoteTypeOK
    <3>3. <<p[1], p[2]>> = p
      BY RemoteAssumption
    <3>4. OneSample(r)'
      BY <3>2, <3>3 DEF OneSample
    <3>. QED  BY <2>2, <3>4 DEF Sample, RemoteTypeOK
  <2>3. CASE SampleTurn(r)
    BY <2>3 DEF SampleTurn, Sampled, OneSample, RemoteTypeOK
  <2>4. CASE BeginSend(r)
    BY <1>1, <2>4 DEF BeginSend, OneSample, RemoteTypeOK
  <2>5. CASE \/ Answered(r) \/ Unanswered(r) \/ Return(r) \/ EndRound(r) \/ Delayed(r)
    BY <1>1, <2>5 DEF Answered, Unanswered, Return, EndRound, Delayed, OneSample, RemoteTypeOK
  <2>. QED  BY <2>1, <2>2, <2>3, <2>4, <2>5, <2>6 DEF RemoteStep
<1>6. OneAtATime(c, r)'
  BY <1>3, <1>4, <1>5 DEF OneAtATime
<1>. QED  BY <1>3, <1>5, <1>6 DEF PairInv, Obeyed, AnsweredSteering

\* The sample goes to a car that holds none, and the remote waits.
LEMMA SamplePair ==
    ASSUME Invariant, NEW c, NEW r, Cars = {c}, Remotes = {r}, PairInv(c, r), RemoteSends(r)
    PROVE  PairInv(c, r)' /\ Obeyed(c, r)'
<1>. USE DEF Invariant
<1>. DEFINE p == Packet(RemoteSentFrame(r), 0)
            f == RemoteSentFrame(r)
<1>0. c \in Cars /\ r \in Remotes /\ mem[c] \in Memory /\ my_id[c] \in Ids
  BY DEF TypeOK
<1>1. p.frame = f /\ f \in Frame
  BY <1>0, PacketFrame, RemoteFrameType
<1>2. /\ f.type \in RemoteTypes /\ f.type = remote_msg[r].type /\ f.x = remote_msg[r].x
      /\ f.y = remote_msg[r].y /\ f.id = remote_msg[r].senderID
  BY <1>0 DEF RemoteSentFrame, RemoteFrame, RemoteTypeOK, RemoteMessage
<1>. HIDE DEF p
<1>3. PICK H \in SUBSET (Receivers(p) \ {r}) :
          /\ RemoteTransmit(r)
          /\ RemotesHear(H \cap Remotes, p.frame)
          /\ Environment(p.frame, H \cap Cars)
  BY DEF RemoteSends, p
<1>. HIDE DEF f
<1>4. /\ rpc[r] = "transmit" /\ rpc'[r] = "listen" /\ rwait'[r] > 0 /\ remote_msg' = remote_msg
      /\ rmem'[r] = rmem[r]
  BY <1>0, <1>3, RemoteAssumption DEF RemoteTransmit, RGoto, RemotesHear, RemoteTypeOK
<1>5. /\ Alone(c) /\ OneSample(r) /\ OneAtATime(c, r) /\ Untorn(c)
  BY DEF PairInv
<1>6. ~Busy(c) /\ ~rmem[r].receive_ack
  BY <1>4, <1>5 DEF OneAtATime, WaitsForAnswer
<1>7. WaitsForAnswer(r)' /\ Obeyed(c, r)' /\ OneSample(r)'
  BY <1>4, <1>5, <1>6 DEF WaitsForAnswer, Obeyed, AnsweredSteering, OneSample
<1>8. /\ UNCHANGED <<pc, body, my_id, motors, turn>>
      /\ mem'[c] = mem[c] \/ mem'[c] = EventHandler(mem[c], my_id[c], f)
  BY <1>0, <1>1, <1>3 DEF Environment, CarsHear
<1>9. Untorn(c)'
  BY <1>5, <1>8 DEF Untorn
<1>10. CASE mem'[c] = mem[c]
  <2>1. Alone(c)' /\ ~Busy(c)'
    BY <1>5, <1>6, <1>8, <1>10 DEF Alone, Busy, Driven
  <2>2. ~ToSteer(c)' /\ pc'[c] \notin {"steer_x", "ack"}
    BY <2>1 DEF ToSteer, Busy, Driven
  <2>. QED  BY <1>4, <1>7, <1>9, <2>1, <2>2 DEF PairInv, OneAtATime
<1>11. CASE mem'[c] = EventHandler(mem[c], my_id[c], f)
  <2>. DEFINE m == mem[c]
              n == mem'[c]
  <2>1. /\ \/ n.state = m.state
           \/ /\ m.state = STATE_CAR_SINGLE_MODE
              /\ n.state = STATE_CAR_TRUCK_POOLING_PENDING
        /\ n.next_state \in {m.next_state, STATE_CAR_SINGLE_MODE,
                             STATE_CAR_TRUCK_POOLING_PENDING}
        /\ n.recevice_message /\ ~m.recevice_message /\ n.state \in SteeredModes =>
              /\ f.id = my_id[c]
              /\ n.remote_msg = [senderID |-> f.id, x |-> f.x, y |-> f.y]
              /\ f.type \in {MSG_REMOTE_TYPE_SINGLE_MODE_STEERING,
                             MSG_REMOTE_TYPE_TRUCK_POOLING_REQUEST}
    BY <1>0, <1>1, <1>2, <1>11, HandlerAlone
  <2>2. Alone(c)'
    <3>. HIDE DEF n
    <3>1. mem'[c] = n
      BY DEF n
    <3>. QED  BY <1>5, <1>8, <2>1, <3>1 DEF Alone, SteeredModes
  <2>3. ASSUME ToSteer(c)'
        PROVE  Holds(c, r)'
    <3>1. n.state \in SteeredModes => m.state \in SteeredModes
      BY <2>1 DEF SteeredModes
    <3>2. pc[c] \in {"enter", "listen"} /\ n.recevice_message /\ ~m.recevice_message
          /\ n.state \in SteeredModes
      BY <1>6, <1>8, <2>3, <3>1 DEF ToSteer, Busy, Driven
    <3>. QED  BY <1>2, <1>4, <1>5, <1>8, <2>1, <3>2 DEF Holds, Adopted, OneSample
  <2>4. pc'[c] \notin {"steer_x", "ack"}
    BY <1>6, <1>8 DEF Busy
  <2>. QED  BY <1>4, <1>7, <1>9, <2>2, <2>3, <2>4 DEF PairInv, OneAtATime
<1>. QED  BY <1>7, <1>8, <1>10, <1>11

\* Every step of the pair keeps the invariant, a loss of power included.
LEMMA PairStep ==
    ASSUME Invariant, NEW c, NEW r, Cars = {c}, Remotes = {r}, PairInv(c, r), [Next]_vars
    PROVE  /\ PairInv(c, r)'
           /\ MaxResets = 0 /\ Obeyed(c, r) => Obeyed(c, r)'
<1>. USE DEF Invariant
<1>0. c \in Cars /\ r \in Remotes
  OBVIOUS
<1>1. CASE CarStep(c)
  BY <1>0, <1>1, LocalPair, LocalObeyed DEF CarStep
<1>2. CASE CarSends(c)
  BY <1>2, AnswerPair
<1>3. CASE CarReset(c)
  <2>1. /\ pc'[c] = "boot" /\ mem'[c] = ColdMemory /\ motors'[c] = Stopped
        /\ body'[c] = STATE_CAR_WAIT_FOR_REMOTE
        /\ UNCHANGED <<rpc, rmem, remote_msg>>
    BY <1>0, <1>3 DEF CarReset, PowerCycle, TypeOK, remoteVars
  <2>2. PairInv(c, r)'
    BY <2>1 DEF PairInv, Alone, OneSample, OneAtATime, Untorn, Busy, ToSteer, ColdMemory,
                Stopped, SteeredModes
  <2>3. MaxResets # 0
    BY <1>3 DEF CarReset
  <2>. QED  BY <2>2, <2>3
<1>4. CASE RemoteRound(r)
  BY <1>0, <1>4, RoundPair DEF RemoteRound
<1>5. CASE RemoteSends(r)
  BY <1>5, SamplePair
<1>6. CASE Tick
  <2>1. UNCHANGED <<pc, body, mem, my_id, motors, rpc, rmem, remote_msg>>
    BY <1>6 DEF Tick, CarsTick, RemotesTick
  <2>2. ~Busy(c)
    <3>1. Idle(c)
      BY <1>0, <1>6 DEF Tick, CarsTick
    <3>. QED  BY <3>1 DEF Idle, Busy
  <2>3. ~AnsweredSteering(r)
    BY <1>0, <1>6 DEF Tick, RemotesTick, Resting, AnsweredSteering
  <2>4. ~Busy(c)' /\ ~ToSteer(c)' /\ pc'[c] \notin {"steer_x", "ack"}
    BY <2>1, <2>2 DEF Busy, ToSteer, Driven
  <2>5. PairInv(c, r)'
    BY <2>1, <2>4 DEF PairInv, Alone, OneSample, OneAtATime, Untorn
  <2>. QED  BY <2>1, <2>3, <2>5 DEF Obeyed, AnsweredSteering
<1>7. CASE UNCHANGED vars
  BY <1>7 DEF vars, carVars, remoteVars, PairInv, Alone, OneSample, OneAtATime, Untorn, Busy,
              ToSteer, Holds, Driven, WaitsForAnswer, Adopted, Obeys, Obeyed, AnsweredSteering
<1>. QED  BY <1>1, <1>2, <1>3, <1>4, <1>5, <1>6, <1>7 DEF Next

\* It holds when both are switched on.
LEMMA PairInit ==
    ASSUME Init, NEW c \in Cars, NEW r \in Remotes
    PROVE  PairInv(c, r) /\ Obeyed(c, r)
  BY DEF Init, CarInit, RemoteInit, PairInv, Alone, OneSample, OneAtATime, Untorn, Busy, ToSteer,
         Obeyed, AnsweredSteering, ColdMemory, Stopped, SteeredModes

\* A car alone with its remote never drives by half of one sample and half of another,
\* whatever time-outs the two have, whatever is lost and however often the car resets.
THEOREM SamplesWhole ==
    ASSUME NEW car, NEW remote, Cars = {car}, Remotes = {remote}
    PROVE  Spec => []NoTornSample
<1>1. Init => PairInv(car, remote)
  BY PairInit
<1>2. Invariant /\ PairInv(car, remote) /\ [Next]_vars => PairInv(car, remote)'
  BY PairStep
<1>3. PairInv(car, remote) => NoTornSample
  BY DEF PairInv, Untorn, NoTornSample
<1>. QED  BY <1>1, <1>2, <1>3, SystemInvariant, PTL DEF Spec

\* And when its remote takes an answer to a steering message, the car drives by the very
\* sample of that message, while it keeps its power.
THEOREM AcknowledgesSound ==
    ASSUME NEW car, NEW remote, Cars = {car}, Remotes = {remote}, MaxResets = 0
    PROVE  Spec => AckSoundness
<1>1. Init => PairInv(car, remote) /\ Obeyed(car, remote)
  BY PairInit
<1>2. Invariant /\ PairInv(car, remote) /\ Obeyed(car, remote) /\ [Next]_vars
          => (PairInv(car, remote) /\ Obeyed(car, remote))'
  BY PairStep
<1>3. Obeyed(car, remote) =>
          [\A r \in Remotes :
             /\ rmem[r].state = STATE_REMOTE_SINGLE_MODE /\ rmem[r].receive_ack
             /\ rpc[r] = "listen" /\ rpc'[r] = "return"
             => \E c \in Cars : Adopted(c, r) /\ Obeys(c, r)]_vars
  BY DEF Obeyed, AnsweredSteering
<1>. QED  BY <1>1, <1>2, <1>3, SystemInvariant, PTL DEF Spec, AckSoundness
-----------------------------------------------------------------------------
(***************************************************************************)
(* The duplicate filter.  It compares packets by an id and a content that  *)
(* both recur, so what protects a message is the order in which sessions   *)
(* begin and flags are cleared: SessionInv says that the last packet a     *)
(* waiting node heard in its session is none that would end its wait.      *)
(***************************************************************************)

CarWaits(c) == pc[c] \in {"listen", "slave_listen", "feed_listen"}

\* A waiting node listens, and the packet its filter remembers was not the one it waits for.
CarSession(c) ==
    CarWaits(c) => listening[c] /\ (seen[c] = None \/ ~EndsCarWait(c, seen[c].frame))

RemoteSession(r) ==
    rpc[r] = "listen" =>
        rlistening[r] /\ (seen[r] = None \/ ~EndsRemoteWait(r, seen[r].frame))

SessionInv ==
    /\ DOMAIN seen = Nodes
    /\ \A c \in Cars : CarSession(c)
    /\ \A r \in Remotes : RemoteSession(r)

\* A packet is not the mark of a session in which none was heard.
LEMMA PacketHeard ==
    ASSUME NEW f, NEW n
    PROVE  Packet(f, n) # None
<1>1. "frame" \in DOMAIN Packet(f, n) /\ "frame" \notin DOMAIN None
  BY DEF Packet, None
<1>. QED  BY <1>1

\* When a frame of the car's own id raises a flag (main.c:95-125).
LEMMA OwnFlags ==
    ASSUME NEW m \in Memory, NEW f \in Frame, NEW n, n = OwnFrame(m, f)
    PROVE  /\ n.recevice_message <=>
                  \/ m.recevice_message
                  \/ f.type = MSG_REMOTE_TYPE_SINGLE_MODE_STEERING
                  \/ /\ f.type = MSG_REMOTE_TYPE_TRUCK_POOLING_REQUEST
                     /\ m.state \in {STATE_CAR_SINGLE_MODE, STATE_CAR_TRUCK_POOLING_PENDING}
           /\ n.slave_message <=>
                  \/ m.slave_message
                  \/ /\ f.type \in {MSG_REMOTE_TYPE_TRUCK_POOLING_REQUEST,
                                    MSG_REMOTE_TYPE_TRUCK_POOLING_SLAVE}
                     /\ m.state = STATE_CAR_TRUCK_POOLING_SLAVE
           /\ n.receive_ack <=> m.receive_ack
           /\ \/ n.state = m.state
              \/ n.state = STATE_CAR_TRUCK_POOLING_PENDING /\ n.recevice_message
<1>. DEFINE s == Stored(m, f)
            wakes == \/ f.type = MSG_REMOTE_TYPE_SINGLE_MODE_STEERING
                     \/ /\ f.type = MSG_REMOTE_TYPE_TRUCK_POOLING_REQUEST
                        /\ m.state = STATE_CAR_TRUCK_POOLING_PENDING
            turns == /\ f.type = MSG_REMOTE_TYPE_TRUCK_POOLING_REQUEST
                     /\ m.state = STATE_CAR_SINGLE_MODE
            pools == /\ f.type \in {MSG_REMOTE_TYPE_TRUCK_POOLING_REQUEST,
                                    MSG_REMOTE_TYPE_TRUCK_POOLING_SLAVE}
                     /\ m.state = STATE_CAR_TRUCK_POOLING_SLAVE
<1>1. m.state # 1
  BY DEF Memory, CarStates
<1>2. s \in Memory
  BY MemoryUpdates
<1>3. /\ s.state = m.state /\ s.recevice_message = m.recevice_message
      /\ s.slave_message = m.slave_message /\ s.receive_ack = m.receive_ack
  BY DEF Stored, Memory
<1>4. \/ n = [s EXCEPT !.recevice_message = TRUE] /\ wakes /\ ~pools
      \/ /\ n = [s EXCEPT !.state = STATE_CAR_TRUCK_POOLING_PENDING,
                          !.next_state = STATE_CAR_TRUCK_POOLING_PENDING,
                          !.recevice_message = TRUE]
         /\ turns /\ ~pools
      \/ n = [s EXCEPT !.slave_message = TRUE] /\ ~wakes /\ ~turns /\ pools
      \/ n = s /\ ~wakes /\ ~turns /\ ~pools
  <2>. HIDE DEF s
  <2>1. CASE wakes
    BY <1>1, <2>1 DEF OwnFrame, s
  <2>2. CASE turns
    BY <1>1, <2>2 DEF OwnFrame, s
  <2>3. CASE pools /\ ~wakes
    BY <1>1, <2>3 DEF OwnFrame, s
  <2>4. CASE ~wakes /\ ~turns /\ ~pools
    BY <1>1, <2>4 DEF OwnFrame, s
  <2>. QED  BY <2>1, <2>2, <2>3, <2>4
<1>. HIDE DEF s
<1>5. /\ n.recevice_message <=> (m.recevice_message \/ wakes \/ turns)
      /\ n.slave_message <=> (m.slave_message \/ pools)
      /\ n.receive_ack <=> m.receive_ack
      /\ \/ n.state = m.state
         \/ n.state = STATE_CAR_TRUCK_POOLING_PENDING /\ n.recevice_message
  <2>1. CASE n = [s EXCEPT !.recevice_message = TRUE] /\ wakes /\ ~pools
    BY <1>2, <1>3, <2>1 DEF Memory
  <2>2. CASE /\ n = [s EXCEPT !.state = STATE_CAR_TRUCK_POOLING_PENDING,
                              !.next_state = STATE_CAR_TRUCK_POOLING_PENDING,
                              !.recevice_message = TRUE]
             /\ turns /\ ~pools
    BY <1>2, <1>3, <2>2 DEF Memory
  <2>3. CASE n = [s EXCEPT !.slave_message = TRUE] /\ ~wakes /\ ~turns /\ pools
    BY <1>2, <1>3, <2>3 DEF Memory
  <2>4. CASE n = s /\ ~wakes /\ ~turns /\ ~pools
    BY <1>2, <1>3, <2>4 DEF Memory
  <2>. QED  BY <1>4, <2>1, <2>2, <2>3, <2>4
<1>. QED  BY <1>5

\* When a frame of another id does (main.c:127-157).
LEMMA OtherFlags ==
    ASSUME NEW m \in Memory, NEW id \in Ids, NEW f \in Frame, NEW n,
           n = OtherFrame(m, id, f)
    PROVE  /\ n.recevice_message <=>
                  \/ m.recevice_message
                  \/ /\ f.type = MSG_REMOTE_TYPE_ADVERTISE_AVAILABLE
                     /\ m.state = STATE_CAR_WAIT_FOR_REMOTE
                     /\ id = 0 \/ m.remote_msg.senderID = id
                  \/ /\ f.type = MSG_CAR_TYPE_SPEED_INFO
                     /\ m.state = STATE_CAR_TRUCK_POOLING_PENDING
           /\ n.receive_ack <=>
                  \/ m.receive_ack
                  \/ /\ f.type = MSG_CAR_TYPE_ACKNOWLEDGE_MASTER
                     /\ m.state = STATE_CAR_TRUCK_POOLING_MASTER
           /\ n.slave_message <=> m.slave_message
           /\ n.state = m.state
           /\ n.remote_msg # m.remote_msg => n.recevice_message
<1>1. CASE /\ f.type = MSG_REMOTE_TYPE_ADVERTISE_AVAILABLE
           /\ m.state = STATE_CAR_WAIT_FOR_REMOTE
           /\ id = 0 \/ m.remote_msg.senderID = id
  <2>. DEFINE s == Stored(m, f)
  <2>1. s \in Memory
    BY MemoryUpdates
  <2>2. /\ s.state = m.state /\ s.slave_message = m.slave_message
        /\ s.receive_ack = m.receive_ack
    BY DEF Stored, Memory
  <2>3. n = [s EXCEPT !.next_state = STATE_CAR_SINGLE_MODE, !.recevice_message = TRUE]
    <3>. HIDE DEF s
    <3>. QED  BY <1>1 DEF OtherFrame, s
  <2>. HIDE DEF s
  <2>. QED  BY <1>1, <2>1, <2>2, <2>3 DEF Memory
<1>2. CASE ~(/\ f.type = MSG_REMOTE_TYPE_ADVERTISE_AVAILABLE
             /\ m.state = STATE_CAR_WAIT_FOR_REMOTE
             /\ id = 0 \/ m.remote_msg.senderID = id)
  BY <1>2 DEF OtherFrame, Memory
<1>. QED  BY <1>1, <1>2

\* A frame that ends none of the car's waits does not do so when it comes again: the
\* handler moves the car to no state in which it would (main.c:89-161).
LEMMA HeardAgain ==
    ASSUME NEW m \in Memory, NEW id \in Ids, NEW f \in Frame, NEW n,
           n = EventHandler(m, id, f), NEW o, o = EventHandler(n, id, f)
    PROVE  /\ ~n.recevice_message => ~o.recevice_message
           /\ ~n.slave_message => ~o.slave_message
           /\ ~n.receive_ack => ~o.receive_ack
<1>1. n \in Memory
  BY HandlerType
<1>2. CASE f.id = id
  <2>1. n = OwnFrame(m, f) /\ o = OwnFrame(n, f)
    BY <1>2 DEF EventHandler
  <2>2. ~n.recevice_message => ~o.recevice_message
    BY <1>1, <2>1, OwnFlags DEF Memory
  <2>3. ~n.slave_message => ~o.slave_message
    BY <1>1, <2>1, OwnFlags DEF Memory
  <2>4. ~n.receive_ack => ~o.receive_ack
    BY <1>1, <2>1, OwnFlags DEF Memory
  <2>. QED  BY <2>2, <2>3, <2>4
<1>3. CASE f.id # id
  <2>1. n = OtherFrame(m, id, f) /\ o = OtherFrame(n, id, f)
    BY <1>3 DEF EventHandler
  <2>2. ~n.recevice_message => ~o.recevice_message
    BY <1>1, <2>1, OtherFlags DEF Memory
  <2>3. ~n.slave_message => ~o.slave_message
    BY <1>1, <2>1, OtherFlags DEF Memory
  <2>4. ~n.receive_ack => ~o.receive_ack
    BY <1>1, <2>1, OtherFlags DEF Memory
  <2>. QED  BY <2>2, <2>3, <2>4
<1>. QED  BY <1>2, <1>3

\* Hearing a frame keeps a car's session as it should be.
LEMMA HearCarSession ==
    ASSUME TypeOK, NEW c \in Cars, CarSession(c), NEW p, p.frame \in Frame,
           \/ mem'[c] = mem[c] /\ seen'[c] = seen[c]
           \/ mem'[c] = EventHandler(mem[c], my_id[c], p.frame) /\ seen'[c] = p,
           pc'[c] = pc[c], my_id'[c] = my_id[c], listening'[c] = listening[c]
    PROVE  CarSession(c)'
<1>0. mem[c] \in Memory /\ my_id[c] \in Ids
  BY DEF TypeOK
<1>1. CASE mem'[c] = mem[c] /\ seen'[c] = seen[c]
  BY <1>1 DEF CarSession, CarWaits, EndsCarWait
<1>2. CASE mem'[c] = EventHandler(mem[c], my_id[c], p.frame) /\ seen'[c] = p
  <2>1. ~EndsCarWait(c, p.frame)'
    BY <1>0, <1>2, HeardAgain DEF EndsCarWait
  <2>. QED  BY <1>2, <2>1 DEF CarSession, CarWaits
<1>. QED  BY <1>1, <1>2

\* ... and a remote's.
LEMMA HearRemoteSession ==
    ASSUME RemoteTypeOK, NEW r \in Remotes, RemoteSession(r), NEW p, p.frame \in Frame,
           \/ rmem'[r] = rmem[r] /\ seen'[r] = seen[r]
           \/ /\ rmem'[r] = RemoteHandler(rmem[r], remote_msg[r].senderID, p.frame)
              /\ seen'[r] = p,
           rpc'[r] = rpc[r], remote_msg'[r] = remote_msg[r], rlistening'[r] = rlistening[r]
    PROVE  RemoteSession(r)'
<1>0. rmem[r] \in RemoteMemory
  BY DEF RemoteTypeOK, RemoteMemory
<1>1. CASE rmem'[r] = rmem[r] /\ seen'[r] = seen[r]
  BY <1>1 DEF RemoteSession, EndsRemoteWait
<1>2. CASE /\ rmem'[r] = RemoteHandler(rmem[r], remote_msg[r].senderID, p.frame)
           /\ seen'[r] = p
  <2>1. ~EndsRemoteWait(r, p.frame)'
    BY <1>0, <1>2 DEF EndsRemoteWait, RemoteHandler, RemoteMemory
  <2>. QED  BY <1>2, <2>1 DEF RemoteSession
<1>. QED  BY <1>1, <1>2

\* A car that begins to wait begins a session.
LEMMA LocalSession ==
    ASSUME TypeOK, SessionInv, NEW c \in Cars, CarStep(c)
    PROVE  SessionInv'
<1>1. /\ DOMAIN seen' = Nodes
      /\ \A n \in Nodes \ {c} : seen'[n] = seen[n]
      /\ pc[c] \in {"enter", "slave"} => seen'[c] = None
  BY DEF CarStep, SessionInv, Nodes
<1>2. CarSession(c)'
  <2>1. CarWaits(c)' => pc[c] \in {"enter", "slave"} /\ listening'[c]
    BY DEF CarStep, LocalStep, Booted, Clear, Listen, Heard, TimedOut, DropState, DropNext,
           Dispatch, Halt, Await, Adopt, ReadTurn, SetMotors, SetFollow, SlaveListen,
           SlaveHeard, SlaveTimedOut, MasterAcked, MasterTimedOut, EndBody, Goto, CarWaits,
           TypeOK
  <2>. QED  BY <1>1, <2>1 DEF CarSession
<1>3. ASSUME NEW d \in Cars \ {c}
      PROVE  CarSession(d)'
  <2>1. /\ pc'[d] = pc[d] /\ mem'[d] = mem[d] /\ my_id'[d] = my_id[d]
        /\ listening'[d] = listening[d] /\ seen'[d] = seen[d]
    BY <1>1
       DEF CarStep, LocalStep, Booted, Clear, Listen, Heard, TimedOut, DropState, DropNext,
           Dispatch, Halt, Await, Adopt, ReadTurn, SetMotors, SetFollow, SlaveListen,
           SlaveHeard, SlaveTimedOut, MasterAcked, MasterTimedOut, EndBody, Goto, TypeOK, Nodes
  <2>2. CarSession(d)
    BY DEF SessionInv
  <2>. QED  BY <2>1, <2>2 DEF CarSession, CarWaits, EndsCarWait
<1>4. ASSUME NEW r \in Remotes
      PROVE  RemoteSession(r)'
  <2>1. seen'[r] = seen[r] /\ UNCHANGED remoteVars
    BY <1>1, NodesAssumption DEF CarStep, Nodes
  <2>. QED  BY <2>1 DEF SessionInv, RemoteSession, EndsRemoteWait, remoteVars
<1>. QED  BY <1>1, <1>2, <1>3, <1>4 DEF SessionInv

\* A sender begins a session too, and whoever hears it keeps his as it should be.
LEMMA DeliverSession ==
    ASSUME TypeOK, RemoteTypeOK, SessionInv, NEW s \in Nodes, NEW p, p.frame \in Frame,
           NEW H \in SUBSET (Receivers(p) \ {s}), Deliver(s, p, H),
           \A c \in Cars \ {s} :
               /\ mem'[c] = IF c \in H THEN EventHandler(mem[c], my_id[c], p.frame) ELSE mem[c]
               /\ pc'[c] = pc[c] /\ my_id'[c] = my_id[c] /\ listening'[c] = listening[c],
           \A r \in Remotes \ {s} :
               /\ rmem'[r] = IF r \in H
                             THEN RemoteHandler(rmem[r], remote_msg[r].senderID, p.frame)
                             ELSE rmem[r]
               /\ rpc'[r] = rpc[r] /\ remote_msg'[r] = remote_msg[r]
               /\ rlistening'[r] = rlistening[r],
           s \in Cars => (CarWaits(s)' => listening'[s]),
           s \in Remotes => rlistening'[s]
    PROVE  SessionInv'
<1>1. /\ DOMAIN seen' = Nodes /\ seen'[s] = None
      /\ \A n \in Nodes \ {s} : seen'[n] = IF n \in H THEN p ELSE seen[n]
  BY DEF Deliver
<1>2. ASSUME NEW c \in Cars
      PROVE  CarSession(c)'
  <2>1. CASE c = s
    BY <1>1, <2>1 DEF CarSession
  <2>2. CASE c # s
    <3>1. CarSession(c) /\ c \in Nodes
      BY DEF SessionInv, Nodes
    <3>. QED  BY <1>1, <2>2, <3>1, HearCarSession
  <2>. QED  BY <2>1, <2>2
<1>3. ASSUME NEW r \in Remotes
      PROVE  RemoteSession(r)'
  <2>1. CASE r = s
    BY <1>1, <2>1 DEF RemoteSession
  <2>2. CASE r # s
    <3>1. RemoteSession(r) /\ r \in Nodes
      BY DEF SessionInv, Nodes
    <3>. QED  BY <1>1, <2>2, <3>1, HearRemoteSession
  <2>. QED  BY <2>1, <2>2
<1>. QED  BY <1>1, <1>2, <1>3 DEF SessionInv

\* Every step keeps the sessions.
LEMMA SessionStep ==
    ASSUME Invariant, SessionInv, [Next]_vars
    PROVE  SessionInv'
<1>0. TypeOK /\ RemoteTypeOK
  BY DEF Invariant
<1>1. ASSUME NEW c \in Cars, CarStep(c)
      PROVE  SessionInv'
  BY <1>0, <1>1, LocalSession
<1>2. ASSUME NEW c \in Cars, CarSends(c)
      PROVE  SessionInv'
  <2>. DEFINE p == NextPacket(c)
  <2>1. p.frame = SentFrame(c) /\ SentFrame(c) \in Frame
    BY <1>0, <1>2, SentFrameType, PacketFrame DEF NextPacket, CarSends
  <2>. HIDE DEF p
  <2>2. PICK H \in SUBSET (Receivers(p) \ {c}) :
            /\ Deliver(c, p, H)
            /\ Transmit(c, H \cap Cars)
            /\ RemotesHear(H \cap Remotes, SentFrame(c))
            /\ UNCHANGED <<rpc, remote_msg, rnext, rwait, rtries, rlistening>>
    BY <1>2 DEF CarSends, p
  <2>3. \A d \in Cars \ {c} :
            /\ mem'[d] = IF d \in H THEN EventHandler(mem[d], my_id[d], p.frame) ELSE mem[d]
            /\ pc'[d] = pc[d] /\ my_id'[d] = my_id[d] /\ listening'[d] = listening[d]
    BY <1>0, <2>1, <2>2 DEF Transmit, SendAck, SendRequest, SendSpeed, CarsHear, TypeOK
  <2>4. \A r \in Remotes \ {c} :
            /\ rmem'[r] = IF r \in H
                          THEN RemoteHandler(rmem[r], remote_msg[r].senderID, p.frame)
                          ELSE rmem[r]
            /\ rpc'[r] = rpc[r] /\ remote_msg'[r] = remote_msg[r]
            /\ rlistening'[r] = rlistening[r]
    BY <2>1, <2>2 DEF RemotesHear
  <2>5. CarWaits(c)' => listening'[c]
    BY <1>0, <2>2 DEF Transmit, SendAck, SendRequest, SendSpeed, CarWaits, TypeOK
  <2>6. c \in Nodes /\ c \notin Remotes
    BY NodesAssumption DEF Nodes
  <2>. QED  BY <1>0, <2>1, <2>2, <2>3, <2>4, <2>5, <2>6, DeliverSession
<1>3. ASSUME NEW c \in Cars, CarReset(c)
      PROVE  SessionInv'
  <2>1. /\ DOMAIN seen' = Nodes /\ \A n \in Nodes \ {c} : seen'[n] = seen[n]
        /\ UNCHANGED remoteVars
    BY <1>3 DEF CarReset, SessionInv
  <2>2. ~CarWaits(c)'
    BY <1>0, <1>3 DEF CarReset, PowerCycle, CarWaits, TypeOK
  <2>3. \A d \in Cars \ {c} : /\ pc'[d] = pc[d] /\ mem'[d] = mem[d] /\ my_id'[d] = my_id[d]
                              /\ listening'[d] = listening[d]
    BY <1>0, <1>3 DEF CarReset, PowerCycle, TypeOK
  <2>4. \A d \in Cars : CarSession(d)'
    BY <2>1, <2>2, <2>3 DEF SessionInv, CarSession, CarWaits, EndsCarWait, Nodes
  <2>5. \A r \in Remotes : RemoteSession(r)'
    BY <2>1, NodesAssumption DEF SessionInv, RemoteSession, EndsRemoteWait, Nodes, remoteVars
  <2>. QED  BY <2>1, <2>4, <2>5 DEF SessionInv
<1>4. ASSUME NEW r \in Remotes, RemoteRound(r)
      PROVE  SessionInv'
  <2>1. UNCHANGED <<carVars, seen>>
    BY <1>4 DEF RemoteRound, airVars
  <2>2. rpc'[r] # "listen"
    BY <1>0, <1>4 DEF RemoteRound, RemoteStep, SelectChannel, Advertise, Sample, SampleTurn,
           BeginSend, Answered, Unanswered, Return, EndRound, Delayed, RGoto, RemoteTypeOK
  <2>3. \A q \in Remotes \ {r} :
            /\ rpc'[q] = rpc[q] /\ rmem'[q] = rmem[q] /\ rlistening'[q] = rlistening[q]
            /\ remote_msg'[q] = remote_msg[q]
    BY <1>0, <1>4 DEF RemoteRound, RemoteStep, SelectChannel, Advertise, Sample, SampleTurn,
           Sampled, BeginSend, Answered, Unanswered, Return, EndRound, Delayed, RGoto,
           RemoteTypeOK
  <2>4. \A c \in Cars : CarSession(c)'
    BY <2>1 DEF SessionInv, CarSession, CarWaits, EndsCarWait, carVars
  <2>5. \A q \in Remotes : RemoteSession(q)'
    BY <2>1, <2>2, <2>3 DEF SessionInv, RemoteSession, EndsRemoteWait
  <2>. QED  BY <2>1, <2>4, <2>5 DEF SessionInv
<1>5. ASSUME NEW r \in Remotes, RemoteSends(r)
      PROVE  SessionInv'
  <2>. DEFINE p == Packet(RemoteSentFrame(r), 0)
  <2>1. p.frame = RemoteSentFrame(r) /\ p.frame \in Frame
    BY <1>0, RemoteFrameType, PacketFrame
  <2>. HIDE DEF p
  <2>2. PICK H \in SUBSET (Receivers(p) \ {r}) :
            /\ Deliver(r, p, H)
            /\ RemoteTransmit(r)
            /\ RemotesHear(H \cap Remotes, p.frame)
            /\ Environment(p.frame, H \cap Cars)
    BY <1>5 DEF RemoteSends, p
  <2>3. \A c \in Cars \ {r} :
            /\ mem'[c] = IF c \in H THEN EventHandler(mem[c], my_id[c], p.frame) ELSE mem[c]
            /\ pc'[c] = pc[c] /\ my_id'[c] = my_id[c] /\ listening'[c] = listening[c]
    BY <2>2 DEF Environment, CarsHear
  <2>4. \A q \in Remotes \ {r} :
            /\ rmem'[q] = IF q \in H
                          THEN RemoteHandler(rmem[q], remote_msg[q].senderID, p.frame)
                          ELSE rmem[q]
            /\ rpc'[q] = rpc[q] /\ remote_msg'[q] = remote_msg[q]
            /\ rlistening'[q] = rlistening[q]
    BY <1>0, <2>2 DEF RemotesHear, RemoteTransmit, RGoto, RemoteTypeOK
  <2>5. rlistening'[r]
    BY <1>0, <2>2 DEF RemoteTransmit, RemoteTypeOK
  <2>6. r \in Nodes /\ r \notin Cars
    BY NodesAssumption DEF Nodes
  <2>. QED  BY <1>0, <2>1, <2>2, <2>3, <2>4, <2>5, <2>6, DeliverSession
<1>6. CASE Tick
  <2>1. UNCHANGED <<pc, mem, my_id, listening, rpc, rmem, remote_msg, rlistening, seen>>
    BY <1>6 DEF Tick, CarsTick, RemotesTick, airVars
  <2>. QED  BY <2>1 DEF SessionInv, CarSession, CarWaits, EndsCarWait, RemoteSession,
                        EndsRemoteWait
<1>7. CASE UNCHANGED vars
  BY <1>7 DEF vars, carVars, remoteVars, airVars, SessionInv, CarSession, CarWaits,
              EndsCarWait, RemoteSession, EndsRemoteWait
<1>. QED  BY <1>1, <1>2, <1>3, <1>4, <1>5, <1>6, <1>7 DEF Next

\* For any number of cars and remotes, any losses and any resets: a message that a node
\* is waiting for is neither taken for a duplicate nor sent while its radio is off.
THEOREM AwaitedAlwaysHeard == Spec => []AwaitedIsHeard
<1>1. Init => SessionInv
  BY DEF Init, CarInit, RemoteInit, SessionInv, CarSession, CarWaits, RemoteSession
<1>2. Invariant /\ SessionInv /\ [Next]_vars => SessionInv'
  BY SessionStep
<1>3. SessionInv => AwaitedIsHeard
  <2>. SUFFICES ASSUME SessionInv, NEW p \in OnAir
                PROVE  /\ \A c \in Cars : EndsCarWait(c, p.frame) => c \in Receivers(p)
                       /\ \A r \in Remotes : EndsRemoteWait(r, p.frame) => r \in Receivers(p)
    BY DEF AwaitedIsHeard
  <2>1. p # None
    BY PacketHeard DEF OnAir, NextPacket
  <2>2. ASSUME NEW c \in Cars, EndsCarWait(c, p.frame)
        PROVE  c \in Receivers(p)
    <3>1. CarWaits(c)
      BY <2>2 DEF EndsCarWait, CarWaits
    <3>2. listening[c] /\ (seen[c] = None \/ ~EndsCarWait(c, seen[c].frame))
      BY <3>1 DEF SessionInv, CarSession
    <3>3. seen[c] # p
      BY <2>1, <2>2, <3>2
    <3>. QED  BY <3>2, <3>3 DEF Receivers, CarListeners
  <2>3. ASSUME NEW r \in Remotes, EndsRemoteWait(r, p.frame)
        PROVE  r \in Receivers(p)
    <3>1. rlistening[r] /\ (seen[r] = None \/ ~EndsRemoteWait(r, seen[r].frame))
      BY <2>3 DEF EndsRemoteWait, SessionInv, RemoteSession
    <3>2. seen[r] # p
      BY <2>1, <2>3, <3>1
    <3>. QED  BY <3>1, <3>2 DEF Receivers
  <2>. QED  BY <2>2, <2>3
<1>. QED  BY <1>1, <1>2, <1>3, SystemInvariant, PTL DEF Spec
=============================================================================
