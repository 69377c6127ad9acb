--------------------------- MODULE RcRemoteProofs ---------------------------
(***************************************************************************)
(* Theorems about the remote firmware, for any number of remotes, any      *)
(* frames around them, any time-outs and any number of retries.            *)
(***************************************************************************)
EXTENDS RcRemoteProps, TLAPS

USE DEF STATE_REMOTE_WAIT_FOR_CHANNEL_SELECT, STATE_REMOTE_ADVERTISE_AVAILABLE,
        STATE_REMOTE_SINGLE_MODE, STATE_REMOTE_TRUCK_POOLING_PENDING,
        STATE_REMOTE_TRUCK_POOLING_ENABLED,
        MSG_REMOTE_TYPE_ADVERTISE_AVAILABLE, MSG_REMOTE_TYPE_SINGLE_MODE_STEERING,
        MSG_REMOTE_TYPE_TRUCK_POOLING_REQUEST, MSG_REMOTE_TYPE_TRUCK_POOLING_SLAVE,
        MSG_REMOTE_TYPE_TRUCK_POOLING_STOP, MSG_CAR_TYPE_CONNECTED_TO,
        MSG_CAR_TYPE_ACKNOWLEDGE, MSG_CAR_TYPE_POOLING_SLAVE

RemoteMemory == [state : RemoteStates, receive_ack : BOOLEAN,
                 car_type : CarTypes \cup RemoteTypes]

Waits == 0 .. RemoteTimeout \cup 0 .. AdvertTimeout \cup 0 .. DelayTime

\* What a remote sends is a frame of the protocol.
LEMMA RemoteFrameType ==
    ASSUME RemoteTypeOK, NEW r \in Remotes
    PROVE  RemoteSentFrame(r) \in Frame
  BY DEF RemoteTypeOK, RemoteMessage, RemoteSentFrame, RemoteFrame, Frame

\* The event handler (main.c:76-109) keeps STATE, and never takes an answer back.
LEMMA RemoteHandlerEffect ==
    ASSUME NEW m \in RemoteMemory, NEW id \in Ids, NEW f \in Frame
    PROVE  /\ RemoteHandler(m, id, f) \in RemoteMemory
           /\ RemoteHandler(m, id, f).state = m.state
           /\ m.receive_ack => RemoteHandler(m, id, f).receive_ack
<1>1. f.type \in CarTypes \cup RemoteTypes
  BY DEF Frame
<1>2. CASE f.id # id
  BY <1>2 DEF RemoteHandler
<1>3. CASE f.id = id
  <2>. DEFINE ack == m.receive_ack \/ f.type \in AnswersExpected(m.state)
  <2>1. RemoteHandler(m, id, f) = [m EXCEPT !.car_type = f.type, !.receive_ack = ack]
    BY <1>3 DEF RemoteHandler, RemoteMemory
  <2>2. ack \in BOOLEAN /\ (m.receive_ack => ack)
    OBVIOUS
  <2>. HIDE DEF ack
  <2>. QED  BY <1>1, <2>1, <2>2 DEF RemoteMemory
<1>. QED  BY <1>2, <1>3

\* Hearing a frame touches nothing else.
LEMMA RemotesHearEffect ==
    ASSUME RemoteTypeOK, NEW G \in SUBSET Remotes, NEW f \in Frame, RemotesHear(G, f)
    PROVE  /\ rmem' \in [Remotes -> RemoteMemory]
           /\ \A r \in Remotes : /\ rmem'[r].state = rmem[r].state
                                 /\ rmem[r].receive_ack => rmem'[r].receive_ack
<1>1. \A r \in Remotes : rmem[r] \in RemoteMemory /\ remote_msg[r].senderID \in Ids
  BY DEF RemoteTypeOK, RemoteMessage, RemoteMemory
<1>2. rmem' = [r \in Remotes |->
                 IF r \in G THEN RemoteHandler(rmem[r], remote_msg[r].senderID, f)
                 ELSE rmem[r]]
  BY DEF RemotesHear
<1>. QED  BY <1>1, <1>2, RemoteHandlerEffect

\* A step of the main loop keeps the types and the count of the attempts.
LEMMA RemoteStepInvariant ==
    ASSUME RemoteTypeOK, RetriesExhausted, NEW r \in Remotes, RemoteStep(r)
    PROVE  RemoteTypeOK' /\ RetriesExhausted'
<1>0. /\ RemoteTimeout \in Nat \ {0} /\ RemoteRetries \in Nat \ {0}
      /\ AdvertTimeout \in Nat \ {0} /\ DelayTime \in Nat
  BY RemoteAssumption
<1>. USE DEF RGoto
<1>1. CASE SelectChannel(r)
  <2>1. PICK b \in Channels : remote_msg' = [remote_msg EXCEPT ![r].senderID = b]
    BY <1>1 DEF SelectChannel
  <2>2. remote_msg' \in [Remotes -> RemoteMessage]
    BY <2>1, RemoteAssumption, SMTT(30) DEF RemoteTypeOK, RemoteMessage
  <2>. QED  BY <1>1, <2>2 DEF SelectChannel, RemoteTypeOK, RetriesExhausted, RemotePcs,
                              RemoteStates
<1>2. CASE Advertise(r)
  <2>1. remote_msg' \in [Remotes -> RemoteMessage]
    BY <1>2 DEF Advertise, RemoteTypeOK, RemoteMessage, RemoteTypes
  <2>. QED  BY <1>2, <2>1 DEF Advertise, RemoteTypeOK, RetriesExhausted, RemotePcs
<1>3. CASE Sample(r)
  <2>1. remote_msg' \in [Remotes -> RemoteMessage]
    BY <1>3, RemoteAssumption DEF Sample, Sampled, RemoteTypeOK, RemoteMessage, RemoteTypes
  <2>. QED  BY <1>3, <2>1 DEF Sample, RemoteTypeOK, RetriesExhausted, RemotePcs
<1>4. CASE SampleTurn(r)
  <2>1. remote_msg' \in [Remotes -> RemoteMessage]
    BY <1>4, RemoteAssumption, StickAssumption
       DEF SampleTurn, Sampled, RemoteTypeOK, RemoteMessage, RemoteTypes
  <2>2. rnext' \in [Remotes -> RemoteStates]
    BY <1>4 DEF SampleTurn, RemoteTypeOK, RemoteStates
  <2>. QED  BY <1>4, <2>1, <2>2 DEF SampleTurn, RemoteTypeOK, RetriesExhausted, RemotePcs
<1>5. CASE BeginSend(r)
  <2>1. rmem' \in [Remotes -> RemoteMemory]
    BY <1>5 DEF BeginSend, RemoteTypeOK, RemoteMemory
  <2>2. rtries' \in [Remotes -> 0 .. RemoteRetries] /\ rtries'[r] = 0
    BY <1>0, <1>5 DEF BeginSend, RemoteTypeOK
  <2>3. \A q \in Remotes \ {r} : rmem'[q] = rmem[q] /\ rtries'[q] = rtries[q]
    BY <1>5 DEF BeginSend, RemoteTypeOK
  <2>. QED  BY <1>0, <1>5, <2>1, <2>2, <2>3
            DEF BeginSend, RemoteTypeOK, RetriesExhausted, RemotePcs, RemoteMemory
<1>6. CASE Answered(r)
  BY <1>6 DEF Answered, RemoteTypeOK, RetriesExhausted, RemotePcs
<1>7. CASE Unanswered(r)
  <2>1. rtries[r] \in 0 .. RemoteRetries
    BY DEF RemoteTypeOK
  <2>2. /\ rpc'[r] \in {"transmit", "return"}
        /\ rpc'[r] = "transmit" => rtries[r] < RemoteRetries
        /\ rpc'[r] = "return" => rtries[r] = RemoteRetries /\ rwait[r] = 0
    <3>1. rpc'[r] = IF rtries[r] < RemoteRetries THEN "transmit" ELSE "return"
      BY <1>7 DEF Unanswered, RemoteTypeOK
    <3>2. rwait[r] = 0
      BY <1>7 DEF Unanswered
    <3>3. ~(rtries[r] < RemoteRetries) => rtries[r] = RemoteRetries
      BY <1>0, <2>1
    <3>. QED  BY <3>1, <3>2, <3>3
  <2>3. rpc' \in [Remotes -> RemotePcs] /\ \A q \in Remotes \ {r} : rpc'[q] = rpc[q]
    BY <1>7 DEF Unanswered, RemoteTypeOK, RemotePcs
  <2>4. UNCHANGED <<rmem, remote_msg, rnext, rwait, rtries, rlistening>>
    BY <1>7 DEF Unanswered
  <2>5. RemoteTypeOK'
    BY <2>3, <2>4 DEF RemoteTypeOK
  <2>6. RetriesExhausted'
    BY <2>2, <2>3, <2>4 DEF RetriesExhausted
  <2>. QED  BY <2>5, <2>6
<1>8. CASE Return(r)
  <2>1. rnext' \in [Remotes -> RemoteStates]
    BY <1>8 DEF Return, RemoteTypeOK, RemoteStates
  <2>2. rpc' \in [Remotes -> RemotePcs] /\ rpc'[r] \in {"send", "next"}
    BY <1>8 DEF Return, RemoteTypeOK, RemotePcs
  <2>. QED  BY <1>8, <2>1, <2>2 DEF Return, RemoteTypeOK, RetriesExhausted
<1>9. CASE EndRound(r)
  <2>1. rmem' \in [Remotes -> RemoteMemory]
    BY <1>9 DEF EndRound, RemoteTypeOK, RemoteMemory
  <2>2. rwait' \in [Remotes -> Waits]
    BY <1>0, <1>9 DEF EndRound, RemoteTypeOK, Waits
  <2>3. \A q \in Remotes \ {r} : rmem'[q] = rmem[q] /\ rwait'[q] = rwait[q]
    BY <1>9 DEF EndRound, RemoteTypeOK
  <2>. QED  BY <1>9, <2>1, <2>2, <2>3
            DEF EndRound, RemoteTypeOK, RetriesExhausted, RemotePcs, RemoteMemory, Waits
<1>10. CASE Delayed(r)
  BY <1>10 DEF Delayed, RemoteTypeOK, RetriesExhausted, RemotePcs
<1>. QED  BY <1>1, <1>2, <1>3, <1>4, <1>5, <1>6, <1>7, <1>8, <1>9, <1>10 DEF RemoteStep

\* A transmission is one attempt more, of a remote that has one left.
LEMMA RemoteTransmitInvariant ==
    ASSUME RemoteTypeOK, RetriesExhausted, NEW r \in Remotes, NEW G \in SUBSET Remotes,
           NEW f \in Frame, RemoteTransmit(r), RemotesHear(G, f)
    PROVE  RemoteTypeOK' /\ RetriesExhausted'
<1>0. /\ RemoteTimeout \in Nat \ {0} /\ RemoteRetries \in Nat \ {0}
      /\ AdvertTimeout \in Nat \ {0} /\ DelayTime \in Nat
  BY RemoteAssumption
<1>1. /\ rmem' \in [Remotes -> RemoteMemory]
      /\ \A q \in Remotes : rmem[q].receive_ack => rmem'[q].receive_ack
  BY RemotesHearEffect
<1>2. rpc' \in [Remotes -> RemotePcs] /\ rpc'[r] = "listen"
  BY DEF RemoteTransmit, RGoto, RemoteTypeOK, RemotePcs
<1>3. rwait' \in [Remotes -> Waits]
  BY <1>0 DEF RemoteTransmit, RemoteTypeOK, Waits
<1>4. rtries' \in [Remotes -> 0 .. RemoteRetries]
  <2>1. rtries[r] \in 0 .. RemoteRetries /\ rtries[r] < RemoteRetries
    BY DEF RemoteTransmit, RGoto, RetriesExhausted, RemoteTypeOK
  <2>. QED  BY <1>0, <2>1 DEF RemoteTransmit, RemoteTypeOK
<1>5. \A q \in Remotes \ {r} :
          rpc'[q] = rpc[q] /\ rwait'[q] = rwait[q] /\ rtries'[q] = rtries[q]
  BY DEF RemoteTransmit, RGoto, RemoteTypeOK
<1>6. RemoteTypeOK'
  BY <1>1, <1>2, <1>3, <1>4 DEF RemoteTransmit, RemoteTypeOK, RemoteMemory, Waits
<1>7. RetriesExhausted'
  BY <1>1, <1>2, <1>5 DEF RetriesExhausted
<1>. QED  BY <1>6, <1>7

\* Neither frames from elsewhere nor time disturb the count.
LEMMA RemoteOtherInvariant ==
    ASSUME RemoteTypeOK, RetriesExhausted,
           (\E f \in Frame : RemoteHears(f)) \/ RemotesTick \/ UNCHANGED remoteVars
    PROVE  RemoteTypeOK' /\ RetriesExhausted'
<1>1. ASSUME NEW f \in Frame, RemoteHears(f)
      PROVE  RemoteTypeOK' /\ RetriesExhausted'
  <2>1. /\ rmem' \in [Remotes -> RemoteMemory]
        /\ \A q \in Remotes : rmem[q].receive_ack => rmem'[q].receive_ack
    BY <1>1, RemotesHearEffect DEF RemoteHears
  <2>. QED  BY <1>1, <2>1 DEF RemoteHears, RemoteTypeOK, RetriesExhausted, RemoteMemory
<1>2. CASE RemotesTick
  <2>1. rwait' \in [Remotes -> Waits]
    <3>. SUFFICES ASSUME NEW r \in Remotes
                  PROVE  (IF rwait[r] > 0 THEN rwait[r] - 1 ELSE 0) \in Waits
      BY <1>2 DEF RemotesTick
    <3>1. rwait[r] \in Waits
      BY DEF RemoteTypeOK, Waits
    <3>. QED  BY <3>1, RemoteAssumption DEF Waits
  <2>2. \A r \in Remotes : rpc[r] # "return"
    BY <1>2 DEF RemotesTick, Resting
  <2>. QED  BY <1>2, <2>1, <2>2 DEF RemotesTick, RemoteTypeOK, RetriesExhausted, Waits
<1>3. CASE UNCHANGED remoteVars
  BY <1>3 DEF remoteVars, RemoteTypeOK, RetriesExhausted
<1>. QED  BY <1>1, <1>2, <1>3

\* The types and the count of the attempts are an inductive invariant.
LEMMA RemoteInvariant ==
    ASSUME RemoteTypeOK, RetriesExhausted, [RemoteNext]_remoteVars
    PROVE  RemoteTypeOK' /\ RetriesExhausted'
<1>1. ASSUME NEW r \in Remotes, NEW G \in SUBSET {q \in Remotes : rlistening[q]},
             RemoteTransmit(r), RemotesHear(G, RemoteSentFrame(r))
      PROVE  RemoteTypeOK' /\ RetriesExhausted'
  BY <1>1, RemoteFrameType, RemoteTransmitInvariant
<1>. QED  BY <1>1, RemoteStepInvariant, RemoteOtherInvariant DEF RemoteNext

\* ... that holds of remotes switched on.
LEMMA RemoteInitInvariant ==
    ASSUME RemoteInit
    PROVE  RemoteTypeOK /\ RetriesExhausted
  BY RemoteAssumption, IdsAssumption, StickAssumption
     DEF RemoteInit, RemoteTypeOK, RetriesExhausted, RemotePcs, RemoteMessage, RemoteStates,
         RemoteTypes

\* Every variable of a remote keeps its type, the counter of the retries included.
THEOREM RemoteTypeCorrect == RemoteSpec => []RemoteTypeOK
<1>. QED  BY RemoteInitInvariant, RemoteInvariant, PTL DEF RemoteSpec

\* A remote takes its car for lost only after RETIRES unanswered attempts and the whole
\* of the last delay (main.c:181-213), whatever it hears and when.
THEOREM LostAfterRetries == RemoteSpec => []RetriesExhausted
<1>. QED  BY RemoteInitInvariant, RemoteInvariant, PTL DEF RemoteSpec
=============================================================================
