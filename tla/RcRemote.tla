------------------------------- MODULE RcRemote -------------------------------
(***************************************************************************)
(* The remote control firmware, rc_remote_propritary/main.c: the user      *)
(* selects a channel, then the loop of main sends one message per round    *)
(* and resends it until a car answers or the retries run out.  The radio's *)
(* event handler decides what counts as an answer.  Open like RcCar: which *)
(* frames reach a remote, and who hears the remote's, is up to RcSystem.   *)
(***************************************************************************)
EXTENDS RcMessages

CONSTANTS
    Remotes,
    RemoteTimeout,      \* TIMEOUT of the remote, main.c:45, in ticks
    RemoteRetries,      \* RETIRES of the remote, main.c:46
    AdvertTimeout,      \* main.c:261, in ticks
    DelayTime,          \* DELAYTIME, main.c:47, in ticks
    Channels,           \* what the second read of the buttons can return
    Positions,          \* pairs <<x, y>> the joystick can be read at
    Buttons             \* readings of the joystick button

ASSUME RemoteAssumption ==
    /\ {RemoteTimeout, RemoteRetries, AdvertTimeout} \subseteq Nat \ {0}
    /\ DelayTime \in Nat
    /\ Channels \subseteq Ids
    /\ Positions \subseteq Stick \X Stick
    /\ Buttons \subseteq BOOLEAN

VARIABLES
    rpc,        \* where the main loop is
    rmem,       \* what it shares with the event handler
    remote_msg, \* the message being sent: senderID, type, x, y, button
    rnext,      \* NEXT_STATE
    rwait,      \* ticks left in the delay loop
    rtries,     \* times the message was sent
    rlistening  \* is the radio in receive mode

remoteVars == <<rpc, rmem, remote_msg, rnext, rwait, rtries, rlistening>>
-----------------------------------------------------------------------------
(***************************************************************************)
(* nrf_esb_event_handler, main.c:76-109, for a frame of the remote's own   *)
(* id; car_msg is reduced to its type, its id is the remote's.             *)
(***************************************************************************)
AnswersExpected(state) ==
    CASE state = STATE_REMOTE_ADVERTISE_AVAILABLE -> {MSG_CAR_TYPE_CONNECTED_TO}
      [] state = STATE_REMOTE_SINGLE_MODE -> {MSG_CAR_TYPE_ACKNOWLEDGE}
      [] state = STATE_REMOTE_TRUCK_POOLING_PENDING ->
           {MSG_CAR_TYPE_ACKNOWLEDGE, MSG_CAR_TYPE_POOLING_SLAVE}
      [] state = STATE_REMOTE_TRUCK_POOLING_ENABLED -> {MSG_CAR_TYPE_POOLING_SLAVE}
      [] OTHER -> {}

RemoteHandler(m, id, f) ==
    IF f.id # id THEN m
    ELSE [m EXCEPT !.car_type = f.type,
                   !.receive_ack = @ \/ f.type \in AnswersExpected(m.state)]

RemotesHear(G, f) ==
    rmem' = [r \in Remotes |->
               IF r \in G THEN RemoteHandler(rmem[r], remote_msg[r].senderID, f)
               ELSE rmem[r]]
-----------------------------------------------------------------------------
RGoto(r, from, to) == rpc[r] = from /\ rpc' = [rpc EXCEPT ![r] = to]

\* main.c:242-250: the button is read a second time after it was seen pressed.
SelectChannel(r) ==
    /\ RGoto(r, "round", "next")
    /\ rmem[r].state = STATE_REMOTE_WAIT_FOR_CHANNEL_SELECT
    /\ \E b \in Channels : remote_msg' = [remote_msg EXCEPT ![r].senderID = b]
    /\ rnext' = [rnext EXCEPT ![r] = STATE_REMOTE_ADVERTISE_AVAILABLE]
    /\ UNCHANGED <<rmem, rwait, rtries, rlistening>>

\* main.c:252-256
Advertise(r) ==
    /\ RGoto(r, "round", "send")
    /\ rmem[r].state = STATE_REMOTE_ADVERTISE_AVAILABLE
    /\ remote_msg' = [remote_msg EXCEPT ![r].type = MSG_REMOTE_TYPE_ADVERTISE_AVAILABLE]
    /\ UNCHANGED <<rmem, rnext, rwait, rtries, rlistening>>

Sampled(r, type, x, y, b) ==
    remote_msg' = [remote_msg EXCEPT
                     ![r] = [senderID |-> @.senderID, type |-> type,
                             x |-> x, y |-> y, button |-> b]]

\* main.c:271-278 and 288-294: sample the joystick, then send.
Sample(r) ==
    /\ RGoto(r, "round", "send")
    /\ rmem[r].state \in {STATE_REMOTE_SINGLE_MODE, STATE_REMOTE_TRUCK_POOLING_PENDING}
    /\ \E p \in Positions, b \in Buttons :
         Sampled(r, IF rmem[r].state = STATE_REMOTE_SINGLE_MODE
                    THEN MSG_REMOTE_TYPE_SINGLE_MODE_STEERING
                    ELSE MSG_REMOTE_TYPE_TRUCK_POOLING_REQUEST, p[1], p[2], b)
    /\ UNCHANGED <<rmem, rnext, rwait, rtries, rlistening>>

\* main.c:302-316
SampleTurn(r) ==
    /\ RGoto(r, "round", "send")
    /\ rmem[r].state = STATE_REMOTE_TRUCK_POOLING_ENABLED
    /\ \E p \in Positions, b \in Buttons :
         /\ Sampled(r, IF b THEN MSG_REMOTE_TYPE_TRUCK_POOLING_STOP
                       ELSE MSG_REMOTE_TYPE_TRUCK_POOLING_SLAVE, 0, p[2], b)
         /\ rnext' = [rnext EXCEPT ![r] = IF b THEN STATE_REMOTE_SINGLE_MODE ELSE @]
    /\ UNCHANGED <<rmem, rwait, rtries, rlistening>>

\* Mutant: the answer to the last message is left standing.
BeginSend_keeps_ack(r) ==
    /\ RGoto(r, "send", "transmit")
    /\ rtries' = [rtries EXCEPT ![r] = 0]
    /\ UNCHANGED <<rmem, remote_msg, rnext, rwait, rlistening>>

\* Mutant: the retries of the last message are not forgotten.
BeginSend_keeps_tries(r) ==
    /\ RGoto(r, "send", "transmit")
    /\ rmem' = [rmem EXCEPT ![r].receive_ack = FALSE]
    /\ UNCHANGED <<remote_msg, rnext, rwait, rtries, rlistening>>

\* radio_send_and_ack_message, main.c:181-184
BeginSend(r) ==
    /\ RGoto(r, "send", "transmit")
    /\ rmem' = [rmem EXCEPT ![r].receive_ack = FALSE]
    /\ rtries' = [rtries EXCEPT ![r] = 0]
    /\ UNCHANGED <<remote_msg, rnext, rwait, rlistening>>

RemoteSentFrame(r) ==
    RemoteFrame(remote_msg[r].senderID, remote_msg[r].type, remote_msg[r].x, remote_msg[r].y)

\* Mutant: the attempts are not counted.
RemoteTransmit_uncounted(r) ==
    /\ RGoto(r, "transmit", "listen")
    /\ rwait' = [rwait EXCEPT ![r] =
                   IF rmem[r].state = STATE_REMOTE_ADVERTISE_AVAILABLE
                   THEN AdvertTimeout ELSE RemoteTimeout]
    /\ rlistening' = [rlistening EXCEPT ![r] = TRUE]
    /\ UNCHANGED <<remote_msg, rnext, rtries>>

\* main.c:188-199: the write and the turn to receive mode.  A car that answers
\* first spends 5 ms in radio_transmit_mode, the remote 3 ms in
\* radio_receive_mode, so no answer comes between the two.
RemoteTransmit(r) ==
    /\ RGoto(r, "transmit", "listen")
    /\ rtries' = [rtries EXCEPT ![r] = @ + 1]
    /\ rwait' = [rwait EXCEPT ![r] =
                   IF rmem[r].state = STATE_REMOTE_ADVERTISE_AVAILABLE
                   THEN AdvertTimeout ELSE RemoteTimeout]
    /\ rlistening' = [rlistening EXCEPT ![r] = TRUE]
    /\ UNCHANGED <<remote_msg, rnext>>

Answered(r) ==
    /\ RGoto(r, "listen", "return")
    /\ rmem[r].receive_ack
    /\ UNCHANGED <<rmem, remote_msg, rnext, rwait, rtries, rlistening>>

\* Mutant: one attempt too many.
Unanswered_once_more(r) ==
    /\ RGoto(r, "listen", IF rtries[r] <= RemoteRetries THEN "transmit" ELSE "return")
    /\ rwait[r] = 0
    /\ ~rmem[r].receive_ack
    /\ UNCHANGED <<rmem, remote_msg, rnext, rwait, rtries, rlistening>>

Unanswered(r) ==
    /\ RGoto(r, "listen", IF rtries[r] < RemoteRetries THEN "transmit" ELSE "return")
    /\ rwait[r] = 0
    /\ ~rmem[r].receive_ack
    /\ UNCHANGED <<rmem, remote_msg, rnext, rwait, rtries, rlistening>>

\* Mutant: a remote without an answer goes on as if it were connected.
Return_never_lost(r) ==
    /\ RGoto(r, "return", IF rmem[r].state = STATE_REMOTE_ADVERTISE_AVAILABLE
                             /\ ~rmem[r].receive_ack THEN "send" ELSE "next")
    /\ rnext' = [rnext EXCEPT ![r] =
                   IF rmem[r].receive_ack /\ @ = STATE_REMOTE_ADVERTISE_AVAILABLE
                   THEN STATE_REMOTE_SINGLE_MODE ELSE @]
    /\ UNCHANGED <<rmem, remote_msg, rwait, rtries, rlistening>>

\* The value returned is receive_ack as it is then (main.c:213), and each state
\* takes its next from it: main.c:262-266, 278-285, 294-299, 316-318.
Return(r) ==
    /\ rpc[r] = "return"
    /\ LET acked == rmem[r].receive_ack
           state == rmem[r].state
           next ==
             CASE state = STATE_REMOTE_ADVERTISE_AVAILABLE ->
                    IF acked THEN STATE_REMOTE_SINGLE_MODE ELSE rnext[r]
               [] ~acked -> STATE_REMOTE_ADVERTISE_AVAILABLE
               [] state = STATE_REMOTE_SINGLE_MODE /\ remote_msg[r].button ->
                    STATE_REMOTE_TRUCK_POOLING_PENDING
               [] state = STATE_REMOTE_TRUCK_POOLING_PENDING
                  /\ rmem[r].car_type = MSG_CAR_TYPE_POOLING_SLAVE ->
                    STATE_REMOTE_TRUCK_POOLING_ENABLED
               [] OTHER -> rnext[r]
       IN  /\ rnext' = [rnext EXCEPT ![r] = next]
           /\ rpc' = [rpc EXCEPT ![r] =
                        IF STATE_REMOTE_ADVERTISE_AVAILABLE = next /\ next = state
                        THEN "send" ELSE "next"]
    /\ UNCHANGED <<rmem, remote_msg, rwait, rtries, rlistening>>
\* STATE = NEXT_STATE and the delay, main.c:321-322; the radio stays as it is.
EndRound(r) ==
    /\ RGoto(r, "next", "delay")
    /\ rmem' = [rmem EXCEPT ![r].state = rnext[r]]
    /\ rwait' = [rwait EXCEPT ![r] = DelayTime]
    /\ UNCHANGED <<remote_msg, rnext, rtries, rlistening>>

Delayed(r) ==
    /\ RGoto(r, "delay", "round")
    /\ rwait[r] = 0
    /\ UNCHANGED <<rmem, remote_msg, rnext, rwait, rtries, rlistening>>

RemoteStep(r) ==
    \/ SelectChannel(r) \/ Advertise(r) \/ Sample(r) \/ SampleTurn(r)
    \/ BeginSend(r) \/ Answered(r) \/ Unanswered(r) \/ Return(r)
    \/ EndRound(r) \/ Delayed(r)
-----------------------------------------------------------------------------
\* The user takes any time to select a channel.
Resting(r) ==
    \/ rpc[r] = "round" /\ rmem[r].state = STATE_REMOTE_WAIT_FOR_CHANNEL_SELECT
    \/ rpc[r] = "listen" /\ rwait[r] > 0 /\ ~rmem[r].receive_ack
    \/ rpc[r] = "delay" /\ rwait[r] > 0

RemotesTick ==
    /\ \A r \in Remotes : Resting(r)
    /\ rwait' = [r \in Remotes |-> IF rwait[r] > 0 THEN rwait[r] - 1 ELSE 0]
    /\ UNCHANGED <<rpc, rmem, remote_msg, rnext, rtries, rlistening>>

\* main.c:230-239 and the statics above it
RemoteInit ==
    /\ rpc = [r \in Remotes |-> "round"]
    /\ rmem = [r \in Remotes |-> [state |-> STATE_REMOTE_WAIT_FOR_CHANNEL_SELECT,
                                  receive_ack |-> FALSE, car_type |-> 0]]
    /\ remote_msg = [r \in Remotes |-> [senderID |-> 0, type |-> 0, x |-> 0, y |-> 0,
                                        button |-> FALSE]]
    /\ rnext = [r \in Remotes |-> STATE_REMOTE_WAIT_FOR_CHANNEL_SELECT]
    /\ rwait = [r \in Remotes |-> 0]
    /\ rtries = [r \in Remotes |-> 0]
    /\ rlistening = [r \in Remotes |-> FALSE]
\* A remote among frames of any origin.
RemoteHears(f) ==
    /\ \E G \in SUBSET {r \in Remotes : rlistening[r]} : RemotesHear(G, f)
    /\ UNCHANGED <<rpc, remote_msg, rnext, rwait, rtries, rlistening>>

RemoteNext ==
    \/ \E r \in Remotes : RemoteStep(r)
    \/ \E r \in Remotes, G \in SUBSET {q \in Remotes : rlistening[q]} :
         r \notin G /\ RemoteTransmit(r) /\ RemotesHear(G, RemoteSentFrame(r))
    \/ \E f \in Frame : RemoteHears(f)
    \/ RemotesTick

RemoteSpec == RemoteInit /\ [][RemoteNext]_remoteVars
=============================================================================
