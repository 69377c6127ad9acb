----------------------------- MODULE RcMessages -----------------------------
(***************************************************************************)
(* The vocabulary of the radio protocol: the codes of                      *)
(* rc_messages_and_defines.h and the frame that carries them.  A frame is  *)
(* the 11-byte payload of rc_utilities.c, seen as a sender id, a message   *)
(* type and the two stick values; the button byte is left out (no car      *)
(* reads it).  A car frame only writes bytes 0 and 1 (and byte 2 for       *)
(* SPEED_INFO): whatever else its receiver decodes as stick values is the  *)
(* constant Junk.                                                          *)
(***************************************************************************)
EXTENDS Naturals

CONSTANTS
    Ids,        \* sender ids a frame can carry; 0 is the broadcast id of car frames
    Stick,      \* values of one joystick axis, as far as they need to be told apart
    Junk        \* what the stale payload bytes of a car frame decode to

ASSUME IdsAssumption == 0 \in Ids
ASSUME StickAssumption == 0 \in Stick /\ Junk \notin Stick

STATE_REMOTE_WAIT_FOR_CHANNEL_SELECT == 0
STATE_REMOTE_ADVERTISE_AVAILABLE     == 1
STATE_REMOTE_SINGLE_MODE             == 2
STATE_REMOTE_TRUCK_POOLING_PENDING   == 3
STATE_REMOTE_TRUCK_POOLING_ENABLED   == 4

MSG_REMOTE_TYPE_ADVERTISE_AVAILABLE   == 0
MSG_REMOTE_TYPE_SINGLE_MODE_STEERING  == 1
MSG_REMOTE_TYPE_TRUCK_POOLING_REQUEST == 2
MSG_REMOTE_TYPE_TRUCK_POOLING_SLAVE   == 3
MSG_REMOTE_TYPE_TRUCK_POOLING_STOP    == 4

STATE_CAR_WAIT_FOR_REMOTE       == 10
STATE_CAR_SINGLE_MODE           == 11
STATE_CAR_TRUCK_POOLING_PENDING == 12
STATE_CAR_TRUCK_POOLING_SLAVE   == 13
STATE_CAR_TRUCK_POOLING_MASTER  == 14

MSG_CAR_TYPE_CONNECTED_TO       == 10
MSG_CAR_TYPE_ACKNOWLEDGE        == 11
MSG_CAR_TYPE_REQUEST_POOLING    == 12
MSG_CAR_TYPE_POOLING_SLAVE      == 13
MSG_CAR_TYPE_SPEED_INFO         == 15
MSG_CAR_TYPE_ACKNOWLEDGE_MASTER == 16

RemoteStates == 0 .. 4
CarStates    == 10 .. 14
RemoteTypes  == 0 .. 4
CarTypes     == {10, 11, 12, 13, 15, 16}

Frame == [id : Ids, type : RemoteTypes \cup CarTypes,
          x : Stick \cup {Junk}, y : Stick \cup {Junk}]

\* convert_car_message_to_payload: bytes 2..10 keep what they held.
CarFrame(id, type) == [id |-> id, type |-> type, x |-> Junk, y |-> Junk]

\* convert_remote_message_to_payload
RemoteFrame(id, type, x, y) == [id |-> id, type |-> type, x |-> x, y |-> y]
=============================================================================
