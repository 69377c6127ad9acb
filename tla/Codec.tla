------------------------------- MODULE Codec -------------------------------
(***************************************************************************)
(* What lies between the stick of a remote and the numbers a car steers    *)
(* by: the reading of the converter, and the bytes of rc_utilities.c.      *)
(***************************************************************************)
EXTENDS Integers, Sequences

\* The 10-bit converter may give a little less than 0.
joystick_read(adc) == 1023 - (IF adc < 0 THEN 0 ELSE adc)

-----------------------------------------------------------------------------
\* (uint8_t)(v >> n), where place is 2^n
Byte(v, place) == (v \div place) % 256

Word(b0, b1, b2, b3) == b0 + 256 * b1 + 65536 * b2 + 16777216 * b3

convert_remote_message_to_payload(m) ==
    <<m.senderID, m.type,
      Byte(m.x, 1), Byte(m.x, 256), Byte(m.x, 65536), Byte(m.x, 16777216),
      Byte(m.y, 1), Byte(m.y, 256), Byte(m.y, 65536), Byte(m.y, 16777216),
      m.button>>

convert_payload_to_remote_message(data) ==
    [senderID |-> data[1], type |-> data[2],
     x |-> Word(data[3], data[4], data[5], data[6]),
     y |-> Word(data[7], data[8], data[9], data[10]),
     button |-> data[11]]

-----------------------------------------------------------------------------
\* A speed of 0 is no case of convert_master_message_to_payload: what is sent is what
\* the stack held.
speed_info_converted(speed_info, stack) ==
    CASE speed_info > 100 -> 200
      [] speed_info > 0 /\ speed_info <= 100 -> speed_info + 100
      [] speed_info < -100 -> 0
      [] speed_info < 0 /\ speed_info >= -100 -> speed_info + 100
      [] OTHER -> stack

\* data[2] - 100 in an int8_t
speed_info_of(byte) ==
    LET difference == (byte - 100) % 256 IN
    IF difference > 127 THEN difference - 256 ELSE difference
=============================================================================
