---------------------------- MODULE CodecProofs ----------------------------
(***************************************************************************)
(* What the car reads is what the remote measured, for every value of the  *)
(* fields.                                                                 *)
(***************************************************************************)
EXTENDS Codec, TLAPS

\* rc_saadc.c:76-97: whatever the converter gives, also below 0, the position is one of
\* the 1024 that steering_speeds is made for.
LEMMA JoystickInRange ==
    \A adc : adc \in Int /\ adc <= 1023 => joystick_read(adc) \in Nat /\ joystick_read(adc) <= 1023
  BY DEF joystick_read

\* The four bytes of a word give the word back.
LEMMA WordOfBytes ==
    ASSUME NEW v \in Nat, v < 4294967296
    PROVE  Word(Byte(v, 1), Byte(v, 256), Byte(v, 65536), Byte(v, 16777216)) = v
<1>. DEFINE q1 == v \div 256
            q2 == v \div 65536
            q3 == v \div 16777216
<1>1. /\ v \div 1 = v /\ q1 \in Nat /\ q2 \in Nat /\ q3 \in Nat /\ q3 < 256
  BY SMT
<1>2. v % 256 = v - 256 * q1 /\ q1 % 256 = q1 - 256 * q2
  BY SMT
<1>3. q2 % 256 = q2 - 256 * q3 /\ q3 % 256 = q3
  BY SMT
<1>. HIDE DEF q1, q2, q3
<1>4. Byte(v, 1) = v - 256 * q1 /\ Byte(v, 256) = q1 - 256 * q2
  BY <1>1, <1>2, SMT DEF Byte, q1
<1>5. Byte(v, 65536) = q2 - 256 * q3 /\ Byte(v, 16777216) = q3
  BY <1>3, SMT DEF Byte, q2, q3
<1>. QED  BY <1>1, <1>4, <1>5, SMT DEF Word

\* A message of a remote, converted to its payload and back (rc_utilities.c:85-114), is
\* the same message, for all 32 bits of both axes.
THEOREM RemoteRoundTrip ==
    ASSUME NEW senderID, NEW type, NEW button,
           NEW x \in Nat, x < 4294967296, NEW y \in Nat, y < 4294967296
    PROVE  LET m == [senderID |-> senderID, type |-> type, x |-> x, y |-> y, button |-> button]
           IN  convert_payload_to_remote_message(convert_remote_message_to_payload(m)) = m
<1>. DEFINE m == [senderID |-> senderID, type |-> type, x |-> x, y |-> y, button |-> button]
            data == convert_remote_message_to_payload(m)
<1>1. /\ data[1] = senderID /\ data[2] = type /\ data[11] = button
      /\ data[3] = Byte(x, 1) /\ data[4] = Byte(x, 256)
      /\ data[5] = Byte(x, 65536) /\ data[6] = Byte(x, 16777216)
      /\ data[7] = Byte(y, 1) /\ data[8] = Byte(y, 256)
      /\ data[9] = Byte(y, 65536) /\ data[10] = Byte(y, 16777216)
  BY SMT DEF convert_remote_message_to_payload
<1>2. /\ Word(Byte(x, 1), Byte(x, 256), Byte(x, 65536), Byte(x, 16777216)) = x
      /\ Word(Byte(y, 1), Byte(y, 256), Byte(y, 65536), Byte(y, 16777216)) = y
  BY WordOfBytes, SMT
<1>. HIDE DEF data
<1>3. convert_payload_to_remote_message(data) = m
  BY <1>1, <1>2, SMT DEF convert_payload_to_remote_message
<1>. QED  BY <1>3, SMT DEF data

\* The speed of a master (rc_utilities.c:116-140) arrives limited to 100 either way,
\* unless it is 0: then it is any byte that the stack held.
THEOREM SpeedRoundTrip ==
    ASSUME NEW speed \in Int, speed >= -128, speed <= 127, NEW stack
    PROVE  /\ speed # 0 => speed_info_of(speed_info_converted(speed, stack)) =
                               IF speed > 100 THEN 100 ELSE IF speed < -100 THEN -100 ELSE speed
           /\ speed = 0 => speed_info_converted(speed, stack) = stack
<1>1. \A s \in Int : s >= 0 /\ s <= 100 => s % 256 = s
  OBVIOUS
<1>2. \A s \in Int : s < 0 /\ s >= -100 => s % 256 = s + 256
  OBVIOUS
<1>3. \A s \in Int : s >= -100 /\ s <= 100 => speed_info_of(s + 100) = s
  <2>. SUFFICES ASSUME NEW s \in Int, s >= -100, s <= 100
                PROVE  speed_info_of(s + 100) = s
    OBVIOUS
  <2>1. (s + 100) - 100 = s
    OBVIOUS
  <2>. QED  BY <1>1, <1>2, <2>1 DEF speed_info_of
<1>4. CASE speed > 100
  <2>1. speed_info_converted(speed, stack) = 200
    BY <1>4 DEF speed_info_converted
  <2>. QED  BY <1>3, <1>4, <2>1
<1>5. CASE speed < -100
  <2>1. speed_info_converted(speed, stack) = 0
    BY <1>5 DEF speed_info_converted
  <2>2. speed_info_of(0) = -100
    BY <1>3
  <2>. QED  BY <1>5, <2>1, <2>2
<1>6. CASE speed >= -100 /\ speed <= 100 /\ speed # 0
  <2>1. speed_info_converted(speed, stack) = speed + 100
    BY <1>6 DEF speed_info_converted
  <2>. QED  BY <1>3, <1>6, <2>1
<1>7. CASE speed = 0
  BY <1>7 DEF speed_info_converted
<1>. QED  BY <1>4, <1>5, <1>6, <1>7
=============================================================================
