------------------------------- MODULE Drive -------------------------------
(***************************************************************************)
(* What main.c of the car does with its motors: in single, pending and     *)
(* master mode by the stick of the remote, in slave mode by its turn and   *)
(* the distance to the master.  The messages and the modes are RcCar's.    *)
(*                                                                         *)
(* set_motors takes effect store by store, with a delay between the two    *)
(* pins of a bridge; a step is one store.                                  *)
(***************************************************************************)
EXTENDS Control, Codec

CONSTANTS
    Stick,      \* what the remote's converter measures of an axis of the stick
    Echoes,     \* distances to the master, in mm
    MaxError    \* the largest of them, off the desired distance

ASSUME DriveAssumption ==
    /\ Stick \subseteq Int
    /\ \A adc \in Stick : adc <= 1023
    /\ Echoes \subseteq Nat
    /\ MaxError \in Nat
    /\ \A mm \in Echoes \cup {0} : Abs(mm - DESIRED_DISTANCE) <= MaxError

VARIABLES
    local,      \* left_speed, right_speed, left_dir and right_dir of main
    distance,   \* kalman.x
    pid,        \* last_error, integral
    pins,       \* the direction pins of the two bridges
    channel,    \* the PWM values of the two bridges
    todo,       \* the stores set_motors has before it
    driver      \* history: who drives, "stick" or "distance", and the sample

driveVars == <<local, distance, pid, pins, channel, todo, driver>>

-----------------------------------------------------------------------------
PWM_TOP_VALUE == 511
Sides == {"left", "right"}

\* motor_in_4_b and motor_in_1_a drive a side forward, motor_in_3_b and motor_in_2_a
\* backward.
Pins == Sides \X {FORWARD, BACKWARD}

PinStore(side, dir, level) == [what |-> "pin", pin |-> <<side, dir>>, level |-> level]

PwmStore(side, speed) ==
    [what |-> "pwm", side |-> side, value |-> (PWM_TOP_VALUE - speed) % 65536]

\* Mutant: the new pin is set before the old one is cleared.
SideDir_set_first(side, dir) ==
    IF dir \in {FORWARD, BACKWARD}
    THEN <<PinStore(side, dir, TRUE), PinStore(side, 1 - dir, FALSE)>>
    ELSE <<>>

\* The switch of motor_set_dir: a direction that is neither is no case of it.
SideDir(side, dir) ==
    IF dir \in {FORWARD, BACKWARD}
    THEN <<PinStore(side, 1 - dir, FALSE), PinStore(side, dir, TRUE)>>
    ELSE <<>>

\* Mutant: equal directions set one side only.
set_motors_one_side(l) ==
    (IF l.left_dir = l.right_dir
     THEN SideDir("right", l.right_dir)
     ELSE SideDir("left", l.left_dir) \o SideDir("right", l.right_dir))
    \o <<PwmStore("left", l.left_speed), PwmStore("right", l.right_speed)>>

\* Mutant: equal speeds set one side only.
set_motors_one_speed(l) ==
    SideDir("right", l.right_dir) \o SideDir("left", l.left_dir) \o
    (IF l.left_speed = l.right_speed
     THEN <<PwmStore("right", l.right_speed)>>
     ELSE <<PwmStore("left", l.left_speed), PwmStore("right", l.right_speed)>>)

set_motors(l) ==
    (IF l.left_dir = l.right_dir
     THEN SideDir("right", l.right_dir) \o SideDir("left", l.left_dir)
     ELSE SideDir("left", l.left_dir) \o SideDir("right", l.right_dir))
    \o
    (IF l.left_speed = l.right_speed
     THEN <<PwmStore("right", l.right_speed), PwmStore("left", l.left_speed)>>
     ELSE <<PwmStore("left", l.left_speed), PwmStore("right", l.right_speed)>>)

Store ==
    /\ todo # <<>>
    /\ LET s == Head(todo) IN
       IF s.what = "pin" THEN pins' = [pins EXCEPT ![s.pin] = s.level] /\ UNCHANGED channel
                         ELSE channel' = [channel EXCEPT ![s.side] = s.value] /\ UNCHANGED pins
    /\ todo' = Tail(todo)
    /\ UNCHANGED <<local, distance, pid, driver>>

-----------------------------------------------------------------------------
\* STATE_CAR_WAIT_FOR_REMOTE
Halt ==
    /\ todo = <<>>
    /\ todo' = set_motors([left_speed |-> 0, right_speed |-> 0, left_dir |-> 0,
                           right_dir |-> 0])
    /\ driver' = [by |-> "nobody", turn |-> 512, throttle |-> 512]
    /\ UNCHANGED <<local, distance, pid, pins, channel>>

\* The remote's sample: y is the turn, x the throttle.
Sampled(y, x) == [senderID |-> 1, type |-> 1, x |-> joystick_read(x), y |-> joystick_read(y),
                  button |-> 0]

\* remote_msg of the car
Received(message) ==
    convert_payload_to_remote_message(convert_remote_message_to_payload(message))

\* STATE_CAR_SINGLE_MODE, _PENDING, _MASTER
DriveByStick(y, x) ==
    /\ todo = <<>>
    /\ LET remote_msg == Received(Sampled(y, x)) IN
           local' = steering_speeds(remote_msg.y, remote_msg.x)
    /\ todo' = set_motors(local')
    /\ driver' = [by |-> "stick", turn |-> joystick_read(y), throttle |-> joystick_read(x)]
    /\ UNCHANGED <<distance, pid, pins, channel>>

\* kalman_update moves its estimate by a part of the way to the measured value.
Filtered(estimate, measured) ==
    {d \in Echoes \cup {estimate} :
        (estimate <= d /\ d <= measured) \/ (measured <= d /\ d <= estimate)}

\* The echo rises that many ticks after SysTick was started.
EchoDelay == 28800

\* STATE_CAR_TRUCK_POOLING_SLAVE.  The call passes &left_dir for left_speed as well, so
\* that the left speed is stored over the left direction and left_speed stays old.
DriveByDistance(y, mm) ==
    /\ todo = <<>>
    /\ \E d \in Filtered(distance, ultrasound_get_distance(SYSTICK_TOP - EchoDelay,
                                                           (mm * 58 * 64) \div 10)) :
           LET control == get_speed(pid, d)
               s == steering_speeds(Received(Sampled(y, y)).y, control.speed) IN
           /\ distance' = d
           /\ pid' = control.pid
           /\ local' = [s EXCEPT !.left_speed = local.left_speed, !.left_dir = s.left_speed]
           /\ driver' = [by |-> "distance", turn |-> joystick_read(y),
                         throttle |-> control.speed]
    /\ todo' = set_motors(local')
    /\ UNCHANGED <<pins, channel>>

\* main.c:330-337 and motor_init
DriveInit ==
    /\ local = [left_speed |-> 400, right_speed |-> 0, left_dir |-> 0, right_dir |-> 0]
    /\ distance = 0
    /\ pid = [last_error |-> 0, integral |-> 0]
    /\ pins = [p \in Pins |-> p[2] = FORWARD]
    /\ channel = [side \in Sides |-> PWM_TOP_VALUE]
    /\ todo = <<>>
    /\ driver = [by |-> "nobody", turn |-> 512, throttle |-> 512]

DriveNext ==
    \/ Store
    \/ Halt
    \/ \E y, x \in Stick : DriveByStick(y, x)
    \/ \E y \in Stick, mm \in Echoes : DriveByDistance(y, mm)

DriveSpec == DriveInit /\ [][DriveNext]_driveVars
=============================================================================
