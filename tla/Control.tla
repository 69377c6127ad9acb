------------------------------ MODULE Control ------------------------------
(***************************************************************************)
(* The arithmetic of a car: rc_steering.c, rc_controller.c and             *)
(* rc_ultrasound.c on integers.  steering_speeds agrees with the doubles   *)
(* of the code for every position of the stick.  The controller computes   *)
(* in tenths (its output) and tenths of a millimetre second (its           *)
(* integral), without the rounding of the doubles.                         *)
(***************************************************************************)
EXTENDS Integers

Abs(i) == IF i < 0 THEN -i ELSE i

-----------------------------------------------------------------------------
BACKWARD == 0
FORWARD == 1
maxVal == 512

DeadZone(value, width) == IF Abs(value) < width THEN 0 ELSE value

\* throttle * 0.7 +- 150, cut off towards 0
Boost(throttle) ==
    CASE throttle > 0 -> (7 * throttle + 1500) \div 10
      [] throttle < 0 -> -((1500 - 7 * throttle) \div 10)
      [] OTHER -> 0

Turn(inturn) == DeadZone(inturn - 512, 10)

Throttle(inthrottle) == Boost(DeadZone(inthrottle - 512, 20))

LeftSide(turn, throttle) == IF throttle >= 0 THEN throttle + turn ELSE throttle - turn
RightSide(turn, throttle) == LeftSide(-turn, throttle)

Dir(side) == IF side >= 0 THEN FORWARD ELSE BACKWARD

\* Mutant: speeds beyond maxVal are not scaled down.
Normed_not(speed, other) == speed

\* speed / norm, rounded, where norm brings the faster side to maxVal
Normed(speed, other) ==
    LET faster == IF speed > other THEN speed ELSE other IN
    IF speed # other /\ faster > maxVal
    THEN (2 * maxVal * speed + faster) \div (2 * faster)
    ELSE speed

steering_speeds(inturn, inthrottle) ==
    LET left == LeftSide(Turn(inturn), Throttle(inthrottle))
        right == RightSide(Turn(inturn), Throttle(inthrottle)) IN
    [left_speed |-> Normed(Abs(left), Abs(right)), left_dir |-> Dir(left),
     right_speed |-> Normed(Abs(right), Abs(left)), right_dir |-> Dir(right)]

-----------------------------------------------------------------------------
DESIRED_DISTANCE == 100     \* mm
FullSpeed == 511

\* The controller's output before it is limited, in tenths: Kp = 10, Kd = 7 and Ki = 4
\* at an iteration time of 0.1 s.
Output(error, last_error, integral) ==
    100 * error + 700 * (error - last_error) + 4 * integral

Saturated(output) == output > 10 * FullSpeed \/ output < 0

get_speed(pid, measured) ==
    LET error == measured - DESIRED_DISTANCE
        integral == pid.integral + error
        output == Output(error, pid.last_error, integral) IN
    [pid |-> [last_error |-> error,
              integral |-> IF Saturated(output) THEN pid.integral ELSE integral],
     speed |-> CASE output > 10 * FullSpeed -> FullSpeed
                 [] output < 0 -> 0
                 [] OTHER -> output \div 10]

-----------------------------------------------------------------------------
SYSTICK_TOP == 1000000

\* The counter, which counts down and reloads, a number of ticks after a value.
Later(counter, ticks) == (counter - ticks) % SYSTICK_TOP

\* (start - stop) / 64 in 32 bits
MicrosecondsBetween(start, stop) ==
    (start - stop) \div 64 + (IF start < stop THEN 67108864 ELSE 0)

\* The distance measured when the echo pin is high for some ticks, in mm.
ultrasound_get_distance(start, ticks) ==
    (MicrosecondsBetween(start, Later(start, ticks)) * 10) \div 58
=============================================================================
