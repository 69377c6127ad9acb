----------------------------- MODULE DriveProps -----------------------------
(***************************************************************************)
(* What the motors do with the driver's wishes.                            *)
(***************************************************************************)
EXTENDS Drive

DriveTypeOK ==
    /\ local.left_speed \in 0 .. maxVal /\ local.right_speed \in 0 .. maxVal
    /\ local.left_dir \in 0 .. maxVal /\ local.right_dir \in {BACKWARD, FORWARD}
    /\ distance \in Int
    /\ pid.last_error \in Int /\ pid.integral \in Int
    /\ pins \in [Pins -> BOOLEAN]
    /\ channel \in [Sides -> 0 .. PWM_TOP_VALUE \cup {65535}]
    /\ driver.throttle \in 0 .. 1023

\* A bridge is never told both directions at once, not even between the stores of a
\* change of direction (rc_motor.h "12 LOW, 13 HIGH IS BACKWARD").
BridgesSafe ==
    \A side \in Sides : ~(pins[<<side, FORWARD>>] /\ pins[<<side, BACKWARD>>])

(***************************************************************************)
(* The PWM unit, external: bit 15 of a value inverts its polarity, and a   *)
(* value beyond the top never toggles.  65535, which a speed of 512 gives, *)
(* is full power by that accident.                                         *)
(***************************************************************************)
Duty(value) ==
    LET compare == IF value % 32768 > PWM_TOP_VALUE THEN PWM_TOP_VALUE ELSE value % 32768 IN
    IF value >= 32768 THEN compare ELSE PWM_TOP_VALUE - compare

Power(side) ==
    CASE pins[<<side, FORWARD>>] -> Duty(channel[side])
      [] pins[<<side, BACKWARD>>] -> -Duty(channel[side])
      [] OTHER -> 0

Sign(i) == IF i > 0 THEN 1 ELSE IF i < 0 THEN -1 ELSE 0

\* A car driven by stick does what the stick says: the two sides together push the way
\* of the throttle, their difference the way of the turn (mirrored when it backs), and
\* the stick at rest stands, whatever the bridges were told before, in whichever order
\* the sides are switched and scaled.
SteeredByStick ==
    LET forward == Sign(Throttle(driver.throttle))
        turn == Sign(Turn(driver.turn)) IN
    todo = <<>> /\ driver.by = "stick" =>
        /\ Sign(Power("left") + Power("right")) = forward
        /\ Sign(Power("left") - Power("right")) = (IF forward < 0 THEN -turn ELSE turn)

\* Nobody drives: nothing turns.
StandsStill == todo = <<>> /\ driver.by = "nobody" => \A side \in Sides : Power(side) = 0

\* The anti-windup bounds the integral by the largest error alone, whatever the
\* sequence of distances.
IntegralBounded == Abs(4 * pid.integral) <= 10 * FullSpeed + 1500 * MaxError

\* main.c:414 "Calculate foorward speed from ultrasound": a slave drives forward or
\* stands.
SlaveDrivesForward ==
    todo = <<>> /\ driver.by = "distance" /\ Turn(driver.turn) = 0 =>
        Power("left") + Power("right") >= 0
=============================================================================
