---------------------------- MODULE DriveProofs ----------------------------
(***************************************************************************)
(* The motors for every position of the stick and every distance: the      *)
(* bridges are safe between any two stores, the speeds fit, and the        *)
(* controller's integral stays bounded.                                    *)
(***************************************************************************)
EXTENDS DriveProps, CodecProofs, SequenceTheorems

Speeds == 0 .. maxVal
PwmValues == 0 .. PWM_TOP_VALUE \cup {65535}

Stores == [what : {"pin"}, pin : Pins, level : BOOLEAN]
          \cup [what : {"pwm"}, side : Sides, value : PwmValues]

Sets(store) == store.what = "pin" /\ store.level

\* The store that clears the other pin of the bridge.
Clears(store, other) == store = PinStore(other.pin[1], 1 - other.pin[2], FALSE)

\* Every store that sets a pin comes right after the one that clears the other.
Paired(stores) ==
    \A i \in 1 .. Len(stores) : Sets(stores[i]) => i > 1 /\ Clears(stores[i - 1], stores[i])

-----------------------------------------------------------------------------
\* What motor_set_dir and motor_set_speed store fits the pins and the PWM unit, also
\* for a speed of 512.
LEMMA StoreTypes ==
    /\ \A pin \in Pins, level \in BOOLEAN :
           PinStore(pin[1], pin[2], level) \in Stores /\ pin = <<pin[1], pin[2]>>
    /\ \A side \in Sides, speed \in Speeds : PwmStore(side, speed) \in Stores
<1>1. \A pin \in Pins, level \in BOOLEAN :
           PinStore(pin[1], pin[2], level) \in Stores /\ pin = <<pin[1], pin[2]>>
  BY DEF PinStore, Stores, Pins, Sides
<1>2. ASSUME NEW speed \in Speeds
      PROVE  (PWM_TOP_VALUE - speed) % 65536 \in PwmValues
  <2>1. CASE speed <= 511
    BY <2>1 DEF Speeds, maxVal, PwmValues, PWM_TOP_VALUE
  <2>2. CASE speed = 512
    <3>1. \A n \in Int : n + 1 = 0 => n % 65536 = 65535
      OBVIOUS
    <3>2. PWM_TOP_VALUE - speed \in Int /\ (PWM_TOP_VALUE - speed) + 1 = 0
      BY <2>2 DEF PWM_TOP_VALUE
    <3>. QED  BY <3>1, <3>2 DEF PwmValues
  <2>. QED  BY <2>1, <2>2 DEF Speeds, maxVal
<1>3. \A side \in Sides, speed \in Speeds : PwmStore(side, speed) \in Stores
  BY <1>2 DEF PwmStore, Stores
<1>. QED  BY <1>1, <1>3

\* Two procedures of paired stores, one after the other, are paired.
LEMMA PairedConcat ==
    ASSUME NEW s \in Seq(Stores), NEW t \in Seq(Stores), Paired(s), Paired(t)
    PROVE  s \o t \in Seq(Stores) /\ Paired(s \o t)
<1>. DEFINE st == s \o t
<1>1. /\ st \in Seq(Stores) /\ Len(st) = Len(s) + Len(t)
      /\ \A i \in 1 .. Len(s) + Len(t) : st[i] = IF i <= Len(s) THEN s[i] ELSE t[i - Len(s)]
      /\ Len(s) \in Nat /\ Len(t) \in Nat
  BY ConcatProperties
<1>2. ASSUME NEW i \in 1 .. Len(st), Sets(st[i])
      PROVE  i > 1 /\ Clears(st[i - 1], st[i])
  <2>. HIDE DEF st
  <2>1. CASE i <= Len(s)
    <3>1. st[i] = s[i] /\ i \in 1 .. Len(s)
      BY <1>1, <2>1
    <3>2. i > 1 /\ Clears(s[i - 1], s[i])
      BY <1>2, <3>1 DEF Paired
    <3>3. st[i - 1] = s[i - 1]
      BY <1>1, <3>1, <3>2, SMTT(30)
    <3>. QED  BY <3>1, <3>2, <3>3
  <2>2. CASE i > Len(s)
    <3>. DEFINE j == i - Len(s)
    <3>1. st[i] = t[j] /\ j \in 1 .. Len(t)
      BY <1>1, <2>2
    <3>2. j > 1 /\ Clears(t[j - 1], t[j])
      BY <1>2, <3>1 DEF Paired
    <3>3. i - 1 \in 1 .. Len(s) + Len(t) /\ ~(i - 1 <= Len(s)) /\ (i - 1) - Len(s) = j - 1
      BY <1>1, <3>1, <3>2
    <3>4. st[i - 1] = t[j - 1]
      BY <1>1, <3>3
    <3>. QED  BY <1>1, <3>1, <3>2, <3>3, <3>4
  <2>. QED  BY <1>1, <2>1, <2>2
<1>. QED  BY <1>1, <1>2 DEF Paired

\* The cases of motor_set_dir clear before they set.
LEMMA SideDirPaired ==
    ASSUME NEW side \in Sides, NEW dir
    PROVE  SideDir(side, dir) \in Seq(Stores) /\ Paired(SideDir(side, dir))
<1>1. CASE dir \in {FORWARD, BACKWARD}
  <2>. DEFINE clear == PinStore(side, 1 - dir, FALSE)
              set == PinStore(side, dir, TRUE)
  <2>1. clear \in Stores /\ set \in Stores /\ ~Sets(clear) /\ Clears(clear, set)
    BY <1>1 DEF PinStore, Stores, Pins, Sides, FORWARD, BACKWARD, Sets, Clears
  <2>2. SideDir(side, dir) = <<clear, set>>
    BY <1>1 DEF SideDir
  <2>. HIDE DEF clear, set
  <2>. QED  BY <2>1, <2>2 DEF Paired
<1>2. CASE dir \notin {FORWARD, BACKWARD}
  BY <1>2 DEF SideDir, Paired
<1>. QED  BY <1>1, <1>2

\* Everything set_motors does is paired.
LEMMA SetMotorsPaired ==
    ASSUME NEW l, l.left_speed \in Speeds, l.right_speed \in Speeds
    PROVE  set_motors(l) \in Seq(Stores) /\ Paired(set_motors(l))
<1>. DEFINE left == SideDir("left", l.left_dir)
            right == SideDir("right", l.right_dir)
            pwm_left == PwmStore("left", l.left_speed)
            pwm_right == PwmStore("right", l.right_speed)
<1>1. /\ left \in Seq(Stores) /\ Paired(left) /\ right \in Seq(Stores) /\ Paired(right)
  BY SideDirPaired DEF Sides
<1>2. /\ pwm_left \in Stores /\ ~Sets(pwm_left) /\ pwm_right \in Stores /\ ~Sets(pwm_right)
  BY StoreTypes DEF Sides, Sets, PwmStore
<1>. HIDE DEF left, right, pwm_left, pwm_right
<1>3. /\ <<pwm_left, pwm_right>> \in Seq(Stores) /\ Paired(<<pwm_left, pwm_right>>)
      /\ <<pwm_right, pwm_left>> \in Seq(Stores) /\ Paired(<<pwm_right, pwm_left>>)
  BY <1>2 DEF Paired
<1>4. /\ left \o right \in Seq(Stores) /\ Paired(left \o right)
      /\ right \o left \in Seq(Stores) /\ Paired(right \o left)
  BY <1>1, PairedConcat
<1>5. set_motors(l) = (IF l.left_dir = l.right_dir THEN right \o left ELSE left \o right)
                      \o (IF l.left_speed = l.right_speed THEN <<pwm_right, pwm_left>>
                                                          ELSE <<pwm_left, pwm_right>>)
  BY DEF set_motors, left, right, pwm_left, pwm_right
<1>. QED  BY <1>3, <1>4, <1>5, PairedConcat

-----------------------------------------------------------------------------
\* The speeds that steering_speeds computes never exceed maxVal, for any two sides.
LEMMA NormedBound ==
    ASSUME NEW speed \in Nat, NEW other \in Nat, speed = other => speed <= maxVal
    PROVE  Normed(speed, other) \in Speeds
<1>. DEFINE faster == IF speed > other THEN speed ELSE other
<1>1. faster \in Nat /\ speed <= faster
  OBVIOUS
<1>2. CASE speed # other /\ faster > maxVal
  <2>. DEFINE q == (2 * maxVal * speed + faster) \div (2 * faster)
  <2>. HIDE DEF faster
  <2>1. \A num \in Nat, den \in Nat \ {0} :
            num < 513 * den => num \div den \in 0 .. 512
    OBVIOUS
  <2>2. 2 * maxVal * speed + faster < 513 * (2 * faster)
    BY <1>1, <1>2 DEF maxVal
  <2>3. 2 * maxVal * speed + faster \in Nat /\ 2 * faster \in Nat \ {0}
    BY <1>1, <1>2 DEF maxVal
  <2>4. q \in 0 .. 512
    BY <2>1, <2>2, <2>3
  <2>. QED  BY <1>2, <2>4 DEF Normed, Speeds, maxVal, faster
<1>3. CASE ~(speed # other /\ faster > maxVal)
  BY <1>3 DEF Normed, Speeds, maxVal
<1>. QED  BY <1>2, <1>3

\* Sides that are equally fast are not scaled down, and need not be.
LEMMA EqualSides ==
    ASSUME NEW t \in -512 .. 511, NEW th \in -508 .. 508
    PROVE  /\ th + t \in Int /\ th - t \in Int
           /\ Abs(th + t) = Abs(th - t) => Abs(th + t) <= maxVal
  BY DEF Abs, maxVal

Steered == [left_speed : Speeds, left_dir : {BACKWARD, FORWARD}, right_speed : Speeds,
            right_dir : {BACKWARD, FORWARD}]

\* What a stick can be read as.
Positions == 0 .. 1023

\* Every position of the stick gives speeds and directions that rc_motor takes.
LEMMA SteeringSpeeds ==
    \A y, x : y \in Positions /\ x \in Positions => steering_speeds(y, x) \in Steered
<1>0. SUFFICES ASSUME NEW y, NEW x, y \in Positions, x \in Positions
              PROVE  steering_speeds(y, x) \in Steered
  OBVIOUS
<1>1. Turn(y) \in -512 .. 511 /\ Throttle(x) \in -508 .. 508
  <2>. DEFINE rest == DeadZone(x - 512, 20)
  <2>1. Turn(y) \in -512 .. 511
    BY <1>0 DEF Turn, DeadZone, Abs, Positions
  <2>2. rest \in -512 .. 511
    BY <1>0 DEF DeadZone, Abs, Positions
  <2>. HIDE DEF rest
  <2>3. Boost(rest) \in -508 .. 508
    <3>1. CASE rest > 0
      BY <2>2, <3>1, SMTT(30) DEF Boost
    <3>2. CASE rest < 0
      BY <2>2, <3>2, SMTT(30) DEF Boost
    <3>3. CASE rest = 0
      BY <3>3 DEF Boost
    <3>. QED  BY <2>2, <3>1, <3>2, <3>3
  <2>. QED  BY <2>1, <2>3 DEF Throttle, rest
<1>. DEFINE left == LeftSide(Turn(y), Throttle(x))
            right == RightSide(Turn(y), Throttle(x))
<1>2. left \in Int /\ right \in Int /\ (Abs(left) = Abs(right) => Abs(left) <= maxVal)
  <2>. DEFINE t == Turn(y)
              th == Throttle(x)
  <2>. HIDE DEF t, th
  <2>1. t \in -512 .. 511 /\ th \in -508 .. 508
    BY <1>1 DEF t, th
  <2>2. \/ left = th + t /\ right = th - t
        \/ left = th - t /\ right = th + t
    <3>1. \A a, b \in Int : \/ LeftSide(a, b) = b + a /\ RightSide(a, b) = b - a
                            \/ LeftSide(a, b) = b - a /\ RightSide(a, b) = b + a
      BY DEF LeftSide, RightSide
    <3>2. left = LeftSide(t, th) /\ right = RightSide(t, th)
      BY DEF t, th
    <3>. QED  BY <2>1, <3>1, <3>2
  <2>. HIDE DEF left, right
  <2>3. /\ th + t \in Int /\ th - t \in Int
        /\ Abs(th + t) = Abs(th - t) => Abs(th + t) <= maxVal
    BY <2>1, EqualSides, ZenonT(30)
  <2>. QED  BY <2>2, <2>3, Zenon
<1>. HIDE DEF left, right
<1>3. Abs(left) \in Nat /\ Abs(right) \in Nat
  BY <1>2 DEF Abs
<1>4. /\ Normed(Abs(left), Abs(right)) \in Speeds
      /\ Normed(Abs(right), Abs(left)) \in Speeds
  BY <1>2, <1>3, NormedBound
<1>5. steering_speeds(y, x) =
          [left_speed |-> Normed(Abs(left), Abs(right)), left_dir |-> Dir(left),
           right_speed |-> Normed(Abs(right), Abs(left)), right_dir |-> Dir(right)]
  BY DEF steering_speeds, left, right
<1>6. Dir(left) \in {BACKWARD, FORWARD} /\ Dir(right) \in {BACKWARD, FORWARD}
  BY DEF Dir
<1>. QED  BY <1>4, <1>5, <1>6 DEF Steered

\* What a car receives is what its remote measured, one of the 1024 positions.
LEMMA ReceivedStick ==
    \A y, x : y \in Stick /\ x \in Stick =>
        /\ Received(Sampled(y, x)).y \in Positions /\ Received(Sampled(y, x)).x \in Positions
        /\ joystick_read(y) \in Positions /\ joystick_read(x) \in Positions
        /\ Received(Sampled(y, x)).y = joystick_read(y)
        /\ Received(Sampled(y, x)).x = joystick_read(x)
<1>0. SUFFICES ASSUME NEW y, NEW x, y \in Stick, x \in Stick
               PROVE  /\ Received(Sampled(y, x)).y \in Positions
                      /\ Received(Sampled(y, x)).x \in Positions
                      /\ joystick_read(y) \in Positions /\ joystick_read(x) \in Positions
                      /\ Received(Sampled(y, x)).y = joystick_read(y)
                      /\ Received(Sampled(y, x)).x = joystick_read(x)
  OBVIOUS
<1>1. y \in Int /\ y <= 1023 /\ x \in Int /\ x <= 1023
  BY <1>0, DriveAssumption
<1>. DEFINE jy == joystick_read(y)
            jx == joystick_read(x)
            m == [senderID |-> 1, type |-> 1, x |-> jx, y |-> jy, button |-> 0]
<1>2. jy \in Nat /\ jy <= 1023 /\ jx \in Nat /\ jx <= 1023
  BY <1>1, JoystickInRange
<1>. HIDE DEF jy, jx
<1>3. Received(m) = m
  <2>1. jx < 4294967296 /\ jy < 4294967296
    BY <1>2, SMT
  <2>. QED  BY <1>2, <2>1, RemoteRoundTrip, SMT DEF Received
<1>4. Received(m).y = jy /\ Received(m).x = jx
  BY <1>3, SMT
<1>5. Sampled(y, x) = m
  BY DEF Sampled, jy, jx
<1>6. jy \in Positions /\ jx \in Positions
  BY <1>2 DEF Positions
<1>. HIDE DEF m
<1>. QED  BY <1>4, <1>5, <1>6 DEF jy, jx

\* An output that is not clipped bounds the integral it was computed from.
LEMMA OutputBoundsIntegral ==
    ASSUME NEW error \in Int, NEW last_error \in Int, NEW integral \in Int, NEW m \in Int,
           Abs(error) <= m, Abs(last_error) <= m,
           Output(error, last_error, integral) \in 0 .. 10 * FullSpeed
    PROVE  Abs(4 * integral) <= 10 * FullSpeed + 1500 * m
  BY DEF Abs, Output, FullSpeed

\* An output inside the controller's range scales to a throttle.
LEMMA ScaledSpeed ==
    ASSUME NEW n \in Int, ~(n > 5110), ~(n < 0)
    PROVE  n \div 10 \in 0 .. 511
  OBVIOUS

\* The controller's speed is a throttle, whatever it measured.
LEMMA GetSpeed ==
    ASSUME NEW measured \in Int, NEW p, p.last_error \in Int, p.integral \in Int
    PROVE  LET c == get_speed(p, measured) IN
           /\ c.speed \in 0 .. FullSpeed
           /\ c.pid.last_error = measured - DESIRED_DISTANCE
           /\ c.pid.integral \in Int
           /\ \/ c.pid.integral = p.integral
              \/ Output(c.pid.last_error, p.last_error, c.pid.integral) \in 0 .. 10 * FullSpeed
<1>. DEFINE error == measured - DESIRED_DISTANCE
            integral == p.integral + error
            output == Output(error, p.last_error, integral)
<1>1. error \in Int /\ integral \in Int /\ output \in Int
  BY DEF Output, DESIRED_DISTANCE
<1>2. get_speed(p, measured) =
          [pid |-> [last_error |-> error,
                    integral |-> IF Saturated(output) THEN p.integral ELSE integral],
           speed |-> CASE output > 10 * FullSpeed -> FullSpeed
                       [] output < 0 -> 0
                       [] OTHER -> output \div 10]
  BY DEF get_speed
<1>3. (CASE output > 10 * FullSpeed -> FullSpeed
         [] output < 0 -> 0
         [] OTHER -> output \div 10) \in 0 .. FullSpeed
  <2>. HIDE DEF output
  <2>2. ~(output > 5110) /\ ~(output < 0) => output \div 10 \in 0 .. 511
    BY <1>1, ScaledSpeed
  <2>. QED  BY <1>1, <2>2 DEF FullSpeed
<1>4. ~Saturated(output) => output \in 0 .. 10 * FullSpeed
  <2>. HIDE DEF output
  <2>. QED  BY <1>1 DEF Saturated, FullSpeed
<1>5. CASE Saturated(output)
  <2>. HIDE DEF error, output
  <2>. QED  BY <1>1, <1>2, <1>3, <1>5 DEF error
<1>6. CASE ~Saturated(output)
  <2>1. Output(error, p.last_error, integral) \in 0 .. 10 * FullSpeed
    BY <1>4, <1>6
  <2>. HIDE DEF error, output, integral
  <2>. QED  BY <1>1, <1>2, <1>3, <1>6, <2>1 DEF error
<1>. QED  BY <1>5, <1>6

-----------------------------------------------------------------------------
Locals == [left_speed : Speeds, left_dir : 0 .. maxVal, right_speed : Speeds,
           right_dir : {BACKWARD, FORWARD}]

Other(pin) == <<pin[1], 1 - pin[2]>>

\* What main and the sensors have computed fits the next computation.
Computed ==
    /\ local \in Locals
    /\ distance \in Echoes \cup {0}
    /\ pid.last_error \in Int /\ Abs(pid.last_error) <= MaxError
    /\ pid.integral \in Int /\ IntegralBounded
    /\ driver.throttle \in 0 .. 1023

\* The stores still to come are paired, and the first of them, if it sets a pin, finds
\* the other cleared.
Coming ==
    /\ pins \in [Pins -> BOOLEAN] /\ channel \in [Sides -> PwmValues]
    /\ todo \in Seq(Stores)
    /\ \A i \in 1 .. Len(todo) :
           Sets(todo[i]) => IF i = 1 THEN ~pins[Other(todo[i].pin)]
                                     ELSE Clears(todo[i - 1], todo[i])

DriveInv == Computed /\ Coming /\ BridgesSafe

\* set_motors may start whatever the pins are.
LEMMA ComingFromPaired ==
    ASSUME pins' = pins, channel' = channel, Coming, todo' \in Seq(Stores), Paired(todo')
    PROVE  Coming'
<1>1. ASSUME NEW i \in 1 .. Len(todo'), Sets(todo'[i])
      PROVE  i > 1 /\ Clears(todo'[i - 1], todo'[i])
  BY <1>1 DEF Paired
<1>. QED  BY <1>1 DEF Coming

\* A store keeps the rest of them safe, and the bridges.
LEMMA StoreKeeps == Coming /\ BridgesSafe /\ Store => Coming' /\ BridgesSafe'
<1>. SUFFICES ASSUME Coming, BridgesSafe, Store PROVE Coming' /\ BridgesSafe'
  OBVIOUS
<1>. DEFINE s == Head(todo)
<1>1. /\ todo \in Seq(Stores) /\ todo # <<>> /\ s = todo[1] /\ s \in Stores
      /\ Len(todo) \in Nat /\ Len(todo) >= 1
      /\ todo' = Tail(todo) /\ todo' \in Seq(Stores) /\ Len(todo') = Len(todo) - 1
      /\ \A i \in 1 .. Len(todo) - 1 : todo'[i] = todo[i + 1]
  BY HeadTailProperties DEF Coming, Store
<1>2. ASSUME NEW i \in 1 .. Len(todo'), Sets(todo'[i])
      PROVE  Clears(todo[i], todo'[i]) /\ (i > 1 => Clears(todo'[i - 1], todo'[i]))
  <2>1. i + 1 \in 1 .. Len(todo) /\ todo'[i] = todo[i + 1] /\ i + 1 # 1 /\ (i + 1) - 1 = i
    BY <1>1
  <2>2. Clears(todo[i], todo[i + 1])
    BY <1>2, <2>1 DEF Coming
  <2>3. i > 1 => todo'[i - 1] = todo[i]
    BY <1>1
  <2>. QED  BY <2>1, <2>2, <2>3
<1>. HIDE DEF s
<1>3. CASE s.what = "pin"
  <2>1. s.pin \in Pins /\ s.level \in BOOLEAN
    BY <1>1, <1>3 DEF Stores
  <2>2. pins' = [pins EXCEPT ![s.pin] = s.level] /\ channel' = channel
    BY <1>3 DEF Store, s
  <2>3. pins' \in [Pins -> BOOLEAN] /\ channel' \in [Sides -> PwmValues]
    BY <2>1, <2>2 DEF Coming
  <2>4. ASSUME NEW i \in 1 .. Len(todo'), Sets(todo'[i])
        PROVE  IF i = 1 THEN ~pins'[Other(todo'[i].pin)] ELSE Clears(todo'[i - 1], todo'[i])
    <3>1. CASE i = 1
      <4>1. Clears(s, todo'[1])
        BY <1>1, <1>2, <2>4, <3>1
      <4>2. s.pin = Other(todo'[1].pin) /\ s.level = FALSE
        BY <4>1 DEF Clears, PinStore, Other
      <4>. QED  BY <2>1, <2>2, <3>1, <4>2 DEF Coming
    <3>2. CASE i # 1
      BY <1>2, <2>4, <3>2
    <3>. QED  BY <3>1, <3>2
  <2>5. BridgesSafe'
    <3>1. CASE s.level
      <4>1. ~pins[Other(s.pin)]
        BY <1>1, <1>3, <3>1 DEF Coming, Sets
      <4>2. ASSUME NEW side \in Sides
            PROVE  ~(pins'[<<side, FORWARD>>] /\ pins'[<<side, BACKWARD>>])
        <5>1. /\ <<side, FORWARD>> \in Pins /\ <<side, BACKWARD>> \in Pins
              /\ <<side, FORWARD>> # <<side, BACKWARD>>
              /\ Other(<<side, FORWARD>>) = <<side, BACKWARD>>
              /\ Other(<<side, BACKWARD>>) = <<side, FORWARD>>
          BY DEF Pins, Sides, FORWARD, BACKWARD, Other
        <5>2. ~(pins[<<side, FORWARD>>] /\ pins[<<side, BACKWARD>>])
          BY DEF BridgesSafe
        <5>3. \A p \in Pins : pins'[p] = IF p = s.pin THEN s.level ELSE pins[p]
          BY <2>1, <2>2 DEF Coming
        <5>. QED  BY <4>1, <5>1, <5>2, <5>3
      <4>. QED  BY <4>2 DEF BridgesSafe
    <3>2. CASE ~s.level
      BY <2>1, <2>2, <3>2 DEF Coming, BridgesSafe, Pins
    <3>. QED  BY <3>1, <3>2
  <2>. QED  BY <1>1, <2>3, <2>4, <2>5 DEF Coming
<1>4. CASE s.what # "pin"
  <2>1. s.side \in Sides /\ s.value \in PwmValues
    BY <1>1, <1>4 DEF Stores
  <2>2. channel' = [channel EXCEPT ![s.side] = s.value] /\ pins' = pins
    BY <1>4 DEF Store, s
  <2>3. channel' \in [Sides -> PwmValues] /\ pins' \in [Pins -> BOOLEAN]
    BY <2>1, <2>2 DEF Coming
  <2>4. ASSUME NEW i \in 1 .. Len(todo'), Sets(todo'[i])
        PROVE  i # 1 /\ Clears(todo'[i - 1], todo'[i])
    <3>1. i # 1
      <4>. SUFFICES ASSUME i = 1 PROVE FALSE
        OBVIOUS
      <4>1. Clears(s, todo'[1])
        BY <1>1, <1>2, <2>4
      <4>. QED  BY <1>4, <4>1 DEF Clears, PinStore
    <3>. QED  BY <1>2, <2>4, <3>1
  <2>. QED  BY <1>1, <2>2, <2>3, <2>4 DEF Coming, BridgesSafe
<1>. QED  BY <1>3, <1>4

\* The inductive invariant, by the actions of main and the stores.
LEMMA DriveInvariant == DriveSpec => []DriveInv
<1>1. DriveInit => DriveInv
  <2>. SUFFICES ASSUME DriveInit PROVE DriveInv
    OBVIOUS
  <2>1. Computed
    BY DriveAssumption
       DEF DriveInit, Computed, Locals, Speeds, maxVal, BACKWARD, FORWARD, IntegralBounded, Abs,
           FullSpeed
  <2>2. Coming
    BY DEF DriveInit, Coming, Pins, Sides, BACKWARD, FORWARD, PwmValues, PWM_TOP_VALUE
  <2>3. BridgesSafe
    <3>1. ASSUME NEW side \in Sides
          PROVE  <<side, BACKWARD>> \in Pins /\ <<side, BACKWARD>>[2] # FORWARD
      BY DEF Pins, BACKWARD, FORWARD
    <3>. QED  BY <3>1 DEF DriveInit, BridgesSafe
  <2>. QED  BY <2>1, <2>2, <2>3 DEF DriveInv
<1>2. DriveInv /\ [DriveNext]_driveVars => DriveInv'
  <2>. SUFFICES ASSUME DriveInv, [DriveNext]_driveVars PROVE DriveInv'
    OBVIOUS
  <2>. USE DEF DriveInv
  <2>1. CASE Store
    <3>1. Computed'
      BY <2>1 DEF Store, Computed, IntegralBounded
    <3>. QED  BY <2>1, <3>1, StoreKeeps
  <2>2. CASE Halt
    <3>. DEFINE still == [left_speed |-> 0, right_speed |-> 0, left_dir |-> 0, right_dir |-> 0]
    <3>1. Computed'
      BY <2>2 DEF Halt, Computed, IntegralBounded
    <3>2. still.left_speed \in Speeds /\ still.right_speed \in Speeds
      BY DEF Speeds, maxVal
    <3>3. todo' = set_motors(still) /\ pins' = pins /\ channel' = channel
      BY <2>2 DEF Halt
    <3>. HIDE DEF still
    <3>4. Coming'
      BY <3>2, <3>3, SetMotorsPaired, ComingFromPaired
    <3>. QED  BY <3>1, <3>3, <3>4 DEF BridgesSafe
  <2>3. ASSUME NEW y \in Stick, NEW x \in Stick, DriveByStick(y, x)
        PROVE  DriveInv'
    <3>. DEFINE m == Received(Sampled(y, x))
    <3>1. /\ m.y \in Positions /\ m.x \in Positions /\ joystick_read(x) \in Positions
      BY ReceivedStick
    <3>0. local' = steering_speeds(m.y, m.x)
      BY <2>3 DEF DriveByStick
    <3>. HIDE DEF m
    <3>2. local' \in Locals
      <4>1. local' \in Steered
        BY <3>0, <3>1, SteeringSpeeds
      <4>2. {BACKWARD, FORWARD} \subseteq 0 .. maxVal
        BY DEF FORWARD, BACKWARD, maxVal
      <4>. QED  BY <4>1, <4>2 DEF Locals, Steered
    <3>3. /\ todo' = set_motors(local') /\ driver'.throttle = joystick_read(x)
          /\ UNCHANGED <<distance, pid, pins, channel>>
      BY <2>3 DEF DriveByStick
    <3>4. Computed'
      BY <3>1, <3>2, <3>3 DEF Computed, IntegralBounded, Positions
    <3>5. Coming'
      BY <3>2, <3>3, SetMotorsPaired, ComingFromPaired DEF Locals
    <3>. QED  BY <3>3, <3>4, <3>5 DEF BridgesSafe
  <2>4. ASSUME NEW y \in Stick, NEW mm \in Echoes, DriveByDistance(y, mm)
        PROVE  DriveInv'
    <3>. DEFINE turn == Received(Sampled(y, y)).y
    <3>0. turn \in Positions
      BY ReceivedStick
    <3>1. PICK d \in Echoes \cup {distance} :
              LET control == get_speed(pid, d)
                  s == steering_speeds(Received(Sampled(y, y)).y, control.speed) IN
              /\ distance' = d
              /\ pid' = control.pid
              /\ local' = [s EXCEPT !.left_speed = local.left_speed, !.left_dir = s.left_speed]
              /\ driver' = [by |-> "distance", turn |-> joystick_read(y),
                           throttle |-> control.speed]
      BY <2>4 DEF DriveByDistance, Filtered
    <3>. DEFINE control == get_speed(pid, d)
                s == steering_speeds(turn, control.speed)
    <3>2. d \in Echoes \cup {0} /\ d \in Int /\ Abs(d - DESIRED_DISTANCE) <= MaxError
      BY DriveAssumption DEF Computed
    <3>3. /\ control.speed \in 0 .. FullSpeed
          /\ control.pid.last_error = d - DESIRED_DISTANCE
          /\ control.pid.integral \in Int
          /\ \/ control.pid.integral = pid.integral
             \/ Output(control.pid.last_error, pid.last_error, control.pid.integral)
                    \in 0 .. 10 * FullSpeed
      BY <3>2, GetSpeed DEF Computed
    <3>4. turn \in Positions /\ control.speed \in Positions
      <4>1. control.speed \in Positions
        <5>1. \A n \in 0 .. 511 : n \in Positions
          BY DEF Positions
        <5>. HIDE DEF control
        <5>2. control.speed \in 0 .. FullSpeed
          BY <3>3
        <5>. QED  BY <5>1, <5>2 DEF FullSpeed
      <4>. QED  BY <3>0, <4>1
    <3>5. s \in Steered
      <4>. HIDE DEF control, turn
      <4>. QED  BY <3>4, SteeringSpeeds
    <3>. HIDE DEF control, s, turn
    <3>6. /\ distance' = d /\ pid' = control.pid
          /\ local' = [s EXCEPT !.left_speed = local.left_speed, !.left_dir = s.left_speed]
          /\ driver' = [by |-> "distance", turn |-> joystick_read(y),
                           throttle |-> control.speed]
      BY <3>1 DEF control, s, turn
    <3>7. local' \in Locals
      <4>1. local' = [left_speed |-> local.left_speed, left_dir |-> s.left_speed,
                      right_speed |-> s.right_speed, right_dir |-> s.right_dir]
        BY <3>5, <3>6 DEF Steered
      <4>2. local.left_speed \in Speeds
        BY DEF Computed, Locals
      <4>. QED  BY <3>5, <4>1, <4>2 DEF Locals, Steered, Speeds
    <3>8. pid'.last_error \in Int /\ Abs(pid'.last_error) <= MaxError /\ pid'.integral \in Int
      BY <3>2, <3>3, <3>6 DEF DESIRED_DISTANCE
    <3>9. IntegralBounded'
      <4>1. CASE pid'.integral = pid.integral
        BY <4>1 DEF Computed, IntegralBounded
      <4>2. CASE Output(pid'.last_error, pid.last_error, pid'.integral) \in 0 .. 10 * FullSpeed
        <5>1. /\ pid'.last_error \in Int /\ pid.last_error \in Int /\ pid'.integral \in Int
              /\ Abs(pid'.last_error) <= MaxError /\ Abs(pid.last_error) <= MaxError
              /\ MaxError \in Int
          BY <3>8, DriveAssumption DEF Computed
        <5>4. Abs(4 * pid'.integral) <= 10 * FullSpeed + 1500 * MaxError
          BY <4>2, <5>1, OutputBoundsIntegral
        <5>. QED  BY <5>4 DEF IntegralBounded
      <4>. QED  BY <3>3, <3>6, <4>1, <4>2
    <3>10. Computed'
      BY <3>2, <3>4, <3>6, <3>7, <3>8, <3>9 DEF Computed, Positions
    <3>11. todo' = set_motors(local') /\ UNCHANGED <<pins, channel>>
      BY <2>4 DEF DriveByDistance
    <3>12. Coming'
      BY <3>7, <3>11, SetMotorsPaired, ComingFromPaired DEF Locals
    <3>. QED  BY <3>10, <3>11, <3>12 DEF BridgesSafe
  <2>5. CASE UNCHANGED driveVars
    BY <2>5 DEF driveVars, Computed, Coming, BridgesSafe, IntegralBounded
  <2>. QED  BY <2>1, <2>2, <2>3, <2>4, <2>5 DEF DriveNext
<1>. QED  BY <1>1, <1>2, PTL DEF DriveSpec

\* The speeds, the directions and what the PWM unit gets stay in their ranges, for every
\* position of the stick and every distance: a speed of 512 gives 65535 and no other
\* value beyond the top.
THEOREM DriveTypeCorrect == DriveSpec => []DriveTypeOK
<1>1. DriveInv => DriveTypeOK
  BY DriveAssumption
     DEF DriveInv, Computed, Coming, DriveTypeOK, Locals, Speeds, PwmValues
<1>. QED  BY <1>1, DriveInvariant, PTL

\* No bridge is told both directions, between any two stores of any sequence of commands.
THEOREM BridgesNeverShort == DriveSpec => []BridgesSafe
<1>1. DriveInv => BridgesSafe
  BY DEF DriveInv
<1>. QED  BY <1>1, DriveInvariant, PTL

\* The controller does not wind up (rc_controller.c:25-30), however long the distance is
\* off and whatever its sequence.
THEOREM ControllerBounded == DriveSpec => []IntegralBounded
<1>1. DriveInv => IntegralBounded
  BY DEF DriveInv, Computed
<1>. QED  BY <1>1, DriveInvariant, PTL

-----------------------------------------------------------------------------
(***************************************************************************)
(* What a command asks of the motors.                                      *)
(***************************************************************************)
Asked(l, side) == IF side = "left" THEN l.left_dir ELSE l.right_dir
AskedSpeed(l, side) == IF side = "left" THEN l.left_speed ELSE l.right_speed
PwmOf(speed) == (PWM_TOP_VALUE - speed) % 65536

Commanded == IF driver.by = "nobody"
             THEN [left_speed |-> 0, right_speed |-> 0, left_dir |-> 0, right_dir |-> 0]
             ELSE local

\* The store brings its target to what the command asks.
Fits(store, l) ==
    \/ store.what = "pin" /\ store.level = (store.pin[2] = Asked(l, store.pin[1]))
    \/ store.what = "pwm" /\ store.value = PwmOf(AskedSpeed(l, store.side))

PinComes(stores, pin) == \E s \in stores : s.what = "pin" /\ s.pin = pin
SideComes(stores, side) == \E s \in stores : s.what = "pwm" /\ s.side = side

\* What the stick or nobody commands is under way: no store to come says otherwise, and
\* what no store is to come for is as it should be.
UnderWay ==
    driver.by # "distance" =>
        /\ \A store \in Range(todo) : Fits(store, Commanded)
        /\ \A side \in Sides : \/ SideComes(Range(todo), side)
                              \/ channel[side] = PwmOf(AskedSpeed(Commanded, side))
        /\ driver.by = "stick" =>
               /\ \A pin \in Pins : \/ PinComes(Range(todo), pin)
                                    \/ pins[pin] = (pin[2] = Asked(local, pin[1]))
               /\ driver.turn \in Positions /\ driver.throttle \in Positions
               /\ local = steering_speeds(driver.turn, driver.throttle)

\* The stores of a list of two.
LEMMA RangeOfTwo ==
    ASSUME NEW S, NEW a \in S, NEW b \in S
    PROVE  <<a, b>> \in Seq(S) /\ Range(<<a, b>>) = {a, b}
<1>1. <<a, b>> \in Seq(S) /\ Len(<<a, b>>) = 2
  OBVIOUS
<1>2. Range(<<a, b>>) = {<<a, b>>[i] : i \in 1 .. 2}
  BY <1>1, RangeEquality
<1>. QED  BY <1>1, <1>2

\* Three lists of two, one after the other.
LEMMA RangeOfThree ==
    ASSUME NEW S, NEW s \in Seq(S), NEW t \in Seq(S), NEW u \in Seq(S)
    PROVE  /\ s \o t \o u \in Seq(S)
           /\ Range(s \o t \o u) = Range(s) \cup Range(t) \cup Range(u)
<1>1. s \o t \in Seq(S) /\ Range(s \o t) = Range(s) \cup Range(t)
  BY RangeConcatenation, ConcatProperties
<1>2. \A st \in Seq(S) : st \o u \in Seq(S) /\ Range(st \o u) = Range(st) \cup Range(u)
  BY RangeConcatenation, ConcatProperties
<1>. QED  BY <1>1, <1>2

\* set_motors leaves out no pin and no side, whichever path it takes, and stores nothing
\* that its command does not ask for.
LEMMA SetMotorsStores ==
    ASSUME NEW l, l.left_speed \in Speeds, l.right_speed \in Speeds,
           l.left_dir \in {BACKWARD, FORWARD}, l.right_dir \in {BACKWARD, FORWARD}
    PROVE  /\ \A store \in Range(set_motors(l)) : Fits(store, l)
           /\ \A pin \in Pins : PinComes(Range(set_motors(l)), pin)
           /\ \A side \in Sides : SideComes(Range(set_motors(l)), side)
<1>. DEFINE clear(side) == PinStore(side, 1 - Asked(l, side), FALSE)
            set(side) == PinStore(side, Asked(l, side), TRUE)
            pwm(side) == PwmStore(side, AskedSpeed(l, side))
            stores == {clear("left"), set("left"), clear("right"), set("right"),
                       pwm("left"), pwm("right")}
<1>1. ASSUME NEW side \in Sides
      PROVE  /\ clear(side) \in Stores /\ set(side) \in Stores /\ pwm(side) \in Stores
             /\ SideDir(side, Asked(l, side)) = <<clear(side), set(side)>>
  <2>1. Asked(l, side) \in {BACKWARD, FORWARD} /\ AskedSpeed(l, side) \in Speeds
    BY DEF Asked, AskedSpeed
  <2>2. pwm(side) \in Stores
    BY <2>1, StoreTypes
  <2>3. clear(side) \in Stores /\ set(side) \in Stores
    BY <2>1 DEF PinStore, Stores, Pins, Sides, BACKWARD, FORWARD
  <2>4. SideDir(side, Asked(l, side)) = <<clear(side), set(side)>>
    BY <2>1 DEF SideDir
  <2>. QED  BY <2>2, <2>3, <2>4
<1>2. \E s, t \in {SideDir("left", l.left_dir), SideDir("right", l.right_dir)},
         u \in {<<pwm("left"), pwm("right")>>, <<pwm("right"), pwm("left")>>} :
            s # t /\ set_motors(l) = s \o t \o u
  <2>1. SideDir("left", l.left_dir) # SideDir("right", l.right_dir)
    <3>1. SideDir("left", l.left_dir) = <<clear("left"), set("left")>>
      BY <1>1 DEF Sides, Asked
    <3>2. SideDir("right", l.right_dir) = <<clear("right"), set("right")>>
      BY <1>1 DEF Sides, Asked
    <3>3. clear("left") # clear("right")
      BY DEF PinStore
    <3>. HIDE DEF clear, set
    <3>. QED  BY <3>1, <3>2, <3>3
  <2>2. \/ set_motors(l) = SideDir("left", l.left_dir) \o SideDir("right", l.right_dir)
                             \o <<pwm("left"), pwm("right")>>
        \/ set_motors(l) = SideDir("left", l.left_dir) \o SideDir("right", l.right_dir)
                             \o <<pwm("right"), pwm("left")>>
        \/ set_motors(l) = SideDir("right", l.right_dir) \o SideDir("left", l.left_dir)
                             \o <<pwm("left"), pwm("right")>>
        \/ set_motors(l) = SideDir("right", l.right_dir) \o SideDir("left", l.left_dir)
                             \o <<pwm("right"), pwm("left")>>
    BY Zenon DEF set_motors, AskedSpeed
  <2>. QED  BY <2>1, <2>2
<1>3. Range(set_motors(l)) = stores
  <2>1. /\ SideDir("left", l.left_dir) = <<clear("left"), set("left")>>
        /\ SideDir("right", l.right_dir) = <<clear("right"), set("right")>>
        /\ clear("left") \in Stores /\ set("left") \in Stores /\ pwm("left") \in Stores
        /\ clear("right") \in Stores /\ set("right") \in Stores /\ pwm("right") \in Stores
    BY <1>1 DEF Sides, Asked
  <2>. HIDE DEF clear, set, pwm
  <2>. DEFINE Lists == Seq(Stores)
  <2>10. \A a, b \in Stores : <<a, b>> \in Lists /\ Range(<<a, b>>) = {a, b}
    BY RangeOfTwo
  <2>11. \A s, t, u \in Lists : Range(s \o t \o u) = Range(s) \cup Range(t) \cup Range(u)
    BY RangeOfThree
  <2>. HIDE DEF Lists
  <2>2. /\ SideDir("left", l.left_dir) \in Lists
        /\ Range(SideDir("left", l.left_dir)) = {clear("left"), set("left")}
        /\ SideDir("right", l.right_dir) \in Lists
        /\ Range(SideDir("right", l.right_dir)) = {clear("right"), set("right")}
    BY <2>10, <2>1
  <2>3. ASSUME NEW u \in {<<pwm("left"), pwm("right")>>, <<pwm("right"), pwm("left")>>}
        PROVE  u \in Lists /\ Range(u) = {pwm("left"), pwm("right")}
    BY <2>10, <2>1
  <2>4. PICK s \in {SideDir("left", l.left_dir), SideDir("right", l.right_dir)},
             t \in {SideDir("left", l.left_dir), SideDir("right", l.right_dir)},
             u \in {<<pwm("left"), pwm("right")>>, <<pwm("right"), pwm("left")>>} :
            s # t /\ set_motors(l) = s \o t \o u
    BY <1>2
  <2>5. Range(s \o t \o u) = Range(s) \cup Range(t) \cup Range(u)
    BY <2>11, <2>2, <2>3
  <2>6. Range(s) \cup Range(t) = {clear("left"), set("left")} \cup {clear("right"), set("right")}
    BY <2>2, <2>4
  <2>. QED  BY <2>3, <2>4, <2>5, <2>6
<1>4. ASSUME NEW side \in Sides
      PROVE  /\ Fits(clear(side), l) /\ Fits(set(side), l) /\ Fits(pwm(side), l)
             /\ clear(side).what = "pin" /\ clear(side).pin = <<side, 1 - Asked(l, side)>>
             /\ set(side).what = "pin" /\ set(side).pin = <<side, Asked(l, side)>>
             /\ pwm(side).what = "pwm" /\ pwm(side).side = side
             /\ \A dir \in {FORWARD, BACKWARD} : dir \in {Asked(l, side), 1 - Asked(l, side)}
             /\ clear(side) \in stores /\ set(side) \in stores /\ pwm(side) \in stores
  <2>1. Asked(l, side) \in {BACKWARD, FORWARD}
    BY DEF Asked
  <2>2. Fits(clear(side), l) /\ Fits(set(side), l)
    <3>1. /\ clear(side).what = "pin" /\ clear(side).level = FALSE
          /\ clear(side).pin[1] = side /\ clear(side).pin[2] # Asked(l, side)
      BY <2>1 DEF PinStore, FORWARD, BACKWARD
    <3>2. /\ set(side).what = "pin" /\ set(side).level = TRUE
          /\ set(side).pin[1] = side /\ set(side).pin[2] = Asked(l, side)
      BY DEF PinStore
    <3>. HIDE DEF clear, set
    <3>. QED  BY <3>1, <3>2, Zenon DEF Fits
  <2>3. Fits(pwm(side), l)
    BY DEF Fits, PwmStore, PwmOf
  <2>4. clear(side) \in stores /\ set(side) \in stores /\ pwm(side) \in stores
    BY DEF Sides
  <2>. QED  BY <2>1, <2>2, <2>3, <2>4 DEF PinStore, PwmStore, FORWARD, BACKWARD
<1>5. \A s \in stores : \E side \in Sides : s \in {clear(side), set(side), pwm(side)}
  BY DEF Sides
<1>. HIDE DEF clear, set, pwm, stores
<1>6. \A store \in stores : Fits(store, l)
  BY <1>4, <1>5
<1>7. ASSUME NEW pin \in Pins
      PROVE  PinComes(stores, pin)
  <2>1. PICK side \in Sides, dir \in {FORWARD, BACKWARD} : pin = <<side, dir>>
    BY DEF Pins
  <2>. QED  BY <1>4, <2>1 DEF PinComes
<1>8. ASSUME NEW side \in Sides
      PROVE  SideComes(stores, side)
  BY <1>4 DEF SideComes
<1>. QED  BY <1>3, <1>6, <1>7, <1>8

\* The next store brings its target to what is asked, the others are still to come.
LEMMA StoreUnderWay == Coming /\ UnderWay /\ Store => UnderWay'
<1>. SUFFICES ASSUME Coming, UnderWay, Store, driver.by # "distance" PROVE UnderWay'
  BY DEF UnderWay, Store
<1>. DEFINE s == Head(todo)
            l == Commanded
<1>1. s \in Stores /\ Range(todo) = {s} \cup Range(todo')
  <2>1. /\ todo \in Seq(Stores) /\ todo # <<>> /\ s = todo[1] /\ s \in Stores
        /\ Len(todo) \in Nat /\ Len(todo) >= 1
        /\ todo' \in Seq(Stores) /\ Len(todo') = Len(todo) - 1
        /\ \A i \in 1 .. Len(todo) - 1 : todo'[i] = todo[i + 1]
    BY HeadTailProperties DEF Coming, Store
  <2>2. /\ Range(todo) = {todo[i] : i \in 1 .. Len(todo)}
        /\ Range(todo') = {todo'[i] : i \in 1 .. Len(todo')}
    BY <2>1, RangeEquality
  <2>3. \A i \in 1 .. Len(todo) : i = 1 \/ (i - 1 \in 1 .. Len(todo') /\ todo[i] = todo'[i - 1])
    BY <2>1
  <2>4. \A i \in 1 .. Len(todo') : i + 1 \in 1 .. Len(todo) /\ todo'[i] = todo[i + 1]
    BY <2>1
  <2>. HIDE DEF s
  <2>. QED  BY <2>1, <2>2, <2>3, <2>4
<1>2. /\ Commanded' = l /\ UNCHANGED <<local, driver>>
      /\ IF s.what = "pin" THEN pins' = [pins EXCEPT ![s.pin] = s.level] /\ UNCHANGED channel
                           ELSE channel' = [channel EXCEPT ![s.side] = s.value] /\ UNCHANGED pins
  BY DEF Store, Commanded
<1>3. /\ Fits(s, l) /\ \A store \in Range(todo') : Fits(store, l)
      /\ driver.by = "stick" => l = local
  BY <1>1 DEF UnderWay, Commanded
<1>. HIDE DEF s
<1>4. ASSUME NEW side \in Sides
      PROVE  SideComes(Range(todo'), side) \/ channel'[side] = PwmOf(AskedSpeed(l, side))
  <2>1. CASE s.what = "pwm" /\ s.side = side
    BY <1>1, <1>2, <1>3, <2>1 DEF Fits, Coming
  <2>2. CASE ~(s.what = "pwm" /\ s.side = side)
    <3>1. SideComes(Range(todo), side) => SideComes(Range(todo'), side)
      BY <1>1, <2>2 DEF SideComes
    <3>2. channel'[side] = channel[side]
      BY <1>1, <1>2, <2>2 DEF Coming, Stores
    <3>. QED  BY <3>1, <3>2 DEF UnderWay
  <2>. QED  BY <2>1, <2>2
<1>5. ASSUME NEW pin \in Pins, driver.by = "stick"
      PROVE  PinComes(Range(todo'), pin) \/ pins'[pin] = (pin[2] = Asked(l, pin[1]))
  <2>1. CASE s.what = "pin" /\ s.pin = pin
    <3>1. s.level = (pin[2] = Asked(l, pin[1]))
      BY <1>3, <2>1, Zenon DEF Fits
    <3>2. pins'[pin] = s.level
      BY <1>2, <2>1 DEF Coming
    <3>. QED  BY <3>1, <3>2, Zenon
  <2>2. CASE ~(s.what = "pin" /\ s.pin = pin)
    <3>1. PinComes(Range(todo), pin) => PinComes(Range(todo'), pin)
      BY <1>1, <2>2 DEF PinComes
    <3>2. pins'[pin] = pins[pin]
      BY <1>1, <1>2, <2>2 DEF Coming
    <3>3. PinComes(Range(todo), pin) \/ pins[pin] = (pin[2] = Asked(l, pin[1]))
      BY <1>3, <1>5, Zenon DEF UnderWay
    <3>. QED  BY <3>1, <3>2, <3>3, Zenon
  <2>. QED  BY <2>1, <2>2
<1>. HIDE DEF l
<1>6. driver.by = "stick" => /\ driver'.turn \in Positions /\ driver'.throttle \in Positions
                             /\ local' = steering_speeds(driver'.turn, driver'.throttle)
  BY <1>2 DEF UnderWay
<1>. QED  BY <1>2, <1>3, <1>4, <1>5, <1>6, Zenon DEF UnderWay

\* Of 512 steps: full power for a speed of 512, by the accident of its bit 15, and for 511.
Strength(speed) == IF speed > PWM_TOP_VALUE THEN PWM_TOP_VALUE ELSE speed

\* What the motor gets of a commanded speed, through the counter and its bit 15.
LEMMA DutyOfSpeed ==
    ASSUME NEW speed \in Speeds
    PROVE  Duty(PwmOf(speed)) = Strength(speed)
<1>1. CASE speed <= 511
  <2>1. \A n \in Int : 0 <= n /\ n <= 511 => n % 65536 = n /\ n % 32768 = n
    OBVIOUS
  <2>2. PwmOf(speed) = 511 - speed /\ 511 - speed \in Int /\ 0 <= 511 - speed /\ 511 - speed <= 511
    BY <1>1, <2>1 DEF PwmOf, PWM_TOP_VALUE, Speeds, maxVal
  <2>3. (511 - speed) % 32768 = 511 - speed
    BY <2>1, <2>2
  <2>. QED  BY <2>2, <2>3 DEF Duty, Strength, PWM_TOP_VALUE, Speeds, maxVal
<1>2. CASE speed = 512
  <2>1. \A n \in Int : n + 1 = 0 => n % 65536 = 65535
    OBVIOUS
  <2>2. PwmOf(speed) = 65535
    <3>1. PWM_TOP_VALUE - speed \in Int /\ (PWM_TOP_VALUE - speed) + 1 = 0
      BY <1>2 DEF PWM_TOP_VALUE
    <3>. QED  BY <2>1, <3>1 DEF PwmOf
  <2>3. 65535 % 32768 = 32767
    OBVIOUS
  <2>. QED  BY <1>2, <2>2, <2>3 DEF Duty, Strength, PWM_TOP_VALUE
<1>. QED  BY <1>1, <1>2 DEF Speeds, maxVal

\* Scaling two sides down keeps the faster one stronger, if they differ by what the dead
\* zones of the stick leave at least.
LEMMA FasterIsStronger ==
    ASSUME NEW fast \in Nat, NEW slow \in Nat, slow + 20 <= fast, fast <= 1020
    PROVE  /\ Normed(fast, slow) \in Speeds /\ Normed(slow, fast) \in Speeds
           /\ Strength(Normed(slow, fast)) < Strength(Normed(fast, slow))
<1>1. CASE fast <= maxVal
  BY <1>1 DEF Normed, Strength, Speeds, maxVal, PWM_TOP_VALUE
<1>2. CASE fast > maxVal
  <2>1. \A num \in Nat, den \in Nat \ {0} : num < 511 * den => num \div den \in 0 .. 510
    OBVIOUS
  <2>2. \A num \in Nat, den \in Nat \ {0} :
            512 * den <= num /\ num < 513 * den => num \div den = 512
    OBVIOUS
  <2>3. /\ Normed(fast, slow) = (1024 * fast + fast) \div (2 * fast)
        /\ Normed(slow, fast) = (1024 * slow + fast) \div (2 * fast)
    BY <1>2 DEF Normed, maxVal
  <2>4. Normed(fast, slow) = 512
    <3>1. /\ 1024 * fast + fast \in Nat /\ 2 * fast \in Nat \ {0}
          /\ 512 * (2 * fast) <= 1024 * fast + fast
          /\ 1024 * fast + fast < 513 * (2 * fast)
      BY <1>2 DEF maxVal
    <3>2. (1024 * fast + fast) \div (2 * fast) = 512
      BY ONLY <2>2, <3>1
    <3>. QED  BY <2>3, <3>2
  <2>5. Normed(slow, fast) \in 0 .. 510
    <3>1. /\ 1024 * slow + fast \in Nat /\ 2 * fast \in Nat \ {0}
          /\ 1024 * slow + fast < 511 * (2 * fast)
      BY <1>2 DEF maxVal
    <3>2. (1024 * slow + fast) \div (2 * fast) \in 0 .. 510
      BY ONLY <2>1, <3>1
    <3>. QED  BY <2>3, <3>2
  <2>. QED  BY <2>4, <2>5 DEF Strength, Speeds, maxVal, PWM_TOP_VALUE
<1>. QED  BY <1>1, <1>2 DEF maxVal

\* The push of one side, given what it and the other are to be.
PushOf(side, other) ==
    IF side >= 0 THEN Strength(Normed(Abs(side), Abs(other)))
                 ELSE -Strength(Normed(Abs(side), Abs(other)))

\* The dead zone and the offset of the throttle keep it off small values.
LEMMA StickRanges ==
    ASSUME NEW y \in Positions, NEW x \in Positions
    PROVE  /\ Turn(y) \in -512 .. -10 \cup {0} \cup 10 .. 511
           /\ Throttle(x) \in -508 .. -164 \cup {0} \cup 164 .. 508
<1>. DEFINE rest == DeadZone(x - 512, 20)
<1>1. Turn(y) \in -512 .. -10 \cup {0} \cup 10 .. 511
  BY DEF Turn, DeadZone, Abs, Positions
<1>2. rest \in -512 .. -20 \cup {0} \cup 20 .. 511
  BY DEF DeadZone, Abs, Positions
<1>. HIDE DEF rest
<1>3. Boost(rest) \in -508 .. -164 \cup {0} \cup 164 .. 508
  <2>4. \A n \in Int : 1640 <= n /\ n <= 5084 => n \div 10 \in 164 .. 508
    OBVIOUS
  <2>1. CASE rest > 0
    BY <1>2, <2>4, <2>1 DEF Boost
  <2>2. CASE rest < 0
    BY <1>2, <2>4, <2>2 DEF Boost
  <2>3. CASE rest = 0
    BY <2>3 DEF Boost
  <2>. QED  BY <1>2, <2>1, <2>2, <2>3
<1>. QED  BY <1>1, <1>3 DEF Throttle, rest

\* Two sides push together and apart as their wanted values say.
LEMMA PushSigns ==
    ASSUME NEW a \in Int, NEW b \in Int,
           \/ Abs(a) = Abs(b) /\ Abs(a) <= maxVal
           \/ Abs(a) >= Abs(b) + 20 /\ Abs(a) <= 1020
           \/ Abs(b) >= Abs(a) + 20 /\ Abs(b) <= 1020
    PROVE  /\ Sign(PushOf(a, b) + PushOf(b, a)) = Sign(a + b)
           /\ Sign(PushOf(a, b) - PushOf(b, a)) = Sign(a - b)
<1>. DEFINE sa == Strength(Normed(Abs(a), Abs(b)))
            sb == Strength(Normed(Abs(b), Abs(a)))
<1>0. Abs(a) \in Nat /\ Abs(b) \in Nat
  BY DEF Abs
<1>1. CASE Abs(a) = Abs(b) /\ Abs(a) <= maxVal
  <2>1. sa = Strength(Abs(a)) /\ sb = sa /\ sa \in Nat /\ (sa = 0 <=> a = 0)
    BY <1>0, <1>1 DEF Normed, Strength, maxVal, PWM_TOP_VALUE, Abs
  <2>. HIDE DEF sa, sb
  <2>2. PushOf(a, b) = (IF a >= 0 THEN sa ELSE -sa) /\ PushOf(b, a) = (IF b >= 0 THEN sa ELSE -sa)
    BY <2>1 DEF PushOf, sa, sb
  <2>3. a = b \/ a = -b
    BY <1>1 DEF Abs
  <2>. QED  BY <2>1, <2>2, <2>3 DEF Sign
<1>2. ASSUME sa \in Nat, sb \in Nat,
             (sb < sa /\ Abs(b) < Abs(a)) \/ (sa < sb /\ Abs(a) < Abs(b))
      PROVE  /\ Sign(PushOf(a, b) + PushOf(b, a)) = Sign(a + b)
             /\ Sign(PushOf(a, b) - PushOf(b, a)) = Sign(a - b)
  <2>. HIDE DEF sa, sb
  <2>1. PushOf(a, b) = (IF a >= 0 THEN sa ELSE -sa) /\ PushOf(b, a) = (IF b >= 0 THEN sb ELSE -sb)
    BY DEF PushOf, sa, sb
  <2>. QED  BY <1>2, <2>1 DEF Sign, Abs
<1>3. \A s \in Speeds : Strength(s) \in Nat
  BY DEF Strength, Speeds, PWM_TOP_VALUE, maxVal
<1>4. CASE Abs(a) >= Abs(b) + 20 /\ Abs(a) <= 1020
  <2>1. sa \in Nat /\ sb \in Nat /\ sb < sa
    BY <1>0, <1>3, <1>4, FasterIsStronger
  <2>. HIDE DEF sa, sb
  <2>. QED  BY <1>0, <1>2, <1>4, <2>1
<1>5. CASE Abs(b) >= Abs(a) + 20 /\ Abs(b) <= 1020
  <2>1. sa \in Nat /\ sb \in Nat /\ sa < sb
    BY <1>0, <1>3, <1>5, FasterIsStronger
  <2>. HIDE DEF sa, sb
  <2>. QED  BY <1>0, <1>2, <1>5, <2>1
<1>. QED  BY <1>1, <1>4, <1>5

\* The powers that a stick asks for push the way of its throttle and of its turn.
LEMMA SteeringSigns ==
    ASSUME NEW y \in Positions, NEW x \in Positions
    PROVE  LET t == Turn(y)
               th == Throttle(x)
               a == LeftSide(t, th)
               b == RightSide(t, th) IN
           /\ a \in Int /\ b \in Int /\ th \in Int
           /\ Sign(PushOf(a, b) + PushOf(b, a)) = Sign(th)
           /\ Sign(PushOf(a, b) - PushOf(b, a)) = (IF th < 0 THEN -Sign(t) ELSE Sign(t))
<1>. DEFINE t == Turn(y)
            th == Throttle(x)
            a == LeftSide(t, th)
            b == RightSide(t, th)
<1>1. /\ t \in -512 .. -10 \cup {0} \cup 10 .. 511
      /\ th \in -508 .. -164 \cup {0} \cup 164 .. 508
  BY StickRanges
<1>. HIDE DEF t, th
<1>2. /\ th >= 0 => a = th + t /\ b = th - t
      /\ th < 0 => a = th - t /\ b = th + t
  BY <1>1 DEF LeftSide, RightSide
<1>. HIDE DEF a, b
<1>3. a \in Int /\ b \in Int
  BY <1>1, <1>2
<1>4. \/ Abs(a) = Abs(b) /\ Abs(a) <= maxVal
      \/ Abs(a) >= Abs(b) + 20 /\ Abs(a) <= 1020
      \/ Abs(b) >= Abs(a) + 20 /\ Abs(b) <= 1020
  <2>1. CASE t = 0
    BY <1>1, <1>2, <2>1 DEF Abs, maxVal
  <2>2. CASE th = 0
    BY <1>1, <1>2, <2>2 DEF Abs, maxVal
  <2>3. CASE t # 0 /\ th # 0
    <3>1. CASE th > 0 /\ t > 0
      BY <1>1, <1>2, <3>1 DEF Abs
    <3>2. CASE th > 0 /\ t < 0
      BY <1>1, <1>2, <3>2 DEF Abs
    <3>3. CASE th < 0 /\ t > 0
      BY <1>1, <1>2, <3>3 DEF Abs
    <3>4. CASE th < 0 /\ t < 0
      BY <1>1, <1>2, <3>4 DEF Abs
    <3>. QED  BY <1>1, <2>3, <3>1, <3>2, <3>3, <3>4
  <2>. QED  BY <2>1, <2>2, <2>3
<1>5. /\ Sign(PushOf(a, b) + PushOf(b, a)) = Sign(a + b)
      /\ Sign(PushOf(a, b) - PushOf(b, a)) = Sign(a - b)
  BY <1>3, <1>4, PushSigns
<1>6. Sign(a + b) = Sign(th) /\ Sign(a - b) = (IF th < 0 THEN -Sign(t) ELSE Sign(t))
  BY <1>1, <1>2 DEF Sign
<1>7. th \in Int
  BY <1>1
<1>. QED  BY <1>3, <1>5, <1>6, <1>7 DEF a, b, t, th

-----------------------------------------------------------------------------
\* Nothing but whole commands, store by store, ever happens to the motors.
LEMMA CommandsUnderWay == DriveSpec => []UnderWay
<1>1. DriveInit => UnderWay
  <2>. SUFFICES ASSUME DriveInit PROVE UnderWay
    OBVIOUS
  <2>1. Range(todo) = {}
    BY DEF DriveInit, Range
  <2>2. PwmOf(0) = PWM_TOP_VALUE
    <3>1. 511 % 65536 = 511
      OBVIOUS
    <3>. QED  BY <3>1 DEF PwmOf, PWM_TOP_VALUE
  <2>3. \A side \in Sides : channel[side] = PwmOf(AskedSpeed(Commanded, side))
    BY <2>2 DEF DriveInit, Commanded, AskedSpeed
  <2>. QED  BY <2>1, <2>3 DEF DriveInit, UnderWay
<1>2. DriveInv /\ UnderWay /\ [DriveNext]_driveVars => UnderWay'
  <2>. SUFFICES ASSUME DriveInv, UnderWay, [DriveNext]_driveVars PROVE UnderWay'
    OBVIOUS
  <2>1. CASE Store
    BY <2>1, StoreUnderWay DEF DriveInv
  <2>2. CASE Halt
    <3>. DEFINE still == [left_speed |-> 0, right_speed |-> 0, left_dir |-> 0, right_dir |-> 0]
    <3>1. todo' = set_motors(still) /\ Commanded' = still /\ driver'.by = "nobody"
      BY <2>2 DEF Halt, Commanded
    <3>2. /\ still.left_speed \in Speeds /\ still.right_speed \in Speeds
          /\ still.left_dir \in {BACKWARD, FORWARD} /\ still.right_dir \in {BACKWARD, FORWARD}
      BY DEF Speeds, maxVal, BACKWARD
    <3>. HIDE DEF still
    <3>3. /\ \A store \in Range(todo') : Fits(store, Commanded')
          /\ \A side \in Sides : SideComes(Range(todo'), side)
      BY <3>1, <3>2, SetMotorsStores
    <3>. QED  BY <3>1, <3>3 DEF UnderWay
  <2>3. ASSUME NEW y \in Stick, NEW x \in Stick, DriveByStick(y, x)
        PROVE  UnderWay'
    <3>1. /\ driver' = [by |-> "stick", turn |-> joystick_read(y), throttle |-> joystick_read(x)]
          /\ local' = steering_speeds(Received(Sampled(y, x)).y, Received(Sampled(y, x)).x)
          /\ todo' = set_motors(local')
      BY <2>3 DEF DriveByStick
    <3>2. /\ driver'.turn \in Positions /\ driver'.throttle \in Positions
          /\ local' = steering_speeds(driver'.turn, driver'.throttle)
          /\ driver'.by = "stick"
      BY <3>1, ReceivedStick
    <3>3. local' \in Steered
      BY <3>2, SteeringSpeeds
    <3>4. /\ \A store \in Range(todo') : Fits(store, local')
          /\ \A pin \in Pins : PinComes(Range(todo'), pin)
          /\ \A side \in Sides : SideComes(Range(todo'), side)
      BY <3>1, <3>3, SetMotorsStores DEF Steered
    <3>5. Commanded' = local'
      BY <3>2 DEF Commanded
    <3>. QED  BY <3>2, <3>4, <3>5 DEF UnderWay
  <2>4. ASSUME NEW y \in Stick, NEW mm \in Echoes, DriveByDistance(y, mm)
        PROVE  UnderWay'
    <3>1. driver'.by = "distance"
      BY <2>4 DEF DriveByDistance
    <3>. QED  BY <3>1 DEF UnderWay
  <2>5. CASE UNCHANGED driveVars
    BY <2>5 DEF driveVars, UnderWay, Commanded
  <2>. QED  BY <2>1, <2>2, <2>3, <2>4, <2>5 DEF DriveNext
<1>. QED  BY <1>1, <1>2, DriveInvariant, PTL DEF DriveSpec

\* What a side does once its stores are made.
LEMMA PowerAsAsked ==
    ASSUME DriveInv, UnderWay, todo = <<>>, driver.by # "distance", NEW side \in Sides
    PROVE  /\ Duty(channel[side]) = Strength(AskedSpeed(Commanded, side))
           /\ driver.by = "stick" =>
                  Power(side) = IF Asked(local, side) = FORWARD
                                THEN Strength(AskedSpeed(local, side))
                                ELSE -Strength(AskedSpeed(local, side))
<1>1. Range(todo) = {}
  BY DEF Range
<1>2. channel[side] = PwmOf(AskedSpeed(Commanded, side))
  BY <1>1 DEF UnderWay, SideComes
<1>3. AskedSpeed(Commanded, side) \in Speeds
  BY DEF DriveInv, Computed, Locals, AskedSpeed, Commanded, Speeds, maxVal
<1>4. Duty(channel[side]) = Strength(AskedSpeed(Commanded, side))
  BY <1>2, <1>3, DutyOfSpeed
<1>5. ASSUME driver.by = "stick"
      PROVE  Power(side) = IF Asked(local, side) = FORWARD
                           THEN Strength(AskedSpeed(local, side))
                           ELSE -Strength(AskedSpeed(local, side))
  <2>1. Commanded = local
    BY <1>5 DEF Commanded
  <2>2. local \in Steered
    BY <1>5, SteeringSpeeds DEF UnderWay
  <2>3. Asked(local, side) \in {BACKWARD, FORWARD}
    BY <2>2 DEF Steered, Asked
  <2>4. <<side, FORWARD>> \in Pins /\ <<side, BACKWARD>> \in Pins
    BY DEF Pins
  <2>5. \A pin \in Pins : pins[pin] = (pin[2] = Asked(local, pin[1]))
    <3>1. \A pin \in Pins : ~PinComes(Range(todo), pin)
      BY <1>1 DEF PinComes
    <3>. QED  BY <1>5, <3>1, Zenon DEF UnderWay
  <2>6. /\ pins[<<side, FORWARD>>] <=> (FORWARD = Asked(local, side))
        /\ pins[<<side, BACKWARD>>] <=> (BACKWARD = Asked(local, side))
    <3>1. pins[<<side, FORWARD>>] = (<<side, FORWARD>>[2] = Asked(local, <<side, FORWARD>>[1]))
      BY <2>4, <2>5, Zenon
    <3>2. pins[<<side, BACKWARD>>] = (<<side, BACKWARD>>[2] = Asked(local, <<side, BACKWARD>>[1]))
      BY <2>4, <2>5, Zenon
    <3>3. /\ <<side, FORWARD>>[2] = FORWARD /\ <<side, FORWARD>>[1] = side
          /\ <<side, BACKWARD>>[2] = BACKWARD /\ <<side, BACKWARD>>[1] = side
      OBVIOUS
    <3>. QED  BY <3>1, <3>2, <3>3
  <2>. QED  BY <1>4, <2>1, <2>3, <2>6 DEF Power, FORWARD, BACKWARD
<1>. QED  BY <1>4, <1>5

\* Whatever the bridges were told before, a car whose stores are made pushes the way of
\* the stick, for each of the 1024 positions of both axes.
THEOREM SteersByStick == DriveSpec => []SteeredByStick
<1>1. DriveInv /\ UnderWay => SteeredByStick
  <2>. SUFFICES ASSUME DriveInv, UnderWay, todo = <<>>, driver.by = "stick"
                PROVE  /\ Sign(Power("left") + Power("right")) = Sign(Throttle(driver.throttle))
                       /\ Sign(Power("left") - Power("right")) =
                              (IF Sign(Throttle(driver.throttle)) < 0
                               THEN -Sign(Turn(driver.turn)) ELSE Sign(Turn(driver.turn)))
    BY DEF SteeredByStick
  <2>. DEFINE t == Turn(driver.turn)
              th == Throttle(driver.throttle)
              a == LeftSide(t, th)
              b == RightSide(t, th)
  <2>1. /\ driver.turn \in Positions /\ driver.throttle \in Positions
        /\ local = steering_speeds(driver.turn, driver.throttle)
    BY DEF UnderWay
  <2>2. /\ local.left_speed = Normed(Abs(a), Abs(b)) /\ local.left_dir = Dir(a)
        /\ local.right_speed = Normed(Abs(b), Abs(a)) /\ local.right_dir = Dir(b)
    BY <2>1 DEF steering_speeds
  <2>3. a \in Int /\ b \in Int /\ th \in Int
    BY <2>1, SteeringSigns
  <2>4. /\ Sign(PushOf(a, b) + PushOf(b, a)) = Sign(th)
        /\ Sign(PushOf(a, b) - PushOf(b, a)) = (IF th < 0 THEN -Sign(t) ELSE Sign(t))
    BY <2>1, SteeringSigns
  <2>. HIDE DEF a, b, t, th
  <2>5. Power("left") = PushOf(a, b)
    <3>1. Power("left") = IF local.left_dir = FORWARD THEN Strength(local.left_speed)
                                                      ELSE -Strength(local.left_speed)
      BY PowerAsAsked DEF Sides, Asked, AskedSpeed
    <3>. QED  BY <2>2, <2>3, <3>1 DEF PushOf, Dir, FORWARD, BACKWARD
  <2>6. Power("right") = PushOf(b, a)
    <3>1. Power("right") = IF local.right_dir = FORWARD THEN Strength(local.right_speed)
                                                        ELSE -Strength(local.right_speed)
      BY PowerAsAsked DEF Sides, Asked, AskedSpeed
    <3>. QED  BY <2>2, <2>3, <3>1 DEF PushOf, Dir, FORWARD, BACKWARD
  <2>7. Sign(th) < 0 <=> th < 0
    BY <2>3 DEF Sign
  <2>. QED  BY <2>4, <2>5, <2>6, <2>7 DEF t, th
<1>. QED  BY <1>1, DriveInvariant, CommandsUnderWay, PTL

\* A car that waits for a remote (main.c:344-347) stands still once its stores are made.
THEOREM WaitsStandingStill == DriveSpec => []StandsStill
<1>1. DriveInv /\ UnderWay => StandsStill
  <2>. SUFFICES ASSUME DriveInv, UnderWay, todo = <<>>, driver.by = "nobody", NEW side \in Sides
                PROVE  Power(side) = 0
    BY DEF StandsStill
  <2>1. Duty(channel[side]) = Strength(AskedSpeed(Commanded, side))
    BY PowerAsAsked
  <2>2. Strength(AskedSpeed(Commanded, side)) = 0
    BY DEF Commanded, AskedSpeed, Strength, PWM_TOP_VALUE
  <2>3. Duty(channel[side]) = 0
    BY <2>1, <2>2
  <2>. HIDE DEF Duty
  <2>4. Power(side) \in {Duty(channel[side]), -Duty(channel[side]), 0}
    BY DEF Power
  <2>. QED  BY <2>3, <2>4
<1>. QED  BY <1>1, DriveInvariant, CommandsUnderWay, PTL

-----------------------------------------------------------------------------
\* rc_ultrasound.c:43: a pulse that ends before the counter reloads is measured in
\* microseconds; one that does not, of any length, reads as more than nine kilometres.
THEOREM UltrasoundReload ==
    ASSUME NEW start \in Nat, NEW ticks \in Nat, start < SYSTICK_TOP, ticks < SYSTICK_TOP
    PROVE  IF ticks <= start
           THEN MicrosecondsBetween(start, Later(start, ticks)) = ticks \div 64
           ELSE ultrasound_get_distance(start, ticks) > 9000000
<1>1. CASE ticks <= start
  <2>1. \A n \in Int : 0 <= n /\ n < 1000000 => n % 1000000 = n
    BY SMT
  <2>2. Later(start, ticks) = start - ticks
    BY <1>1, <2>1, SMT DEF Later, SYSTICK_TOP
  <2>. QED  BY <1>1, <2>2, SMT DEF MicrosecondsBetween
<1>2. CASE ticks > start
  <2>1. \A n \in Int : -1000000 < n /\ n < 0 => n % 1000000 = n + 1000000
    BY SMT
  <2>2. Later(start, ticks) = start - ticks + 1000000
    BY <1>2, <2>1, SMT DEF Later, SYSTICK_TOP
  <2>. DEFINE micros == MicrosecondsBetween(start, Later(start, ticks))
  <2>3. micros = (ticks - 1000000) \div 64 + 67108864
    BY <1>2, <2>2, SMT DEF MicrosecondsBetween, SYSTICK_TOP
  <2>4. \A n \in Int : -1000000 <= n /\ n < 0 => n \div 64 \in Int /\ n \div 64 >= -15625
    BY SMT
  <2>. HIDE DEF micros
  <2>5. micros \in Int /\ micros > 67000000
    BY <1>2, <2>3, <2>4, SMT DEF SYSTICK_TOP
  <2>6. \A n \in Int : n > 670000000 => n \div 58 > 9000000
    BY SMT
  <2>7. (micros * 10) \div 58 > 9000000
    BY <2>5, <2>6, SMT
  <2>. QED  BY <1>2, <2>7, SMT DEF micros, ultrasound_get_distance
<1>. QED  BY <1>1, <1>2, SMT
=============================================================================
