------------------------------ MODULE FanCurve ------------------------------
(***************************************************************************)
(* The temperature-to-level curve every sensor of the fan service goes     *)
(* through: fan_curve in ls420d-fan-policy.sh.  Levels are the four states *)
(* of the gpio-fan cooling device.                                         *)
(***************************************************************************)
EXTENDS Integers

Level == 0..3
Rung  == 1..3      \* the levels that have a threshold

(* A curve is its three thresholds and one hysteresis for all of them.     *)
Curves == [at : [Rung -> Int], hyst : Nat]

Ascending(c) == c.at[1] <= c.at[2] /\ c.at[2] <= c.at[3]

(* Faulty forms of Asks: any reading inside the hysteresis asks for the    *)
(* rung; the hysteresis is left out.                                       *)
AsksWhateverPrevious(t, previous, c, k) == t >= c.at[k] - c.hyst
AsksNoHysteresis(t, previous, c, k) == t >= c.at[k]

(* A temperature asks for a rung when it reaches the threshold, or when    *)
(* the previous level was already there and it has not lost the hysteresis.*)
Asks(t, previous, c, k) ==
    \/ t >= c.at[k]
    \/ previous >= k /\ t >= c.at[k] - c.hyst

(* The script raises its result test by test, lowest rung first, so what   *)
(* it echoes is the highest rung asked for.                                *)
Curve(t, previous, c) ==
    IF Asks(t, previous, c, 3) THEN 3
    ELSE IF Asks(t, previous, c, 2) THEN 2
    ELSE IF Asks(t, previous, c, 1) THEN 1
    ELSE 0

(* What a temperature asks for with no history.                            *)
BaseLevel(t, c) == Curve(t, 0, c)

Smaller(a, b) == IF a <= b THEN a ELSE b
Larger(a, b)  == IF a >= b THEN a ELSE b

=============================================================================
