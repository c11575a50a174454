----------------------------- MODULE FanSensor ------------------------------
(***************************************************************************)
(* The feedback loop the worker closes around fan_curve for one sensor:    *)
(* the level a sensor asked for in one cycle is the "previous" argument of *)
(* its next one (cpu_state, phy_state and disk_state of the worker).       *)
(***************************************************************************)
EXTENDS FanCurve, TLAPS

CONSTANTS Temps,    \* the temperatures this sensor can report
          TheCurve  \* the curve it is given

ASSUME CurveAssumption ==
    /\ Temps \subseteq Int
    /\ TheCurve \in Curves
    /\ Ascending(TheCurve)

VARIABLES temperature,  \* the latest reading
          level,        \* the level it was given, the next call's "previous"
          armed,        \* history: one hysteresis switch per rung
          peak          \* history: the hottest reading since level last grew

sensorVars == <<temperature, level, armed, peak>>

SensorInit ==
    /\ temperature \in Temps
    /\ level = 0
    /\ armed = [k \in Rung |-> FALSE]
    /\ peak = temperature

(* One cycle of the worker for this sensor.                                *)
Read(t) ==
    /\ temperature' = t
    /\ level' = Curve(t, level, TheCurve)
    /\ armed' = [k \in Rung |->
                    \/ t >= TheCurve.at[k]
                    \/ armed[k] /\ t >= TheCurve.at[k] - TheCurve.hyst]
    /\ peak' = IF level' > level \/ t > peak THEN t ELSE peak

SensorNext == \E t \in Temps : Read(t)

SensorSpec == SensorInit /\ [][SensorNext]_sensorVars

-----------------------------------------------------------------------------
SensorTypeOK ==
    /\ temperature \in Int
    /\ level \in Level
    /\ armed \in [Rung -> BOOLEAN]
    /\ peak \in Int

(* The single number fan_curve passes from cycle to cycle remembers what   *)
(* three independent switches would: switch k closes at threshold k and    *)
(* opens again only hyst below it, whatever the other two did.             *)
ThreeSwitches == \A k \in Rung : armed[k] <=> level >= k

(* A reading that hovers at a threshold does not make the level chatter:   *)
(* between a rise and the next fall it has come down by more than the      *)
(* hysteresis from the hottest value it had meanwhile.                     *)
NoChatter == [][level' < level => peak - temperature' > TheCurve.hyst]_sensorVars

-----------------------------------------------------------------------------
(* The hysteresis in one line: fan_curve echoes the previous level, pulled *)
(* down to what the temperature would ask for were it hyst warmer and up   *)
(* to what it asks for as it is.                                           *)
THEOREM CurveClamps ==
    ASSUME NEW t \in Int, NEW previous \in Level, NEW c \in Curves, Ascending(c)
    PROVE  Curve(t, previous, c) =
               Larger(BaseLevel(t, c), Smaller(previous, BaseLevel(t + c.hyst, c)))
BY DEF Curve, BaseLevel, Asks, Level, Curves, Rung, Ascending, Larger, Smaller

(* The types, for every curve with ascending thresholds and every set of   *)
(* temperatures.                                                           *)
LEMMA SensorTyped == SensorSpec => []SensorTypeOK
<1>1. SensorInit => SensorTypeOK
  BY CurveAssumption DEF SensorInit, SensorTypeOK, Level
<1>2. SensorTypeOK /\ [SensorNext]_sensorVars => SensorTypeOK'
  <2> SUFFICES ASSUME SensorTypeOK, [SensorNext]_sensorVars PROVE SensorTypeOK'
    OBVIOUS
  <2>1. CASE \E t \in Temps : Read(t)
    <3>1. PICK t \in Temps : Read(t)
      BY <2>1
    <3> QED
      BY <3>1, CurveAssumption DEF Read, Curve, Level, SensorTypeOK, Rung, Curves
  <2>2. CASE UNCHANGED sensorVars
    BY <2>2 DEF sensorVars, SensorTypeOK
  <2> QED
    BY <2>1, <2>2 DEF SensorNext
<1> QED
  BY <1>1, <1>2, PTL DEF SensorSpec

(* fan_curve, called with its own last result, is three independent        *)
(* switches with hysteresis.                                               *)
THEOREM CurveIsThreeSwitches == SensorSpec => []ThreeSwitches
<1>1. SensorInit => ThreeSwitches
  BY DEF SensorInit, ThreeSwitches, Rung
<1>2. SensorTypeOK /\ ThreeSwitches /\ [SensorNext]_sensorVars => ThreeSwitches'
  <2> SUFFICES ASSUME SensorTypeOK, ThreeSwitches, [SensorNext]_sensorVars PROVE ThreeSwitches'
    OBVIOUS
  <2>1. CASE \E t \in Temps : Read(t)
    <3>1. PICK t \in Temps : Read(t)
      BY <2>1
    <3>2. t \in Int /\ TheCurve \in Curves /\ Ascending(TheCurve)
      BY CurveAssumption
    <3> QED
      BY <3>1, <3>2
      DEF Read, Curve, Asks, Curves, Ascending, ThreeSwitches, SensorTypeOK, Rung, Level
  <2>2. CASE UNCHANGED sensorVars
    BY <2>2 DEF sensorVars, ThreeSwitches
  <2> QED
    BY <2>1, <2>2 DEF SensorNext
<1> QED
  BY <1>1, <1>2, SensorTyped, PTL DEF SensorSpec

(* Why a fall needs the whole hysteresis: the level was reached by its own *)
(* threshold, and peak remembers it.                                       *)
PeakReachedLevel == level >= 1 => peak >= TheCurve.at[level]

LEMMA PeakReaches == SensorSpec => []PeakReachedLevel
<1>1. SensorInit => PeakReachedLevel
  BY DEF SensorInit, PeakReachedLevel
<1>2. SensorTypeOK /\ PeakReachedLevel /\ [SensorNext]_sensorVars => PeakReachedLevel'
  <2> SUFFICES ASSUME SensorTypeOK, PeakReachedLevel, [SensorNext]_sensorVars PROVE PeakReachedLevel'
    OBVIOUS
  <2>1. CASE \E t \in Temps : Read(t)
    <3>1. PICK t \in Temps : Read(t)
      BY <2>1
    <3>2. t \in Int /\ TheCurve \in Curves /\ Ascending(TheCurve)
      BY CurveAssumption
    <3> QED
      BY <3>1, <3>2
      DEF Read, Curve, Asks, Curves, Ascending, PeakReachedLevel, SensorTypeOK, Rung, Level
  <2>2. CASE UNCHANGED sensorVars
    BY <2>2 DEF sensorVars, PeakReachedLevel
  <2> QED
    BY <2>1, <2>2 DEF SensorNext
<1> QED
  BY <1>1, <1>2, SensorTyped, PTL DEF SensorSpec

(* No sensor makes its level chatter, whatever the thresholds.             *)
THEOREM NeverChatters == SensorSpec => NoChatter
<1>1. SensorTypeOK /\ PeakReachedLevel /\ [SensorNext]_sensorVars
        => [level' < level => peak - temperature' > TheCurve.hyst]_sensorVars
  <2> SUFFICES ASSUME SensorTypeOK, PeakReachedLevel, SensorNext, level' < level
               PROVE  peak - temperature' > TheCurve.hyst
    BY DEF sensorVars
  <2>1. PICK t \in Temps : Read(t)
    BY DEF SensorNext
  <2>2. t \in Int /\ TheCurve \in Curves /\ Ascending(TheCurve)
    BY CurveAssumption
  <2>3. t < TheCurve.at[level] - TheCurve.hyst /\ level >= 1
    BY <2>1, <2>2 DEF Read, Curve, Asks, Curves, Ascending, SensorTypeOK, Rung, Level
  <2> QED
    BY <2>1, <2>2, <2>3 DEF Read, PeakReachedLevel, SensorTypeOK, Curves, Rung, Level
<1> QED
  BY <1>1, SensorTyped, PeakReaches, PTL DEF SensorSpec, NoChatter
=============================================================================
