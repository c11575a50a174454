---------------------------- MODULE MCFanWorker -----------------------------
(* Instances of FanWorker and FanSensor.  Temperatures are whole degrees   *)
(* and the curves and limits are the script's; times are in ticks of the   *)
(* five seconds a cycle sleeps, so that Refresh is 4 ticks and HotLimit 2. *)
(* A behaviour is one of three scenarios: heat with every sensor readable  *)
(* and cycles of one or two ticks; faults in cycles of one tick; or the    *)
(* feedback of one sensor by itself, over every reading from ten degrees   *)
(* below the first threshold of the CPU curve to five above its last.      *)
EXTENDS FanWorker, FanSensor

VARIABLE scenario
mcVars == <<vars, sensorVars, scenario>>

MCCpuCurve   == [at |-> <<60, 65, 75>>, hyst |-> 4]
MCPhyCurve   == [at |-> <<55, 65, 75>>, hyst |-> 4]
MCDriveCurve == [at |-> <<36, 42, 48>>, hyst |-> 2]
MCTemps == 50..80

HeatSights == {s \in Sights : /\ s.cpu \in {50, 62, 92, 95} /\ s.monitor = "quiet"
                              /\ s.present <= 1 /\ s.scan.count <= 1}
FaultSights == {s \in Sights : s.cpu \in {0, 50} /\ s.scan.hottest \in {0, 30}}

MCInit == Init /\ SensorInit /\ temperature = 50 /\ scenario \in {"heat", "fault", "sensor"}
Heat == /\ scenario = "heat"
        /\ \E d \in Spans, s \in HeatSights : Cycle(now + d, s) \/ Fail(now + d, s)
Fault == /\ scenario = "fault"
         /\ \E s \in FaultSights : Cycle(now + 1, s) \/ Fail(now + 1, s)
Worker == /\ scenario # "sensor"
          /\ Start \/ Heat \/ Fault \/ Terminate \/ Kill
          /\ UNCHANGED <<sensorVars, scenario>>
Sensor == /\ scenario = "sensor"
          /\ SensorNext
          /\ UNCHANGED <<vars, scenario>>
MCSpec == MCInit /\ [][Worker \/ Sensor]_mcVars
=============================================================================
