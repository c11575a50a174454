-------------------------- MODULE FanWorkerProofs ---------------------------
(***************************************************************************)
(* Theorems about FanWorker for every value of its constants: any curves,  *)
(* limits, hold and shutdown times, any number of drives, no horizon.      *)
(***************************************************************************)
EXTENDS FanWorker, TLAPS

(* fan_curve echoes one of the four states of the device.                  *)
LEMMA CurveIsLevel ==
    ASSUME NEW t, NEW previous, NEW c
    PROVE  Curve(t, previous, c) \in Level
BY DEF Curve, Level

(* History only ever adds cooling: fan_curve echoes no less than the bare  *)
(* thresholds ask for.                                                     *)
LEMMA CurveAtLeastBase ==
    ASSUME NEW t \in Int, NEW previous \in Level, NEW c \in Curves
    PROVE  Curve(t, previous, c) >= BaseLevel(t, c)
BY DEF Curve, BaseLevel, Asks, Level, Curves, Rung

(* The times and limits, unpacked.                                         *)
LEMMA ConstantsPositive ==
    /\ Hold \in Nat /\ Refresh \in Nat /\ Hold >= Refresh /\ Refresh > 0
    /\ FaultLimit \in Nat /\ HotLimit \in Nat /\ FaultLimit > 0 /\ HotLimit > 0
    /\ AlarmLimit \in Nat /\ AlarmLimit > 0 /\ MaxSpan \in Nat
    /\ CpuLimit \in Nat /\ CpuHardLimit \in Nat /\ DriveLimit \in Nat
    /\ PhyLimit \in Nat /\ CpuLimit <= CpuHardLimit
    /\ CpuCurve \in Curves /\ PhyCurve \in Curves /\ DriveCurve \in Curves
BY WorkerAssumption

LEMMA ReadingsAreNumbers ==
    /\ CpuReadings \subseteq Nat /\ PhyReadings \subseteq Nat
    /\ DriveTemps \cup {0} \subseteq Nat /\ 0..MaxDrives \subseteq Nat
BY WorkerAssumption

LEMMA FullIsLevel == 0 \in Level /\ 3 \in Level
BY DEF Level

LEMMA SpansPositive == \A d \in Spans : d \in Nat /\ d >= 1 /\ d <= MaxSpan
BY WorkerAssumption

(* What a cycle sees and when, in the form the leaves below need.          *)
LEMMA CycleInputs ==
    ASSUME TypeOK, NEW d \in Spans, NEW s \in Sights
    PROVE  /\ now + d \in Nat /\ now + d > now /\ now + d <= now + MaxSpan
           /\ s.cpu \in Nat /\ s.phy \in Nat /\ s.present \in Nat
           /\ s.scan \in [count : Nat, hottest : Nat, unreadable : BOOLEAN]
<1>1. d \in Nat /\ d >= 1 /\ d <= MaxSpan /\ now \in Nat
  BY SpansPositive DEF TypeOK
<1>2. /\ s.scan \in DriveScans /\ s.cpu \in CpuReadings /\ s.phy \in PhyReadings
      /\ s.present \in 0..MaxDrives
  BY DEF Sights
<1>3. s.cpu \in Nat /\ s.phy \in Nat /\ s.present \in Nat
  BY <1>2, ReadingsAreNumbers
<1>4. s.scan \in [count : Nat, hottest : Nat, unreadable : BOOLEAN]
  <2>1. s.scan \in [count : 0..MaxDrives, hottest : DriveTemps \cup {0},
                    unreadable : BOOLEAN]
    BY <1>2 DEF DriveScans
  <2>2. 0..MaxDrives \subseteq Nat /\ DriveTemps \cup {0} \subseteq Nat
    BY ReadingsAreNumbers
  <2> QED
    BY <2>1, <2>2
<1> QED
  BY <1>1, <1>3, <1>4, ConstantsPositive

(* The quantities a cycle computes have the types of the locals they are   *)
(* assigned to.                                                            *)
LEMMA CycleTyped ==
    ASSUME TypeOK, NEW t \in Nat, NEW s \in Sights,
           s.present \in Nat,
           s.scan \in [count : Nat, hottest : Nat, unreadable : BOOLEAN]
    PROVE  /\ Drives(t, s) \in [count : Nat, hottest : Nat, unreadable : BOOLEAN, at : Nat]
           /\ Expected(t, s) \in Nat
           /\ AlarmBad(s) \in 0..AlarmLimit
           /\ Levels(t, s) \in [cpu : Level, phy : Level, drive : Level]
           /\ Target(t, s) \in Level
           /\ NewState(t, s) \in Level
           /\ Since(t, s) \in [low : Nat, fault : Nat, hot : Nat]
           /\ Emergencies(t, s) \subseteq Reasons
<1>1. Drives(t, s) \in [count : Nat, hottest : Nat, unreadable : BOOLEAN, at : Nat]
  BY DEF Drives, TypeOK
<1>2. Expected(t, s) \in Nat
  BY <1>1 DEF Expected, Larger, TypeOK
<1>3. AlarmBad(s) \in 0..AlarmLimit
  BY ConstantsPositive DEF AlarmBad, TypeOK
<1>4. Levels(t, s) \in [cpu : Level, phy : Level, drive : Level]
  BY CurveIsLevel DEF Levels
<1>5. Target(t, s) \in Level
  BY <1>4 DEF Target, Larger, Level
<1>6. NewState(t, s) \in Level
  BY <1>5 DEF NewState, TypeOK
<1>7. \A n \in Nat, b \in BOOLEAN : Running(n, b, t) \in Nat
  BY DEF Running
<1>8. Since(t, s) \in [low : Nat, fault : Nat, hot : Nat]
  <2>1. /\ (Lowering(t, s) /\ ~Reduces(t, s)) \in BOOLEAN
        /\ Bad(t, s) \in BOOLEAN /\ Hot(t, s) \in BOOLEAN
    BY DEF Lowering, Reduces, Bad, Hot
  <2> QED
    BY <1>7, <2>1 DEF Since, TypeOK
<1>9. Emergencies(t, s) \subseteq Reasons
  BY DEF Emergencies, Reasons
<1> QED
  BY <1>1, <1>2, <1>3, <1>4, <1>5, <1>6, <1>8, <1>9

-----------------------------------------------------------------------------
(* The worker's variables keep their types.                                *)
THEOREM WorkerTyped == Spec => []TypeOK
<1>1. Init => TypeOK
  <2> SUFFICES ASSUME Init PROVE TypeOK
    OBVIOUS
  <2>1. now \in Nat
    BY SpansPositive DEF Init
  <2>2. /\ alive \in BOOLEAN /\ cur \in Level /\ state \in Level /\ last \in Level
        /\ readings \in [cpu : Nat, phy : Nat]
        /\ levels \in [cpu : Level, phy : Level, drive : Level]
        /\ drives \in [count : Nat, hottest : Nat, unreadable : BOOLEAN, at : Nat]
    BY FullIsLevel DEF Init
  <2>3. expected \in Nat /\ known \in Nat /\ alarmBad \in 0..AlarmLimit
    BY ConstantsPositive DEF Init
  <2>4. /\ since \in [low : Nat, fault : Nat, hot : Nat]
        /\ poweroff \subseteq Reasons
        /\ demandAt \in [Rung -> Nat] /\ cleanAt \in Nat /\ coolAt \in Nat
    BY <2>1 DEF Init
  <2> QED
    BY <2>1, <2>2, <2>3, <2>4 DEF TypeOK
<1>2. TypeOK /\ [Next]_vars => TypeOK'
  <2> SUFFICES ASSUME TypeOK, [Next]_vars PROVE TypeOK'
    OBVIOUS
  <2>1. CASE Start
    BY <2>1, FullIsLevel, ConstantsPositive DEF Start, TypeOK
  <2>2. ASSUME NEW d \in Spans, NEW s \in Sights, Decide(now + d, s),
               alive' \in BOOLEAN, cur' \in Level, last' \in Level
        PROVE  TypeOK'
    <3> DEFINE t == now + d
    <3>1. /\ t \in Nat /\ s.cpu \in Nat /\ s.phy \in Nat /\ s.present \in Nat
          /\ s.scan \in [count : Nat, hottest : Nat, unreadable : BOOLEAN]
      BY CycleInputs
    <3>2. /\ drives' = Drives(t, s) /\ expected' = Expected(t, s)
          /\ alarmBad' = AlarmBad(s) /\ levels' = Levels(t, s)
          /\ state' = NewState(t, s) /\ since' = Since(t, s)
          /\ poweroff' = poweroff \cup Emergencies(t, s)
          /\ now' = t /\ readings' = [cpu |-> s.cpu, phy |-> s.phy]
      BY <2>2 DEF Decide
    <3>3. known' = Larger(known, Larger(drives'.count, s.present))
          /\ demandAt' = [k \in Rung |-> IF Target(t, s) >= k THEN t ELSE demandAt[k]]
          /\ cleanAt' = (IF Bad(t, s) THEN cleanAt ELSE t)
          /\ coolAt' = (IF Hot(t, s) THEN coolAt ELSE t)
      BY <2>2 DEF Decide
    <3> HIDE DEF t
    <3>4. /\ drives' \in [count : Nat, hottest : Nat, unreadable : BOOLEAN, at : Nat]
          /\ expected' \in Nat /\ alarmBad' \in 0..AlarmLimit
          /\ levels' \in [cpu : Level, phy : Level, drive : Level]
          /\ state' \in Level
          /\ since' \in [low : Nat, fault : Nat, hot : Nat]
          /\ poweroff' \subseteq Reasons
      BY <3>1, <3>2, CycleTyped DEF TypeOK
    <3>5. known' \in Nat
      BY <3>1, <3>3, <3>4 DEF Larger, TypeOK
    <3>6. cleanAt' \in Nat /\ coolAt' \in Nat /\ demandAt' \in [Rung -> Nat]
      BY <3>1, <3>3 DEF TypeOK
    <3> QED
      BY <2>2, <3>1, <3>2, <3>4, <3>5, <3>6 DEF TypeOK
  <2>3. ASSUME NEW d \in Spans, NEW s \in Sights, Cycle(now + d, s)
        PROVE  TypeOK'
    <3>1. /\ now + d \in Nat /\ s.present \in Nat
          /\ s.scan \in [count : Nat, hottest : Nat, unreadable : BOOLEAN]
      BY CycleInputs
    <3>2. NewState(now + d, s) \in Level
      BY <3>1, CycleTyped
    <3> QED
      BY <2>2, <2>3, <3>2 DEF Cycle, Decide, TypeOK
  <2>4. ASSUME NEW d \in Spans, NEW s \in Sights, Fail(now + d, s)
        PROVE  TypeOK'
    BY <2>2, <2>4 DEF Fail, TypeOK
  <2>5. CASE Terminate
    BY <2>5, FullIsLevel DEF Terminate, TypeOK, locals, history
  <2>6. CASE Kill
    BY <2>6 DEF Kill, TypeOK, locals, history
  <2>7. CASE UNCHANGED vars
    BY <2>7 DEF vars, TypeOK, locals, history
  <2> QED
    BY <2>1, <2>3, <2>4, <2>5, <2>6, <2>7 DEF Next
<1> QED
  BY <1>1, <1>2, PTL DEF Spec

-----------------------------------------------------------------------------
(* The inductive invariant.  While the worker runs: what it last wrote is  *)
(* what the device shows and what it decided; low_since is no earlier than *)
(* the last demand for the level it would leave; fault_since and hot_since *)
(* are zero exactly when the latest cycle was clean or cool, and otherwise *)
(* the start of the first cycle that was not.                              *)
LevelWritten == cur = state /\ last = state

LowTimer ==
    /\ \A k \in Rung : demandAt[k] <= now
    /\ since.low # 0 => /\ state >= 1
                        /\ since.low <= now
                        /\ demandAt[state] <= since.low

FaultTimer ==
    IF since.fault = 0 THEN cleanAt = now
    ELSE /\ cleanAt <= since.fault /\ since.fault <= cleanAt + MaxSpan
         /\ since.fault <= now
         /\ now - since.fault >= FaultLimit => "fault" \in poweroff

HotTimer ==
    IF since.hot = 0 THEN coolAt = now
    ELSE /\ coolAt <= since.hot /\ since.hot <= coolAt + MaxSpan
         /\ since.hot <= now
         /\ now - since.hot >= HotLimit => "heat" \in poweroff

DrivesKnown == expected = known

WorkerInv ==
    alive => /\ LevelWritten /\ LowTimer /\ FaultTimer /\ HotTimer /\ DrivesKnown
             /\ CoolingMeetsDemand /\ BlindMeansFull /\ ScannedBeforeSlowing

(* The facts about a cycle that the invariant's conjuncts rest on.         *)
LEMMA CycleFacts ==
    ASSUME TypeOK, NEW d \in Spans, NEW s \in Sights
    PROVE  /\ now + d \in Nat /\ now + d > now /\ now + d <= now + MaxSpan
           /\ s.cpu \in Nat /\ s.phy \in Nat /\ s.present \in Nat
           /\ Drives(now + d, s) \in
                [count : Nat, hottest : Nat, unreadable : BOOLEAN, at : Nat]
           /\ Levels(now + d, s) \in [cpu : Level, phy : Level, drive : Level]
           /\ Target(now + d, s) \in Level
           /\ NewState(now + d, s) \in Level
           /\ NewState(now + d, s) >= Target(now + d, s)
<1>1. /\ now + d \in Nat /\ s.present \in Nat
      /\ s.scan \in [count : Nat, hottest : Nat, unreadable : BOOLEAN]
  BY CycleInputs
<1>2. Target(now + d, s) \in Level
  BY <1>1, CycleTyped
<1>3. NewState(now + d, s) >= Target(now + d, s)
  BY <1>2 DEF NewState, Lowering, Level, TypeOK
<1> QED
  BY <1>1, <1>2, <1>3, CycleTyped, CycleInputs

(* A completed cycle writes at least what each reading asks for.           *)
LEMMA DemandStep ==
    ASSUME TypeOK, NEW d \in Spans, NEW s \in Sights, Cycle(now + d, s)
    PROVE  CoolingMeetsDemand'
<1> DEFINE t == now + d
           dr == Drives(t, s)
<1>1. /\ t \in Nat /\ s.cpu \in Nat /\ s.phy \in Nat
      /\ dr.hottest \in Nat
      /\ Levels(t, s) \in [cpu : Level, phy : Level, drive : Level]
      /\ Target(t, s) \in Level
      /\ NewState(t, s) \in Level /\ NewState(t, s) >= Target(t, s)
  BY CycleFacts
<1>2. /\ cur' = NewState(t, s) /\ drives' = dr
      /\ readings' = [cpu |-> s.cpu, phy |-> s.phy]
  BY DEF Cycle, Decide
<1> HIDE DEF t, dr
<1>3. /\ Target(t, s) >= Levels(t, s).cpu
      /\ Target(t, s) >= Levels(t, s).phy
      /\ Target(t, s) >= Levels(t, s).drive
  BY <1>1 DEF Target, Larger, Level
<1>4. levels.cpu \in Level /\ levels.phy \in Level /\ levels.drive \in Level
  BY DEF TypeOK
<1>5. /\ Levels(t, s).cpu >= BaseLevel(s.cpu, CpuCurve)
      /\ Levels(t, s).phy >= BaseLevel(s.phy, PhyCurve)
      /\ Levels(t, s).drive >= BaseLevel(dr.hottest, DriveCurve)
  BY <1>1, <1>4, CurveAtLeastBase, ConstantsPositive DEF Levels, dr
<1>6. /\ BaseLevel(s.cpu, CpuCurve) \in Level
      /\ BaseLevel(s.phy, PhyCurve) \in Level
      /\ BaseLevel(dr.hottest, DriveCurve) \in Level
  BY CurveIsLevel DEF BaseLevel
<1>7. /\ NewState(t, s) >= BaseLevel(s.cpu, CpuCurve)
      /\ NewState(t, s) >= BaseLevel(s.phy, PhyCurve)
      /\ NewState(t, s) >= BaseLevel(dr.hottest, DriveCurve)
  BY <1>1, <1>3, <1>5, <1>6 DEF Level
<1>8. readings'.cpu = s.cpu /\ readings'.phy = s.phy
  BY <1>2
<1> QED
  BY <1>2, <1>7, <1>8 DEF CoolingMeetsDemand

(* A faulty cycle demands, and so writes, the full level.                  *)
LEMMA BlindStep ==
    ASSUME TypeOK, DrivesKnown, NEW d \in Spans, NEW s \in Sights, Cycle(now + d, s)
    PROVE  BlindMeansFull' /\ DrivesKnown'
<1> DEFINE t == now + d
<1>1. /\ Drives(t, s).count \in Nat /\ s.present \in Nat
      /\ NewState(t, s) \in Level /\ NewState(t, s) >= Target(t, s)
      /\ Target(t, s) \in Level
  BY CycleFacts
<1>2. /\ cur' = NewState(t, s) /\ drives' = Drives(t, s)
      /\ readings' = [cpu |-> s.cpu, phy |-> s.phy]
      /\ expected' = Expected(t, s)
      /\ known' = Larger(known, Larger(drives'.count, s.present))
  BY DEF Cycle, Decide
<1> HIDE DEF t
<1>3. known' = Expected(t, s)
  BY <1>2 DEF DrivesKnown, Expected
<1>4. Bad(t, s) => cur' = 3
  BY <1>1, <1>2 DEF Target, Level
<1>5. \/ readings'.cpu = 0 \/ readings'.phy = 0
      \/ drives'.unreadable \/ drives'.count < known'
      => Bad(t, s)
  BY <1>2, <1>3 DEF Bad
<1> QED
  BY <1>2, <1>3, <1>4, <1>5 DEF BlindMeansFull, DrivesKnown

(* The first reduction is more than Refresh after the worker's first       *)
(* cycle, so a scan has come before it.                                    *)
LEMMA ScanStep ==
    ASSUME TypeOK, alive, LevelWritten, ScannedBeforeSlowing,
           NEW d \in Spans, NEW s \in Sights, Cycle(now + d, s)
    PROVE  ScannedBeforeSlowing'
<1> DEFINE t == now + d
<1>1. t \in Nat /\ t > 0 /\ NewState(t, s) \in Level /\ Target(t, s) \in Level
  BY CycleFacts DEF TypeOK
<1>2. cur' = NewState(t, s) /\ drives' = Drives(t, s)
  BY DEF Cycle, Decide
<1> HIDE DEF t
<1>3. CASE t - drives.at >= Refresh
  BY <1>1, <1>2, <1>3 DEF Drives, ScannedBeforeSlowing
<1>4. CASE t - drives.at < Refresh /\ drives.at > 0
  BY <1>2, <1>4, ConstantsPositive, <1>1 DEF Drives, ScannedBeforeSlowing, TypeOK
<1>5. CASE t < Refresh /\ drives.at = 0
  <2>1. state = 3
    BY <1>5 DEF ScannedBeforeSlowing, LevelWritten, TypeOK, Level
  <2>2. ~Reduces(t, s)
    BY <1>1, <1>5, ConstantsPositive DEF Reduces, Running, TypeOK
  <2>3. NewState(t, s) = 3
    BY <2>1, <2>2, <1>1 DEF NewState, Lowering, Level
  <2> QED
    BY <2>3, <1>2 DEF ScannedBeforeSlowing
<1> QED
  BY <1>1, <1>3, <1>4, <1>5, ConstantsPositive DEF TypeOK

(* low_since keeps its meaning.                                            *)
LEMMA LowStep ==
    ASSUME TypeOK, LowTimer, NEW d \in Spans, NEW s \in Sights, Cycle(now + d, s)
    PROVE  LowTimer' /\ LevelWritten'
<1> DEFINE t == now + d
<1>1. /\ t \in Nat /\ t > now /\ now \in Nat
      /\ Target(t, s) \in Level /\ state \in Level
      /\ demandAt \in [Rung -> Nat] /\ since.low \in Nat
  BY CycleFacts DEF TypeOK
<1>2. /\ cur' = state' /\ last' = state' /\ state' = NewState(t, s) /\ now' = t
      /\ since' = Since(t, s)
      /\ demandAt' = [k \in Rung |-> IF Target(t, s) >= k THEN t ELSE demandAt[k]]
  BY DEF Cycle, Decide
<1> HIDE DEF t
<1>3. \A k \in Rung : demandAt'[k] <= now'
  BY <1>1, <1>2 DEF LowTimer, Rung
<1>4. since'.low = Running(since.low, Lowering(t, s) /\ ~Reduces(t, s), t)
  BY <1>2 DEF Since
<1>5. ASSUME since'.low # 0
      PROVE  state' >= 1 /\ since'.low <= now' /\ demandAt'[state'] <= since'.low
  <2>1. Lowering(t, s) /\ ~Reduces(t, s)
    BY <1>4, <1>5 DEF Running
  <2>2. state' = state /\ Target(t, s) < state
    BY <2>1, <1>2 DEF NewState, Lowering
  <2>3. state \in Rung
    BY <2>2, <1>1 DEF Level, Rung
  <2>4. demandAt'[state'] = demandAt[state]
    BY <2>2, <2>3, <1>1, <1>2 DEF Level, Rung
  <2>5. demandAt[state] <= now
    BY <2>3 DEF LowTimer
  <2>6. since'.low = IF since.low # 0 THEN since.low ELSE t
    BY <1>4, <2>1 DEF Running
  <2>7. demandAt[state] \in Nat
    BY <2>3, <1>1
  <2> QED
    BY <2>2, <2>3, <2>4, <2>5, <2>6, <2>7, <1>1, <1>2 DEF LowTimer, Rung
<1> QED
  BY <1>2, <1>3, <1>5 DEF LowTimer, LevelWritten

(* fault_since and hot_since keep theirs.                                  *)
LEMMA FaultStep ==
    ASSUME TypeOK, FaultTimer, NEW d \in Spans, NEW s \in Sights, Decide(now + d, s)
    PROVE  FaultTimer'
<1> DEFINE t == now + d
<1>1. /\ t \in Nat /\ t > now /\ now \in Nat /\ t <= now + MaxSpan
      /\ since.fault \in Nat /\ cleanAt \in Nat
  BY CycleFacts DEF TypeOK
<1>2. /\ now' = t /\ poweroff' = poweroff \cup Emergencies(t, s)
      /\ since' = Since(t, s)
      /\ cleanAt' = IF Bad(t, s) THEN cleanAt ELSE t
  BY DEF Decide
<1> HIDE DEF t
<1>3. since'.fault = Running(since.fault, Bad(t, s), t)
  BY <1>2 DEF Since
<1>4. CASE ~Bad(t, s)
  BY <1>1, <1>2, <1>3, <1>4 DEF Running, FaultTimer
<1>5. CASE Bad(t, s)
  <2>1. since'.fault = (IF since.fault # 0 THEN since.fault ELSE t) /\ cleanAt' = cleanAt
    BY <1>2, <1>3, <1>5 DEF Running
  <2>2. t - since'.fault >= FaultLimit => "fault" \in poweroff'
    BY <1>2, <1>5 DEF Emergencies
  <2>3. MaxSpan \in Nat /\ FaultLimit \in Nat
    BY ConstantsPositive
  <2> QED
    BY <1>1, <1>2, <2>1, <2>2, <2>3 DEF FaultTimer
<1> QED
  BY <1>4, <1>5

LEMMA HotStep ==
    ASSUME TypeOK, HotTimer, NEW d \in Spans, NEW s \in Sights, Decide(now + d, s)
    PROVE  HotTimer'
<1> DEFINE t == now + d
<1>1. /\ t \in Nat /\ t > now /\ now \in Nat /\ t <= now + MaxSpan
      /\ since.hot \in Nat /\ coolAt \in Nat
  BY CycleFacts DEF TypeOK
<1>2. /\ now' = t /\ poweroff' = poweroff \cup Emergencies(t, s)
      /\ since' = Since(t, s)
      /\ coolAt' = IF Hot(t, s) THEN coolAt ELSE t
  BY DEF Decide
<1> HIDE DEF t
<1>3. since'.hot = Running(since.hot, Hot(t, s), t)
  BY <1>2 DEF Since
<1>4. CASE ~Hot(t, s)
  BY <1>1, <1>2, <1>3, <1>4 DEF Running, HotTimer
<1>5. CASE Hot(t, s)
  <2>1. since'.hot = (IF since.hot # 0 THEN since.hot ELSE t) /\ coolAt' = coolAt
    BY <1>2, <1>3, <1>5 DEF Running
  <2>2. t - since'.hot >= HotLimit => "heat" \in poweroff'
    BY <1>2, <1>5 DEF Emergencies
  <2>3. MaxSpan \in Nat /\ HotLimit \in Nat
    BY ConstantsPositive
  <2> QED
    BY <1>1, <1>2, <2>1, <2>2, <2>3 DEF HotTimer
<1> QED
  BY <1>4, <1>5

LEMMA WorkerInvariant == Spec => []WorkerInv
<1>1. Init => WorkerInv
  BY DEF Init, WorkerInv
<1>2. TypeOK /\ WorkerInv /\ [Next]_vars => WorkerInv'
  <2> SUFFICES ASSUME TypeOK, WorkerInv, [Next]_vars PROVE WorkerInv'
    OBVIOUS
  <2>1. CASE Start
    <3>1. /\ cur' = 3 /\ state' = 3 /\ last' = 3 /\ now' = now
          /\ readings' = [cpu |-> 0, phy |-> 0]
          /\ drives' = [count |-> 0, hottest |-> 0, unreadable |-> FALSE, at |-> 0]
          /\ since' = [low |-> 0, fault |-> 0, hot |-> 0]
          /\ demandAt' = [k \in Rung |-> now]
          /\ cleanAt' = now /\ coolAt' = now /\ expected' = 0 /\ known' = 0
      BY <2>1 DEF Start
    <3>2. LevelWritten' /\ FaultTimer' /\ HotTimer' /\ DrivesKnown'
      BY <3>1 DEF LevelWritten, FaultTimer, HotTimer, DrivesKnown
    <3>3. LowTimer'
      BY <3>1 DEF LowTimer, TypeOK
    <3>4. CoolingMeetsDemand'
      BY <3>1, CurveIsLevel DEF CoolingMeetsDemand, BaseLevel, Level
    <3>5. BlindMeansFull' /\ ScannedBeforeSlowing'
      BY <3>1 DEF BlindMeansFull, ScannedBeforeSlowing
    <3> QED
      BY <3>2, <3>3, <3>4, <3>5 DEF WorkerInv
  <2>2. ASSUME NEW d \in Spans, NEW s \in Sights, Cycle(now + d, s)
        PROVE  WorkerInv'
    <3>1. alive /\ Decide(now + d, s)
      BY <2>2 DEF Cycle, Decide
    <3> QED
      BY <2>2, <3>1, DemandStep, BlindStep, ScanStep, LowStep, FaultStep, HotStep
      DEF WorkerInv
  <2>3. ASSUME ~alive'
        PROVE  WorkerInv'
    BY <2>3 DEF WorkerInv
  <2>4. CASE UNCHANGED vars
    BY <2>4
    DEF vars, locals, history, WorkerInv, LevelWritten, LowTimer, FaultTimer, HotTimer,
        DrivesKnown, CoolingMeetsDemand, BlindMeansFull, ScannedBeforeSlowing
  <2> QED
    BY <2>1, <2>2, <2>3, <2>4 DEF Next, Fail, Terminate, Kill
<1> QED
  BY <1>1, <1>2, WorkerTyped, PTL DEF Spec

(* The fan is never slower than a reading's bare thresholds ask for.       *)
THEOREM WorkerCools == Spec => []CoolingMeetsDemand
<1>1. WorkerInv => CoolingMeetsDemand
  BY DEF WorkerInv, CoolingMeetsDemand
<1> QED
  BY <1>1, WorkerInvariant, PTL

(* Whatever the worker cannot see, it cools at the full level.             *)
THEOREM WorkerCoolsBlind == Spec => []BlindMeansFull
<1>1. WorkerInv => BlindMeansFull
  BY DEF WorkerInv, BlindMeansFull
<1> QED
  BY <1>1, WorkerInvariant, PTL

(* No reduction comes before the first scan of the drives.                 *)
THEOREM WorkerScansFirst == Spec => []ScannedBeforeSlowing
<1>1. WorkerInv => ScannedBeforeSlowing
  BY DEF WorkerInv, ScannedBeforeSlowing
<1> QED
  BY <1>1, WorkerInvariant, PTL

(* A lasting fault or a lasting excess powers the machine off in time.     *)
THEOREM WorkerShutsDown == Spec => []PromptShutdown
<1>1. TypeOK /\ WorkerInv => PromptShutdown
  BY ConstantsPositive
  DEF WorkerInv, FaultTimer, HotTimer, PromptShutdown, TypeOK
<1> QED
  BY <1>1, WorkerTyped, WorkerInvariant, PTL

(* Every reduction had its cool minute.                                    *)
THEOREM WorkerHolds == Spec => ReductionHeld
<1>1. TypeOK /\ WorkerInv /\ [Next]_vars
        => [alive /\ alive' /\ cur' < cur => now' - demandAt[cur] >= Hold]_vars
  <2> SUFFICES ASSUME TypeOK, WorkerInv, Next, alive, alive', cur' < cur
               PROVE  now' - demandAt[cur] >= Hold
    BY DEF vars
  <2>1. PICK d \in Spans, s \in Sights : Cycle(now + d, s)
    BY DEF Next, Start, Fail, Terminate, Kill
  <2> DEFINE t == now + d
  <2>2. /\ now' = t /\ cur' = NewState(t, s)
    BY <2>1 DEF Cycle, Decide
  <2>3. /\ t \in Nat /\ t > now /\ Target(t, s) \in Level /\ NewState(t, s) \in Level
        /\ NewState(t, s) >= Target(t, s)
    BY CycleFacts
  <2> HIDE DEF t
  <2>4. cur = state /\ LowTimer
    BY DEF WorkerInv, LevelWritten
  <2>5. Reduces(t, s)
    BY <2>2, <2>3, <2>4 DEF NewState, Lowering, Level, TypeOK
  <2>6. cur \in Rung
    BY <2>2, <2>3 DEF TypeOK, Level, Rung
  <2>7. demandAt[cur] \in Nat /\ demandAt[cur] <= now /\ since.low \in Nat
        /\ (since.low # 0 => demandAt[cur] <= since.low)
    BY <2>4, <2>6 DEF TypeOK, LowTimer
  <2>8. t - (IF since.low # 0 THEN since.low ELSE t) >= Hold
    BY <2>5 DEF Reduces, Running
  <2> QED
    BY <2>2, <2>3, <2>7, <2>8, ConstantsPositive
<1> QED
  BY <1>1, WorkerTyped, WorkerInvariant, PTL DEF Spec, ReductionHeld

(* The machine is never powered off for a fault or an excess that a clean  *)
(* or a cool cycle interrupted.                                            *)
THEOREM WorkerShutdownJustified == Spec => ShutdownJustified
<1> DEFINE Just == /\ "fault" \in poweroff' \ poweroff => now' - cleanAt' >= FaultLimit
                   /\ "heat" \in poweroff' \ poweroff =>
                        \/ readings'.cpu >= CpuHardLimit
                        \/ now' - coolAt' >= HotLimit
<1>1. TypeOK /\ WorkerInv /\ [Next]_vars => [Just]_vars
  <2> SUFFICES ASSUME TypeOK, WorkerInv, Next, poweroff' # poweroff PROVE Just
    BY DEF vars
  <2>1. PICK d \in Spans, s \in Sights : Decide(now + d, s)
    BY DEF Next, Start, Cycle, Fail, Terminate, Kill
  <2> DEFINE t == now + d
  <2>2. /\ now' = t /\ poweroff' = poweroff \cup Emergencies(t, s)
        /\ since' = Since(t, s)
        /\ cleanAt' = (IF Bad(t, s) THEN cleanAt ELSE t)
        /\ coolAt' = (IF Hot(t, s) THEN coolAt ELSE t)
        /\ readings' = [cpu |-> s.cpu, phy |-> s.phy] /\ alive
    BY <2>1 DEF Decide
  <2>3. t \in Nat
    BY CycleFacts
  <2> HIDE DEF t
  <2>4. ASSUME "fault" \in poweroff' \ poweroff PROVE now' - cleanAt' >= FaultLimit
    <3>1. Bad(t, s) /\ t - since'.fault >= FaultLimit
      BY <2>2, <2>4 DEF Emergencies
    <3>2. since.fault # 0 => cleanAt <= since.fault
      BY <2>2 DEF WorkerInv, FaultTimer
    <3>3. since'.fault = IF since.fault # 0 THEN since.fault ELSE t
      BY <2>2, <3>1 DEF Since, Running
    <3>4. FaultLimit > 0 /\ FaultLimit \in Nat /\ since.fault \in Nat /\ cleanAt \in Nat
      BY ConstantsPositive DEF TypeOK
    <3> QED
      BY <2>2, <2>3, <3>1, <3>2, <3>3, <3>4
  <2>5. ASSUME "heat" \in poweroff' \ poweroff, ~(readings'.cpu >= CpuHardLimit)
        PROVE  now' - coolAt' >= HotLimit
    <3>1. Hot(t, s) /\ t - since'.hot >= HotLimit
      BY <2>2, <2>5 DEF Emergencies
    <3>2. since.hot # 0 => coolAt <= since.hot
      BY <2>2 DEF WorkerInv, HotTimer
    <3>3. since'.hot = IF since.hot # 0 THEN since.hot ELSE t
      BY <2>2, <3>1 DEF Since, Running
    <3>4. HotLimit > 0 /\ HotLimit \in Nat /\ since.hot \in Nat /\ coolAt \in Nat
      BY ConstantsPositive DEF TypeOK
    <3> QED
      BY <2>2, <2>3, <3>1, <3>2, <3>3, <3>4
  <2> QED
    BY <2>4, <2>5
<1> QED
  BY <1>1, WorkerTyped, WorkerInvariant, PTL DEF Spec, ShutdownJustified
=============================================================================
