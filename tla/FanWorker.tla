----------------------------- MODULE FanWorker ------------------------------
(***************************************************************************)
(* The worker of the fan service: worker() in ls420d-fan, one action per   *)
(* pass of its loop, and the ways the process begins and ends.  Its        *)
(* locals are variables, under the script's names; time is the integer     *)
(* uptime fan_now returns.  Reading 0 stands for a CPU or PHY sensor that  *)
(* is absent, unreadable or implausible, as it does in the script.         *)
(***************************************************************************)
EXTENDS FanCurve

CONSTANTS
    CpuReadings, PhyReadings,  \* what those sensors can report, 0: nothing
    DriveTemps,                \* what an awake, readable drive can report
    MaxDrives,                 \* drivetemp sensors and ATA disks, at most
    MonitorStates,             \* of the gpio_fan hwmon device, see below
    CpuCurve, PhyCurve, DriveCurve,
    CpuLimit, CpuHardLimit, DriveLimit, PhyLimit,
    Hold,        \* cool seconds before a reduction            (60)
    FaultLimit,  \* seconds of faults before the shutdown      (120)
    HotLimit,    \* seconds above a limit before the shutdown  (10)
    Refresh,     \* age at which the drives are read again     (20)
    AlarmLimit,  \* alarmed cycles in a row that are a fault   (3)
    Spans,       \* seconds from one cycle's start to the next (5 and more)
    MaxSpan,     \* the longest of them
    MaxNow       \* bound: the horizon of a run

ASSUME WorkerAssumption ==
    /\ CpuReadings \subseteq Nat /\ PhyReadings \subseteq Nat
    /\ DriveTemps \subseteq Nat \ {0}
    /\ MaxDrives \in Nat
    /\ MonitorStates \subseteq {"absent", "alarm", "quiet"}
    /\ {CpuCurve, PhyCurve, DriveCurve} \subseteq Curves
    /\ {CpuLimit, CpuHardLimit, DriveLimit, PhyLimit} \subseteq Nat \ {0}
    /\ CpuLimit <= CpuHardLimit
    /\ {Hold, FaultLimit, HotLimit, Refresh, AlarmLimit, MaxSpan} \subseteq Nat \ {0}
    /\ Hold >= Refresh
    /\ Spans \subseteq 1..MaxSpan
    /\ MaxNow \in Nat

VARIABLES
    now,       \* uptime at the start of the latest cycle
    alive,     \* the process runs its loop
    cur,       \* cur_state of the cooling device
    readings,  \* the latest cycle's cpu and phy
    levels,    \* cpu_state, phy_state, disk_state
    drives,    \* disks_cached, disk_cached, disk_bad and disk_time
    expected,  \* drives this worker has learned to expect
    alarmBad,  \* alarmed cycles in a row, counted up to AlarmLimit
    state,     \* the level the worker has decided on
    last,      \* the level it last wrote
    since,     \* low_since, fault_since and hot_since, 0 when not running
    poweroff,  \* the reasons fan_emergency was called for
    \* history, read by no action:
    demandAt,  \* when each level was last demanded
    cleanAt,   \* when a cycle last found no fault
    coolAt,    \* when a cycle last found no limit exceeded
    known      \* the most drives this worker has seen

locals == <<readings, levels, drives, expected, alarmBad, state, last, since>>
history == <<demandAt, cleanAt, coolAt, known>>
vars == <<now, alive, cur, locals, poweroff, history>>

Reasons == {"fault", "heat"}

(* What one pass over the drivetemp sensors and hdparm can find: how many  *)
(* there are, the hottest that is awake and readable (0: none), and        *)
(* whether one that is awake could not be read.                            *)
DriveScans ==
    {s \in [count : 0..MaxDrives, hottest : DriveTemps \cup {0}, unreadable : BOOLEAN] :
        /\ s.hottest > 0 => s.count >= 1
        /\ s.unreadable => s.count >= 1
        /\ s.hottest > 0 /\ s.unreadable => s.count >= 2}

(* One cycle's look at the hardware.                                       *)
Sights ==
    [cpu : CpuReadings, phy : PhyReadings, monitor : MonitorStates,
     present : 0..MaxDrives, scan : DriveScans]
-----------------------------------------------------------------------------
(* The look s of a cycle that starts at time t, step by step.              *)

(* Lines 23-47: the drive scan counts only when the cached one is stale.   *)
Drives(t, s) ==
    IF t - drives.at >= Refresh
    THEN [count |-> s.scan.count, hottest |-> s.scan.hottest,
          unreadable |-> s.scan.unreadable, at |-> t]
    ELSE drives

(* Faulty form: what is attached now is all that is expected.              *)
ExpectedForgets(t, s) == Larger(Drives(t, s).count, s.present)

Expected(t, s) == Larger(expected, Larger(Drives(t, s).count, s.present))

(* A fan that was stopped on purpose raises its alarm too.                 *)
AlarmBad(s) ==
    IF last = 0 \/ s.monitor = "quiet" THEN 0
    ELSE IF alarmBad < AlarmLimit THEN alarmBad + 1 ELSE AlarmLimit

Bad(t, s) ==
    \/ s.cpu = 0 \/ s.phy = 0 \/ s.monitor = "absent"
    \/ Drives(t, s).count < Expected(t, s)
    \/ Drives(t, s).unreadable
    \/ AlarmBad(s) >= AlarmLimit

Hot(t, s) ==
    s.cpu >= CpuLimit \/ Drives(t, s).hottest >= DriveLimit \/ s.phy >= PhyLimit

Levels(t, s) ==
    [cpu   |-> Curve(s.cpu, levels.cpu, CpuCurve),
     phy   |-> Curve(s.phy, levels.phy, PhyCurve),
     drive |-> Curve(Drives(t, s).hottest, levels.drive, DriveCurve)]

(* Faulty form: the drives are left out.                                   *)
TargetWithoutDrives(t, s) ==
    IF Bad(t, s) \/ Hot(t, s) THEN 3
    ELSE Larger(Levels(t, s).cpu, Levels(t, s).phy)

Target(t, s) ==
    IF Bad(t, s) \/ Hot(t, s) THEN 3
    ELSE LET l == Levels(t, s) IN Larger(l.cpu, Larger(l.phy, l.drive))

(* Faulty form: the timer starts anew in every cycle.                      *)
RunningRestarts(started, holds, t) == IF holds THEN t ELSE 0

(* A since-variable is set by the first cycle its condition holds in and   *)
(* zeroed by the first it does not hold in.                                *)
Running(started, holds, t) ==
    IF ~holds THEN 0 ELSE IF started # 0 THEN started ELSE t

Lowering(t, s) == Target(t, s) < state
ReducesAtOnce(t, s) == Lowering(t, s)   \* faulty form: no hold
Reduces(t, s)  == Lowering(t, s) /\ t - Running(since.low, TRUE, t) >= Hold

(* Faulty forms: one timer is never stopped.                              *)
SinceKeepsLow(t, s) ==
    [low   |-> IF Reduces(t, s) THEN 0
               ELSE Running(since.low, Lowering(t, s) \/ since.low # 0, t),
     fault |-> Running(since.fault, Bad(t, s), t),
     hot   |-> Running(since.hot, Hot(t, s), t)]
SinceKeepsHot(t, s) ==
    [low   |-> Running(since.low, Lowering(t, s) /\ ~Reduces(t, s), t),
     fault |-> Running(since.fault, Bad(t, s), t),
     hot   |-> Running(since.hot, Hot(t, s) \/ since.hot # 0, t)]

Since(t, s) ==
    [low   |-> Running(since.low, Lowering(t, s) /\ ~Reduces(t, s), t),
     fault |-> Running(since.fault, Bad(t, s), t),
     hot   |-> Running(since.hot, Hot(t, s), t)]

NewState(t, s) ==
    IF Lowering(t, s) /\ ~Reduces(t, s) THEN state ELSE Target(t, s)

Emergencies(t, s) ==
    (IF Bad(t, s) /\ t - Since(t, s).fault >= FaultLimit THEN {"fault"} ELSE {})
    \cup
    (IF Hot(t, s) /\ (s.cpu >= CpuHardLimit \/ t - Since(t, s).hot >= HotLimit)
     THEN {"heat"} ELSE {})

-----------------------------------------------------------------------------
Init ==
    /\ now \in Spans
    /\ alive = FALSE
    /\ cur \in Level
    /\ readings = [cpu |-> 0, phy |-> 0]
    /\ levels = [cpu |-> 0, phy |-> 0, drive |-> 0]
    /\ drives = [count |-> 0, hottest |-> 0, unreadable |-> FALSE, at |-> 0]
    /\ expected = 0 /\ alarmBad = 0
    /\ state = 3 /\ last = 3
    /\ since = [low |-> 0, fault |-> 0, hot |-> 0]
    /\ poweroff = {}
    /\ demandAt = [k \in Rung |-> now]
    /\ cleanAt = now /\ coolAt = now /\ known = 0

(* A worker begins: fan_find, fan_full, and fresh locals.                  *)
Start ==
    /\ ~alive
    /\ alive' = TRUE
    /\ cur' = 3
    /\ readings' = [cpu |-> 0, phy |-> 0]
    /\ levels' = [cpu |-> 0, phy |-> 0, drive |-> 0]
    /\ drives' = [count |-> 0, hottest |-> 0, unreadable |-> FALSE, at |-> 0]
    /\ expected' = 0 /\ alarmBad' = 0
    /\ state' = 3 /\ last' = 3
    /\ since' = [low |-> 0, fault |-> 0, hot |-> 0]
    /\ demandAt' = [k \in Rung |-> now]
    /\ cleanAt' = now /\ coolAt' = now /\ known' = 0
    /\ UNCHANGED <<now, poweroff>>

(* What every pass does before it touches the cooling device.              *)
Decide(t, s) ==
    /\ alive
    /\ t <= MaxNow
    /\ now' = t
    /\ readings' = [cpu |-> s.cpu, phy |-> s.phy]
    /\ drives' = Drives(t, s)
    /\ expected' = Expected(t, s)
    /\ levels' = Levels(t, s)
    /\ alarmBad' = AlarmBad(s)
    /\ since' = Since(t, s)
    /\ state' = NewState(t, s)
    /\ poweroff' = poweroff \cup Emergencies(t, s)
    /\ demandAt' = [k \in Rung |-> IF Target(t, s) >= k THEN t ELSE demandAt[k]]
    /\ cleanAt' = IF Bad(t, s) THEN cleanAt ELSE t
    /\ coolAt' = IF Hot(t, s) THEN coolAt ELSE t
    /\ known' = Larger(known, Larger(drives'.count, s.present))

(* A pass that completes: the level is written and reads back, and the     *)
(* heartbeat follows.  The starting pulse is over by then.                 *)
Cycle(t, s) ==
    /\ Decide(t, s)
    /\ cur' = state'
    /\ last' = state'
    /\ UNCHANGED alive

(* A pass that returns 1: a zone that cannot be owned, a write that fails  *)
(* or a level that does not read back.  The device may then show anything. *)
(* A pass cut short by a signal is one of these too.                       *)
Fail(t, s) ==
    /\ Decide(t, s)
    /\ alive' = FALSE
    /\ cur' \in Level
    /\ UNCHANGED last

(* INT or TERM: the trap leaves the fan at full.                           *)
Terminate ==
    /\ alive
    /\ alive' = FALSE
    /\ cur' = 3
    /\ UNCHANGED <<now, locals, poweroff, history>>

(* KILL while the worker sleeps: no trap runs.                             *)
Kill ==
    /\ alive
    /\ alive' = FALSE
    /\ UNCHANGED <<now, cur, locals, poweroff, history>>

Next ==
    \/ Start
    \/ \E d \in Spans, s \in Sights : Cycle(now + d, s)
    \/ \E d \in Spans, s \in Sights : Fail(now + d, s)
    \/ Terminate
    \/ Kill

Spec == Init /\ [][Next]_vars

-----------------------------------------------------------------------------
TypeOK ==
    /\ now \in Nat
    /\ alive \in BOOLEAN
    /\ cur \in Level /\ state \in Level /\ last \in Level
    /\ readings \in [cpu : Nat, phy : Nat]
    /\ levels \in [cpu : Level, phy : Level, drive : Level]
    /\ drives \in [count : Nat, hottest : Nat, unreadable : BOOLEAN, at : Nat]
    /\ expected \in Nat /\ known \in Nat
    /\ alarmBad \in 0..AlarmLimit
    /\ since \in [low : Nat, fault : Nat, hot : Nat]
    /\ poweroff \subseteq Reasons
    /\ demandAt \in [Rung -> Nat]
    /\ cleanAt \in Nat /\ coolAt \in Nat

(* The fan never runs slower than the hottest reading asks for, whatever   *)
(* the hysteresis, the hold and the drive cache do.                        *)
CoolingMeetsDemand ==
    alive =>
        /\ cur >= BaseLevel(readings.cpu, CpuCurve)
        /\ cur >= BaseLevel(readings.phy, PhyCurve)
        /\ cur >= BaseLevel(drives.hottest, DriveCurve)

(* What the worker cannot see it cools at full: a sensor without a         *)
(* reading, a drive that could not be read at the latest scan, or fewer    *)
(* drives than it has ever seen ("NOT silently treated as a cool disk").   *)
BlindMeansFull ==
    alive /\ ( \/ readings.cpu = 0 \/ readings.phy = 0
               \/ drives.unreadable \/ drives.count < known )
        => cur = 3

(* The drives are scanned before the fan is ever slowed down, although     *)
(* the scan is skipped while the uptime is below Refresh.                  *)
ScannedBeforeSlowing == alive /\ cur < 3 => drives.at > 0

(* A fault, or a reading above a limit, that no cycle saw interrupted for  *)
(* its time limit and one more cycle has powered the machine off.          *)
PromptShutdown ==
    /\ alive /\ now - cleanAt >= FaultLimit + MaxSpan => "fault" \in poweroff
    /\ alive /\ now - coolAt >= HotLimit + MaxSpan => "heat" \in poweroff

(* The fan is slowed down only after Hold seconds in which no cycle        *)
(* demanded the level it leaves.                                           *)
ReductionHeld ==
    [][alive /\ alive' /\ cur' < cur => now' - demandAt[cur] >= Hold]_vars

(* The machine is powered off only for a fault that lasted, a reading that *)
(* stayed above its limit, or a CPU above the hard limit: a clean or a     *)
(* cool cycle in between starts the count again.                           *)
ShutdownJustified ==
    [][/\ "fault" \in poweroff' \ poweroff => now' - cleanAt' >= FaultLimit
       /\ "heat" \in poweroff' \ poweroff =>
            \/ readings'.cpu >= CpuHardLimit
            \/ now' - coolAt' >= HotLimit]_vars
=============================================================================
