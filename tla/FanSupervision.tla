--------------------------- MODULE FanSupervision ---------------------------
(***************************************************************************)
(* The processes of the fan service and how they come and go: procd, the   *)
(* supervisor (supervise() in ls420d-fan), the workers it forks, and what  *)
(* they share: the level of the fan, the heartbeat file and worker.pid.    *)
(*                                                                         *)
(* A worker here may write any level: what it writes is FanWorker's        *)
(* business.  The script compares uptimes; here every uptime it stores is  *)
(* kept as its age in seconds, which Tick advances, up to the first age    *)
(* that all comparisons treat alike.  Steps other than Tick take no time:  *)
(* supervisor and healthy workers run when they are due, a stuck worker    *)
(* (a disk read that does not return) whenever it likes.  The uptime may   *)
(* also turn over between the supervisor's two reads of line 150.          *)
(***************************************************************************)
EXTENDS Integers, FiniteSets

CONSTANTS
    Workers,       \* process identifiers of workers
    NoWorker,
    Poll,          \* seconds the supervisor sleeps                 (2)
    Stall,         \* age above which a heartbeat is a stall        (12)
    Nap,           \* seconds a worker sleeps between cycles        (5)
    MaxWork,       \* bound: seconds a worker that is not stuck takes to begin,
                   \* and for a cycle
    RestartDelay,  \* seconds before procd respawns the supervisor  (2)
    FaultLimit,    \* seconds without progress before the shutdown  (120)
    Levels,        \* the levels of the fan that workers write  (0 to 3)
    MaxShocks      \* bound: kills, deaths, stalls and stops of a run

ASSUME SupervisionAssumption ==
    /\ NoWorker \notin Workers
    /\ {Poll, Stall, Nap, MaxWork, RestartDelay, FaultLimit} \subseteq Nat \ {0}
    /\ Poll + 1 < Nap /\ Nap <= Stall
    /\ 3 \in Levels /\ Levels \subseteq 0..3
    /\ MaxShocks \in Nat

VARIABLES
    enabled,   \* procd keeps the service running
    sup,       \* the supervisor: where it is, its sleep, its shell variables
    worker,    \* the worker processes
    files,     \* worker.pid and heartbeat
    level,     \* cur_state of the cooling device
    device,    \* whether the cooling device can be found and written
    poweroff,  \* fan_emergency was called
    shocks,    \* how many of the MaxShocks have happened
    \* history, read by no action:
    unrecorded,  \* workers whose supervisor ended before it wrote worker.pid
    troubled,    \* the current child was stuck, slow or not alone, at some time
    lowAge,      \* how long the fan has been below full with no worker alive
    quietAge,    \* until the shutdown: how long since a worker completed a cycle,
                 \* or the supervisor began
    progressAge  \* the same for a child, alone with its heartbeat file, that got
                 \* beyond its first full cycle

history == <<unrecorded, troubled, lowAge, quietAge, progressAge>>
vars == <<enabled, sup, worker, files, level, device, poweroff, shocks, history>>

(* A fault_start of 0 is an age of Unset.                                  *)
Unset == -1

NoSupervisor == [at |-> "down", wait |-> 0, term |-> FALSE, forked |-> NoWorker,
                 child |-> NoWorker, started |-> 0, fault |-> Unset]
Dead == [at |-> "dead", age |-> 0, left |-> 0, term |-> FALSE, beat |-> FALSE]
Alive == {w \in Workers : worker[w].at # "dead"}

(* Ages of no interest beyond these are not counted further.               *)
AgeCap == Stall + 2
Attempt == Stall + 2 * Poll + 2   \* one worker, from its start to the next one's
LongAge == FaultLimit + 2 * Attempt
Look == Poll + 1                  \* one look of the supervisor, to the next one's
LongestWait == IF Look <= RestartDelay THEN RestartDelay ELSE Look
LowCap == Look + LongestWait * MaxShocks + 1

Older(age, cap) == IF age \in {Unset, cap} THEN age ELSE age + 1
Less(n) == IF n > 0 THEN n - 1 ELSE 0

(* fan_full, whose result most callers ignore.                             *)
Full == level' = IF device = "good" THEN 3 ELSE level

Shock == shocks < MaxShocks /\ shocks' = shocks + 1

-----------------------------------------------------------------------------
Init ==
    /\ enabled = FALSE
    /\ sup = NoSupervisor
    /\ worker = [w \in Workers |-> Dead]
    /\ files = [pid |-> NoWorker, beat |-> 0]
    /\ level \in Levels /\ device = "good" /\ poweroff = FALSE /\ shocks = 0
    /\ unrecorded = {} /\ troubled = FALSE
    /\ lowAge = 0 /\ quietAge = 0 /\ progressAge = 0

-----------------------------------------------------------------------------
(* procd and the init script.                                              *)

(* start_service: full cooling first, and no instance if that fails.       *)
StartService ==
    /\ ~enabled /\ sup.at = "down"
    /\ Full
    /\ enabled' = (device = "good")
    /\ sup' = [sup EXCEPT !.wait = 0]
    /\ UNCHANGED <<worker, files, device, poweroff, shocks, history>>

(* stop_service: full cooling, then procd TERMs the instance.              *)
StopService ==
    /\ enabled /\ Shock
    /\ Full
    /\ enabled' = FALSE
    /\ sup' = IF sup.at = "down" THEN sup ELSE [sup EXCEPT !.term = TRUE]
    /\ UNCHANGED <<worker, files, device, poweroff, history>>

Respawn ==
    /\ enabled /\ sup.at = "down" /\ sup.wait = 0
    /\ sup' = [sup EXCEPT !.at = "begin"]
    /\ quietAge' = 0 /\ progressAge' = 0
    /\ UNCHANGED <<enabled, worker, files, level, device, poweroff, shocks,
                   unrecorded, troubled, lowAge>>

-----------------------------------------------------------------------------
(* The supervisor.  No command begins while a signal is pending.           *)

At(place) == sup.at = place /\ ~sup.term
Go(place) == sup' = [sup EXCEPT !.at = place]

(* The process is gone, and with it its variables and so any memory of a   *)
(* worker whose pid it had not written yet.                                *)
Exit ==
    /\ sup' = [NoSupervisor EXCEPT !.wait = RestartDelay]
    /\ unrecorded' = unrecorded \cup ({sup.forked} \ {files.pid, NoWorker})

(* Lines 129 and 141: full cooling, or no supervisor at all.               *)
FirstFull(from, to) ==
    /\ At(from)
    /\ Full
    /\ IF device = "good" THEN Go(to) /\ UNCHANGED unrecorded ELSE Exit
    /\ UNCHANGED <<enabled, worker, files, device, poweroff, shocks,
                   troubled, lowAge, quietAge, progressAge>>

(* Faulty form: an orphan of an earlier supervisor is left alone.          *)
RetireNobody ==
    /\ At("retire") /\ Go("full")
    /\ UNCHANGED <<enabled, worker, files, level, device, poweroff, shocks, history>>

(* Lines 131-140: the worker of worker.pid, if it is still one, is killed. *)
Retire ==
    /\ At("retire") /\ Go("full")
    /\ worker' = [w \in Workers |-> IF w = files.pid THEN Dead ELSE worker[w]]
    /\ UNCHANGED <<enabled, files, level, device, poweroff, shocks, history>>

(* Faulty form: the heartbeat of the worker before is left in the file.    *)
BeginRoundOldBeat ==
    /\ At("start")
    /\ sup' = [sup EXCEPT !.at = "fork", !.started = 0]
    /\ troubled' = (Alive # {})
    /\ UNCHANGED <<enabled, worker, files, level, device, poweroff, shocks,
                   unrecorded, lowAge, quietAge, progressAge>>

(* Lines 144-145.                                                          *)
BeginRound ==
    /\ At("start")
    /\ sup' = [sup EXCEPT !.at = "fork", !.started = 0]
    /\ files' = [files EXCEPT !.beat = 0]
    /\ troubled' = (Alive # {})
    /\ UNCHANGED <<enabled, worker, level, device, poweroff, shocks,
                   unrecorded, lowAge, quietAge, progressAge>>

(* Line 146, up to the ampersand.                                          *)
Fork(w) ==
    /\ At("fork") /\ w \notin Alive
    /\ sup' = [sup EXCEPT !.at = "record", !.forked = w]
    /\ worker' = [worker EXCEPT ![w] = [Dead EXCEPT !.at = "born"]]
    /\ unrecorded' = unrecorded \ {w}
    /\ UNCHANGED <<enabled, files, level, device, poweroff, shocks,
                   troubled, lowAge, quietAge, progressAge>>

(* The rest of line 146, and line 147.                                     *)
Record ==
    /\ At("record")
    /\ sup' = [sup EXCEPT !.at = "watch", !.child = sup.forked]
    /\ files' = [files EXCEPT !.pid = sup.forked]
    /\ UNCHANGED <<enabled, worker, level, device, poweroff, shocks, history>>

(* Faulty form: the child is assumed to live.                              *)
WatchBlindly ==
    /\ At("watch")
    /\ sup' = [sup EXCEPT !.at = "nap", !.wait = Poll]
    /\ UNCHANGED <<enabled, worker, files, level, device, poweroff, shocks, history>>

(* Line 148: the loop goes on while the child lives.                       *)
Watch ==
    /\ At("watch")
    /\ sup' = IF sup.child \in Alive
              THEN [sup EXCEPT !.at = "nap", !.wait = Poll]
              ELSE [sup EXCEPT !.at = "giveup"]
    /\ UNCHANGED <<enabled, worker, files, level, device, poweroff, shocks, history>>

(* Line 150: first the time is read, then the heartbeat; "late" once the   *)
(* second that was read is over.                                           *)
ReadNow ==
    /\ At("nap") /\ sup.wait = 0 /\ Go("compare")
    /\ UNCHANGED <<enabled, worker, files, level, device, poweroff, shocks, history>>

Comparing == At("compare") \/ At("late")
Lag == IF sup.at = "late" THEN 1 ELSE 0

(* Line 152: the heartbeat is older than Stall, or newer than now.         *)
Ahead == files.beat < Lag
Stalled == files.beat - Lag > Stall \/ Ahead

(* Faulty forms: a stall goes unnoticed; a fault is never forgotten.       *)
CheckNoStall ==
    /\ Comparing
    /\ sup' = [sup EXCEPT !.at = "watch",
                          !.fault = IF files.beat < sup.started THEN Unset ELSE @]
    /\ UNCHANGED <<enabled, worker, files, level, device, poweroff, shocks, history>>
CheckKeepsFault ==
    /\ Comparing
    /\ IF Stalled THEN Go("kill") /\ Full ELSE Go("watch") /\ UNCHANGED level
    /\ UNCHANGED <<enabled, worker, files, device, poweroff, shocks, history>>

(* Lines 150-153 and 158: a stall, or a cycle that has ended since started.*)
Check ==
    /\ Comparing
    /\ IF Stalled
       THEN Go("kill") /\ Full
       ELSE /\ sup' = [sup EXCEPT !.at = "watch",
                                  !.fault = IF files.beat < sup.started THEN Unset ELSE @]
            /\ UNCHANGED level
    /\ UNCHANGED <<enabled, worker, files, device, poweroff, shocks, history>>

(* Lines 155-156.                                                          *)
KillStalled ==
    /\ At("kill") /\ Go("giveup")
    /\ worker' = [worker EXCEPT ![sup.child] = Dead]
    /\ UNCHANGED <<enabled, files, level, device, poweroff, shocks, history>>

(* Faulty forms: the level is left as the worker wrote it; every round     *)
(* starts the count of the fault again.                                    *)
GiveUpNotFull ==
    /\ At("giveup")
    /\ sup' = [sup EXCEPT !.at = "rest", !.wait = Poll,
                          !.fault = IF @ = Unset THEN 0 ELSE @]
    /\ poweroff' = (poweroff \/ sup.fault >= FaultLimit)
    /\ UNCHANGED <<enabled, worker, files, level, device, shocks, history>>
GiveUpRestarts ==
    /\ At("giveup")
    /\ Full
    /\ sup' = [sup EXCEPT !.at = "rest", !.wait = Poll, !.fault = 0]
    /\ UNCHANGED <<enabled, worker, files, device, poweroff, shocks, history>>

(* Lines 160-164.                                                          *)
GiveUp ==
    /\ At("giveup")
    /\ Full
    /\ sup' = [sup EXCEPT !.at = "rest", !.wait = Poll,
                          !.fault = IF @ = Unset THEN 0 ELSE @]
    /\ poweroff' = (poweroff \/ sup.fault >= FaultLimit)
    /\ UNCHANGED <<enabled, worker, files, device, shocks, history>>

NextRound ==
    /\ At("rest") /\ sup.wait = 0 /\ Go("start")
    /\ UNCHANGED <<enabled, worker, files, level, device, poweroff, shocks, history>>

(* Line 142: the trap, which a sleep delays, and which is not set yet in   *)
(* the first steps.                                                        *)
Trapped == {"start", "fork", "record", "watch", "nap", "compare", "late", "kill",
            "giveup", "rest"}

TrapFull ==
    /\ sup.term /\ sup.at \in Trapped
    /\ sup.at \in {"nap", "rest"} => sup.wait = 0
    /\ Full
    /\ sup' = [sup EXCEPT !.at = "quit"]
    /\ UNCHANGED <<enabled, worker, files, device, poweroff, shocks, history>>

TrapExit ==
    /\ sup.at = "quit"
    /\ Exit
    /\ worker' = IF sup.child \in Alive
                 THEN [worker EXCEPT ![sup.child].term = TRUE] ELSE worker
    /\ UNCHANGED <<enabled, files, level, device, poweroff, shocks,
                   troubled, lowAge, quietAge, progressAge>>

TermUntrapped ==
    /\ sup.term /\ sup.at \in {"begin", "retire", "full"}
    /\ Exit
    /\ UNCHANGED <<enabled, worker, files, level, device, poweroff, shocks,
                   troubled, lowAge, quietAge, progressAge>>

-----------------------------------------------------------------------------
(* A worker.  A TERM that is pending for it stops it before its next       *)
(* command, a KILL at once.                                                *)

On(w, place) == worker[w].at = place /\ ~worker[w].term
Move(w, place) == worker' = [worker EXCEPT ![w].at = place]
Dies(w) == worker' = [worker EXCEPT ![w] = Dead]

(* fan_find and fan_full, then the first cycle.                            *)
WorkerBegin(w) ==
    /\ On(w, "born")
    /\ Full
    /\ IF device = "good"
       THEN worker' = [worker EXCEPT ![w].at = "work", ![w].age = 0]
       ELSE Dies(w)
    /\ UNCHANGED <<enabled, sup, files, device, poweroff, shocks, history>>

(* The sensors are read and the level is written and reads back.           *)
WorkerWrite(w) ==
    /\ On(w, "work")
    /\ IF device = "good"
       THEN Move(w, "wrote") /\ level' \in Levels
       ELSE Dies(w) /\ UNCHANGED level
    /\ UNCHANGED <<enabled, sup, files, device, poweroff, shocks, history>>

(* The heartbeat says when this cycle began.                               *)
WorkerBeat(w) ==
    /\ On(w, "wrote")
    /\ LET new == worker[w].age < sup.started IN
       /\ worker' = [worker EXCEPT ![w].at = "sleep", ![w].left = Nap,
                                   ![w].beat = @ \/ new]
       /\ quietAge' = IF new THEN 0 ELSE quietAge
    /\ files' = [files EXCEPT !.beat = worker[w].age]
    /\ UNCHANGED <<enabled, sup, level, device, poweroff, shocks,
                   unrecorded, troubled, lowAge, progressAge>>

WorkerNextCycle(w) ==
    /\ On(w, "sleep") /\ worker[w].left = 0
    /\ worker' = [worker EXCEPT ![w].at = "work", ![w].age = 0]
    /\ progressAge' = IF worker[w].beat /\ w = sup.child /\ unrecorded = {}
                      THEN 0 ELSE progressAge
    /\ UNCHANGED <<enabled, sup, files, level, device, poweroff, shocks,
                   unrecorded, troubled, lowAge, quietAge>>

(* Faulty form: the worker just exits.                                     *)
WorkerTrapNotFull(w) ==
    /\ worker[w].term /\ worker[w].at \in {"born", "work", "wrote", "sleep"}
    /\ worker[w].at = "sleep" => worker[w].left = 0
    /\ Dies(w)
    /\ UNCHANGED <<enabled, sup, files, level, device, poweroff, shocks, history>>

(* The trap of line 18, delayed by a sleep and by a read that hangs, and   *)
(* not set yet in a new worker.                                            *)
WorkerTrap(w) ==
    /\ worker[w].term /\ worker[w].at \in {"born", "work", "wrote", "sleep"}
    /\ worker[w].at = "sleep" => worker[w].left = 0
    /\ IF worker[w].at = "born" THEN UNCHANGED level ELSE Full
    /\ Dies(w)
    /\ UNCHANGED <<enabled, sup, files, device, poweroff, shocks, history>>

WorkerUnstick(w) ==
    /\ worker[w].at = "stuck"
    /\ Move(w, "work")
    /\ UNCHANGED <<enabled, sup, files, level, device, poweroff, shocks, history>>

-----------------------------------------------------------------------------
(* What happens to the processes from outside, and time.                   *)

(* A SIGKILL: out of memory, an operator, procd after term_timeout.        *)
KillSupervisor ==
    /\ sup.at # "down" /\ Shock
    /\ Exit
    /\ UNCHANGED <<enabled, worker, files, level, device, poweroff,
                   troubled, lowAge, quietAge, progressAge>>

KillWorker(w) ==
    /\ w \in Alive /\ Shock
    /\ Dies(w)
    /\ UNCHANGED <<enabled, sup, files, level, device, poweroff, history>>

(* A read that hangs.                                                      *)
WorkerStick(w) ==
    /\ worker[w].at = "work" /\ Shock
    /\ Move(w, "stuck")
    /\ troubled' = TRUE
    /\ UNCHANGED <<enabled, sup, files, level, device, poweroff,
                   unrecorded, lowAge, quietAge, progressAge>>

BreakDevice ==
    /\ device = "good" /\ Shock
    /\ device' = "bad"
    /\ UNCHANGED <<enabled, sup, worker, files, level, poweroff, history>>

(* Nobody is due: the supervisor sleeps, has just read the time, or is     *)
(* down for good or for the respawn delay, and no worker but a stuck one   *)
(* has used up its time.                                                   *)
NobodyDue ==
    /\ \/ sup.at \in {"nap", "rest"} /\ sup.wait > 0
       \/ sup.at = "compare"
       \/ sup.at = "down" /\ (enabled => sup.wait > 0)
    /\ \A w \in Workers :
        /\ worker[w].at \in {"born", "work", "wrote"} => worker[w].age < MaxWork
        /\ worker[w].at = "sleep" => worker[w].left > 0

(* The heartbeat holds the time a cycle began, and it stays in the file    *)
(* for a sleep and the next cycle: a worker that takes this long to begin  *)
(* or for a cycle can be taken for a stalled one although it gets on.      *)
Slow(w) == /\ worker[w].at \in {"born", "work", "wrote"}
           /\ 2 * (worker[w].age + 1) + Nap > Stall

Tick ==
    /\ NobodyDue
    /\ sup' = [sup EXCEPT !.at = IF @ = "compare" THEN "late" ELSE @,
                          !.wait = Less(@),
                          !.started = IF sup.at = "down" THEN @ ELSE Older(@, AgeCap),
                          !.fault = Older(@, FaultLimit)]
    /\ worker' = [w \in Workers |->
                    IF w \in Alive
                    THEN [worker[w] EXCEPT !.age = IF worker[w].at = "sleep" THEN 0
                                                   ELSE Older(@, AgeCap),
                                           !.left = Less(@)]
                    ELSE Dead]
    /\ files' = [files EXCEPT !.beat = Older(@, AgeCap)]
    /\ lowAge' = IF enabled /\ device = "good" /\ level < 3 /\ Alive = {}
                 THEN Older(lowAge, LowCap) ELSE 0
    /\ LET counted == sup.at # "down" /\ ~poweroff IN
       /\ quietAge' = IF counted THEN Older(quietAge, LongAge) ELSE 0
       /\ progressAge' = IF counted THEN Older(progressAge, FaultLimit) ELSE 0
    /\ troubled' = (troubled \/ \E w \in Workers : Slow(w))
    /\ UNCHANGED <<enabled, level, device, poweroff, shocks, unrecorded>>

-----------------------------------------------------------------------------
Supervise ==
    \/ FirstFull("begin", "retire") \/ Retire \/ FirstFull("full", "start")
    \/ BeginRound \/ (\E w \in Workers : Fork(w)) \/ Record
    \/ Watch \/ ReadNow \/ Check \/ KillStalled \/ GiveUp \/ NextRound
    \/ TrapFull \/ TrapExit \/ TermUntrapped

Work(w) ==
    \/ WorkerBegin(w) \/ WorkerWrite(w) \/ WorkerBeat(w) \/ WorkerNextCycle(w)
    \/ WorkerTrap(w)

Next ==
    \/ StartService \/ StopService \/ Respawn
    \/ Supervise
    \/ \E w \in Workers : Work(w) \/ WorkerUnstick(w)
    \/ KillSupervisor \/ BreakDevice
    \/ \E w \in Workers : KillWorker(w) \/ WorkerStick(w)
    \/ Tick

(* Every process that can run does, and time passes.  Nothing makes a      *)
(* stuck worker return, and nothing obliges anybody to start the service.  *)
Fairness ==
    /\ WF_vars(Respawn) /\ WF_vars(Supervise) /\ WF_vars(Tick)
    /\ \A w \in Workers : WF_vars(Work(w))

Spec == Init /\ [][Next]_vars
FairSpec == Spec /\ Fairness

-----------------------------------------------------------------------------
Places == {"down", "begin", "retire", "full", "quit"} \cup Trapped

SupervisorStates ==
    [at : Places, wait : Nat, term : BOOLEAN,
     forked : Workers \cup {NoWorker}, child : Workers \cup {NoWorker},
     started : Nat, fault : Nat \cup {Unset}]
WorkerStates ==
    [at : {"dead", "born", "work", "stuck", "wrote", "sleep"},
     age : Nat, left : Nat, term : BOOLEAN, beat : BOOLEAN]

TypeOK ==
    /\ enabled \in BOOLEAN
    /\ sup \in SupervisorStates
    /\ worker \in [Workers -> WorkerStates]
    /\ files \in [pid : Workers \cup {NoWorker}, beat : Nat]
    /\ level \in Levels /\ device \in {"good", "bad"}
    /\ poweroff \in BOOLEAN /\ shocks \in Nat
    /\ unrecorded \subseteq Workers /\ troubled \in BOOLEAN
    /\ lowAge \in Nat /\ quietAge \in Nat /\ progressAge \in Nat

(* Between one worker and the next nobody drives the fan and it is at      *)
(* full, whatever the last worker wrote and whenever it was killed; only a *)
(* worker that no worker.pid ever named can spoil this.                    *)
FullBetweenWorkers ==
    sup.at \in {"rest", "start", "fork"} /\ unrecorded = {} =>
        /\ Alive = {}
        /\ device = "good" => level = 3

(* There are two workers at a time only if a supervisor ended between      *)
(* making one of them and writing worker.pid: every other orphan is        *)
(* retired before its successor is made.                                   *)
SecondWorkerUnrecorded ==
    \A v, w \in Alive : v # w => v \in unrecorded \/ w \in unrecorded

(* The fan does not stay below full unattended: once no worker is alive    *)
(* the supervisor notices within Look, and a new one that has to be        *)
(* respawned first within RestartDelay; each kill or death can cost another*)
(* such wait.                                                              *)
LowIsShortLived == lowAge <= Look + LongestWait * shocks

(* A stop that nothing else disturbs: once the supervisor is gone every    *)
(* worker has been told to end, but for one the TERM met in line 146,      *)
(* forked and not yet in $child; and once no worker is left the fan is at  *)
(* full.                                                                   *)
StopLeavesFull ==
    ~enabled /\ sup.at = "down" /\ shocks = 1 /\ device = "good" =>
        /\ \A w \in Alive : worker[w].term \/ w \in unrecorded
        /\ Alive = {} => level = 3

(* The supervisor does not power off a machine whose worker completed a    *)
(* cycle and lived to begin the next within the last FaultLimit seconds,   *)
(* unless a worker that no worker.pid named wrote the heartbeat beside it. *)
PowerOffJustified == [][poweroff' /\ ~poweroff => progressAge >= FaultLimit]_vars

(* The supervisor takes a living child for stalled only if a read of its   *)
(* hung, it was slow, another worker was about, or it began a cycle after  *)
(* the supervisor read the time and ended it before the supervisor read    *)
(* the heartbeat: the heartbeat of the worker before, the supervisor's own *)
(* restart and a start and a cycle that fit in Stall are no reason.        *)
StallJustified ==
    [][sup.at # "kill" /\ sup'.at = "kill" /\ sup.child \in Alive
        => troubled \/ (sup.at = "late" /\ Ahead)]_vars

(* When no worker completes a cycle for FaultLimit seconds, and the time   *)
(* the attempts before and after them can take, the machine has been       *)
(* powered off, unless the supervisor itself was restarted meanwhile.      *)
GivesUpInTime == quietAge >= LongAge => poweroff \/ sup.at = "down"

(* An enabled service keeps writing the fan for ever, whoever was killed   *)
(* and although a hung read may never return.  A child that does not get   *)
(* on is replaced by one that does, unless a worker that no worker.pid     *)
(* named lives on and keeps the heartbeat fresh in its place.              *)
Writes(w) == worker[w].at = "wrote"
Recovers ==
    <>[](enabled /\ device = "good") =>
        /\ []<>(\E w \in Workers : Writes(w))
        /\ <>[](Alive \cap unrecorded = {})
               => []<>(\E w \in Workers : Writes(w) /\ w = sup.child)

(* Docs: "One worker plus an independently scheduled supervisor."          *)
OneWorker == \A v, w \in Alive : v = w
=============================================================================
