------------------------ MODULE FanSupervisionProofs ------------------------
(***************************************************************************)
(* Theorems about FanSupervision for any number of workers, any times that *)
(* satisfy its assumptions, and any number of kills, deaths, stalls and    *)
(* stops.                                                                  *)
(***************************************************************************)
EXTENDS FanSupervision, TLAPS

(* The times, unpacked.                                                    *)
LEMMA Times ==
    /\ Poll \in Nat /\ Stall \in Nat /\ Nap \in Nat /\ MaxWork \in Nat
    /\ RestartDelay \in Nat /\ FaultLimit \in Nat /\ MaxShocks \in Nat
    /\ Poll > 0 /\ RestartDelay > 0 /\ Poll + 1 < Nap /\ Nap <= Stall
    /\ NoWorker \notin Workers
BY SupervisionAssumption

LEMMA WaitsAreNumbers ==
    /\ Look \in Nat /\ LongestWait \in Nat
    /\ LongestWait >= Poll + 1 /\ LongestWait >= RestartDelay
BY Times DEF Look, LongestWait

LEMMA CapsAreNumbers == AgeCap \in Nat /\ LongAge \in Nat /\ LowCap \in Nat
<1>1. LongestWait * MaxShocks \in Nat
  BY WaitsAreNumbers, Times
<1> QED
  BY <1>1, WaitsAreNumbers, Times DEF AgeCap, LongAge, Attempt, LowCap

LEMMA OlderAge ==
    ASSUME NEW age \in Nat, NEW cap \in Nat
    PROVE  Older(age, cap) \in Nat /\ Older(age, cap) <= age + 1
BY DEF Older, Unset

LEMMA OlderMark ==
    ASSUME NEW age \in Nat \cup {Unset}, NEW cap \in Nat
    PROVE  Older(age, cap) \in Nat \cup {Unset}
BY DEF Older, Unset

LEMMA LessTime == ASSUME NEW n \in Nat PROVE Less(n) \in Nat /\ Less(n) <= n
BY DEF Less

-----------------------------------------------------------------------------
(* Types.                                                                  *)

LEMMA DeadIsWorker == Dead \in WorkerStates
BY DEF Dead, WorkerStates

PlainTypes ==
    /\ enabled \in BOOLEAN
    /\ files \in [pid : Workers \cup {NoWorker}, beat : Nat]
    /\ level \in Levels /\ device \in {"good", "bad"}
    /\ poweroff \in BOOLEAN /\ shocks \in Nat
    /\ unrecorded \subseteq Workers /\ troubled \in BOOLEAN
    /\ lowAge \in Nat /\ quietAge \in Nat /\ progressAge \in Nat

LEMMA TypeParts ==
    TypeOK <=> sup \in SupervisorStates /\ worker \in [Workers -> WorkerStates] /\ PlainTypes
BY DEF TypeOK, PlainTypes

LEMMA TypeInit == Init => TypeOK
<1> SUFFICES ASSUME Init PROVE TypeOK
  OBVIOUS
<1>1. sup \in SupervisorStates
  BY DEF Init, NoSupervisor, SupervisorStates, Places
<1>2. worker \in [Workers -> WorkerStates]
  BY DeadIsWorker DEF Init
<1>3. PlainTypes
  BY DEF Init, PlainTypes
<1> QED
  BY <1>1, <1>2, <1>3, TypeParts

LEMMA ExitTyped ==
    ASSUME TypeOK, Exit
    PROVE  sup' \in SupervisorStates /\ unrecorded' \subseteq Workers
<1>1. sup' \in SupervisorStates
  BY Times DEF Exit, NoSupervisor, TypeOK, Places, SupervisorStates
<1>2. unrecorded' \subseteq Workers
  BY DEF Exit, TypeOK, SupervisorStates
<1> QED
  BY <1>1, <1>2

(* The supervisor's place, sleep and shell variables.                      *)
LEMMA SupStep == TypeOK /\ [Next]_vars => sup' \in SupervisorStates
<1> SUFFICES ASSUME TypeOK, [Next]_vars PROVE sup' \in SupervisorStates
  OBVIOUS
<1>0. sup \in SupervisorStates /\ Places = {"down", "begin", "retire", "full", "quit", "start",
                                            "fork", "record", "watch", "nap", "compare",
                                            "late", "kill", "giveup", "rest"}
  BY DEF TypeOK, Places, Trapped
<1>1. CASE StartService
  <2>1. sup' = [sup EXCEPT !.wait = 0]
    BY <1>1, Zenon DEF StartService
  <2> QED
    BY <1>0, <2>1 DEF SupervisorStates
<1>2. CASE Respawn
  BY <1>0, <1>2 DEF Respawn, SupervisorStates
<1>3. CASE StopService
  BY <1>0, <1>3 DEF StopService, SupervisorStates
<1>4. CASE FirstFull("begin", "retire") \/ FirstFull("full", "start")
  BY <1>0, <1>4, ExitTyped DEF FirstFull, Go, SupervisorStates
<1>5. CASE Retire
  BY <1>0, <1>5 DEF Retire, Go, SupervisorStates
<1>6. CASE BeginRound
  <2>1. sup' = [sup EXCEPT !.at = "fork", !.started = 0]
    BY <1>6, Zenon DEF BeginRound
  <2> QED
    BY <1>0, <2>1 DEF SupervisorStates
<1>7. ASSUME NEW w \in Workers, Fork(w) PROVE sup' \in SupervisorStates
  BY <1>0, <1>7 DEF Fork, SupervisorStates
<1>8. CASE Record
  BY <1>0, <1>8 DEF Record, SupervisorStates
<1>9. CASE Watch \/ ReadNow
  BY <1>0, <1>9, Times DEF Watch, ReadNow, Go, SupervisorStates
<1>10. CASE Check
  <2>1. PICK place \in {"kill", "watch"}, mark \in {Unset, sup.fault} :
          sup' = [sup EXCEPT !.at = place, !.fault = mark]
    <3>1. CASE Stalled
      <4>1. sup' = [sup EXCEPT !.at = "kill"]
        BY <1>10, <3>1 DEF Check, Go
      <4>2. sup' = [sup EXCEPT !.at = "kill", !.fault = sup.fault]
        BY <1>0, <4>1 DEF SupervisorStates
      <4> QED
        BY <4>2
    <3>2. CASE ~Stalled
      <4>1. sup' = [sup EXCEPT !.at = "watch",
                               !.fault = IF files.beat < sup.started THEN Unset ELSE @]
        BY <1>10, <3>2 DEF Check
      <4> QED
        BY <4>1
    <3> QED
      BY <3>1, <3>2
  <2> QED
    BY <1>0, <2>1 DEF SupervisorStates
<1>11. CASE KillStalled
  BY <1>0, <1>11 DEF KillStalled, Go, SupervisorStates
<1>12. CASE GiveUp
  <2>1. sup' = [sup EXCEPT !.at = "rest", !.wait = Poll,
                           !.fault = IF @ = Unset THEN 0 ELSE @]
    BY <1>12, Zenon DEF GiveUp
  <2> QED
    BY <1>0, <2>1, Times DEF SupervisorStates
<1>13. CASE NextRound
  BY <1>0, <1>13 DEF NextRound, Go, SupervisorStates
<1>14. CASE TrapFull
  BY <1>0, <1>14 DEF TrapFull, SupervisorStates
<1>15. CASE TrapExit \/ TermUntrapped \/ KillSupervisor
  BY <1>15, ExitTyped DEF TrapExit, TermUntrapped, KillSupervisor
<1>16. CASE Tick
  <2>1. /\ Less(sup.wait) \in Nat /\ Older(sup.started, AgeCap) \in Nat
        /\ Older(sup.fault, FaultLimit) \in Nat \cup {Unset}
    BY <1>0, CapsAreNumbers, OlderAge, OlderMark, LessTime, Times DEF SupervisorStates
  <2>2. PICK place \in {"late", sup.at}, since \in {sup.started, Older(sup.started, AgeCap)} :
          sup' = [sup EXCEPT !.at = place, !.wait = Less(sup.wait), !.started = since,
                             !.fault = Older(sup.fault, FaultLimit)]
    BY <1>16, Zenon DEF Tick
  <2> QED
    BY <1>0, <2>1, <2>2 DEF SupervisorStates
<1>17. ASSUME NEW w \in Workers, Work(w) \/ WorkerUnstick(w) \/ KillWorker(w) \/ WorkerStick(w)
       PROVE  sup' \in SupervisorStates
  BY <1>0, <1>17 DEF Work, WorkerBegin, WorkerWrite, WorkerBeat, WorkerNextCycle, WorkerTrap,
                     WorkerUnstick, KillWorker, WorkerStick
<1>18. CASE BreakDevice \/ UNCHANGED vars
  BY <1>0, <1>18 DEF BreakDevice, vars
<1> QED
  BY <1>1, <1>4, <1>5, <1>7, <1>8, <1>10, <1>12, <1>14, <1>15, <1>16, <1>17, <1>18,
     <1>3, <1>6, <1>13, <1>2, <1>9, <1>11
  DEF Next, Supervise

LEMMA WorkerStep == TypeOK /\ [Next]_vars => worker' \in [Workers -> WorkerStates]
<1> SUFFICES ASSUME TypeOK, [Next]_vars PROVE worker' \in [Workers -> WorkerStates]
  OBVIOUS
<1>0. worker \in [Workers -> WorkerStates] /\ Dead \in WorkerStates
  BY DeadIsWorker DEF TypeOK
<1>1. CASE StartService \/ StopService \/ Respawn \/ FirstFull("begin", "retire")
        \/ FirstFull("full", "start") \/ BeginRound \/ Record \/ Watch \/ ReadNow \/ Check
        \/ GiveUp \/ NextRound \/ TrapFull \/ TermUntrapped \/ KillSupervisor \/ BreakDevice
        \/ UNCHANGED vars
  BY <1>0, <1>1 DEF StartService, StopService, Respawn, FirstFull, BeginRound, Record, Watch,
                    ReadNow, Check, GiveUp, NextRound, TrapFull, TermUntrapped, KillSupervisor,
                    BreakDevice, vars
<1>2. CASE Retire \/ KillStalled
  BY <1>0, <1>2 DEF Retire, KillStalled
<1>3. CASE TrapExit
  <2>1. ASSUME NEW w \in Workers PROVE [worker[w] EXCEPT !.term = TRUE] \in WorkerStates
    BY <1>0 DEF WorkerStates
  <2> QED
    BY <1>0, <1>3, <2>1 DEF TrapExit, Alive
<1>4. ASSUME NEW w \in Workers,
             \/ Fork(w) \/ Work(w) \/ WorkerUnstick(w) \/ KillWorker(w) \/ WorkerStick(w)
      PROVE  worker' \in [Workers -> WorkerStates]
  <2>1. worker[w] \in WorkerStates
    BY <1>0
  <2>2. \A place \in {"work", "wrote", "stuck"} : [worker[w] EXCEPT !.at = place] \in WorkerStates
    BY <2>1 DEF WorkerStates
  <2>3. CASE Fork(w)
    <3>1. [Dead EXCEPT !.at = "born"] \in WorkerStates
      BY DEF Dead, WorkerStates
    <3> QED
      BY <1>0, <2>3, <3>1 DEF Fork
  <2>4. CASE WorkerBegin(w) \/ WorkerWrite(w) \/ WorkerTrap(w) \/ WorkerUnstick(w)
             \/ KillWorker(w) \/ WorkerStick(w)
    BY <1>0, <2>2, <2>4 DEF WorkerBegin, WorkerWrite, WorkerTrap, WorkerUnstick, KillWorker,
                            WorkerStick, Move, Dies
  <2>5. CASE WorkerBeat(w)
    <3>1. ASSUME NEW b \in BOOLEAN
          PROVE  [worker[w] EXCEPT !.at = "sleep", !.left = Nap, !.beat = @ \/ b] \in WorkerStates
      BY <2>1, Times DEF WorkerStates
    <3>2. (worker[w].age < sup.started) \in BOOLEAN
      OBVIOUS
    <3> QED
      BY <1>0, <2>5, <3>1, <3>2 DEF WorkerBeat
  <2>6. CASE WorkerNextCycle(w)
    <3>1. [worker[w] EXCEPT !.at = "work", !.age = 0] \in WorkerStates
      BY <2>1 DEF WorkerStates
    <3> QED
      BY <1>0, <2>6, <3>1 DEF WorkerNextCycle
  <2> QED
    BY <1>4, <2>3, <2>4, <2>5, <2>6 DEF Work
<1>5. CASE Tick
  <2>1. ASSUME NEW w \in Workers
        PROVE  [worker[w] EXCEPT !.age = IF worker[w].at = "sleep" THEN 0 ELSE Older(@, AgeCap),
                                 !.left = Less(@)] \in WorkerStates
    <3>1. /\ worker[w] \in WorkerStates
          /\ Older(worker[w].age, AgeCap) \in Nat /\ Less(worker[w].left) \in Nat
      BY <1>0, CapsAreNumbers, OlderAge, LessTime DEF WorkerStates
    <3> QED
      BY <3>1 DEF WorkerStates
  <2> QED
    BY <1>0, <1>5, <2>1 DEF Tick
<1> QED
  BY <1>1, <1>2, <1>3, <1>4, <1>5 DEF Next, Supervise

LEMMA PlainStep == TypeOK /\ [Next]_vars => PlainTypes'
<1> SUFFICES ASSUME TypeOK, [Next]_vars PROVE PlainTypes'
  OBVIOUS
<1>0. PlainTypes /\ 3 \in Levels
  BY TypeParts, SupervisionAssumption
<1> USE DEF Full, Shock, history
<1>1. CASE Respawn \/ Retire \/ Watch \/ ReadNow \/ Check \/ KillStalled \/ NextRound \/ TrapFull
  BY <1>0, <1>1 DEF PlainTypes, Respawn, Retire, Watch, ReadNow, Check, KillStalled, NextRound,
                    TrapFull
<1>2. CASE StopService
  <2>1. enabled' \in BOOLEAN /\ shocks' = shocks + 1
    BY <1>2, Zenon DEF StopService
  <2>2. /\ level' = IF device = "good" THEN 3 ELSE level
        /\ files' = files /\ device' = device /\ poweroff' = poweroff
        /\ UNCHANGED history
    BY <1>2, Zenon DEF StopService
  <2> QED
    BY <1>0, <2>1, <2>2 DEF PlainTypes
<1>3. CASE FirstFull("begin", "retire") \/ FirstFull("full", "start")
  BY <1>0, <1>3, ExitTyped DEF PlainTypes, FirstFull
<1>4. CASE StartService
  <2>1. enabled' \in BOOLEAN
    BY <1>4, Zenon DEF StartService
  <2> QED
    BY <1>0, <1>4, <2>1 DEF PlainTypes, StartService
<1>5. CASE BeginRound
  <2>1. troubled' \in BOOLEAN
    BY <1>5, Zenon DEF BeginRound
  <2> QED
    BY <1>0, <1>5, <2>1 DEF PlainTypes, BeginRound
<1>6. CASE GiveUp
  <2>1. poweroff' \in BOOLEAN
    BY <1>6, Zenon DEF GiveUp
  <2> QED
    BY <1>0, <1>6, <2>1 DEF PlainTypes, GiveUp
<1>7. CASE TrapExit \/ TermUntrapped \/ KillSupervisor
  BY <1>0, <1>7, ExitTyped DEF PlainTypes, TrapExit, TermUntrapped, KillSupervisor
<1>8. CASE Record
  <2>1. sup.forked \in Workers \cup {NoWorker}
    BY DEF TypeOK, SupervisorStates
  <2> QED
    BY <1>0, <1>8, <2>1 DEF PlainTypes, Record
<1>9. ASSUME NEW w \in Workers,
             \/ Fork(w) \/ Work(w) \/ WorkerUnstick(w) \/ KillWorker(w) \/ WorkerStick(w)
      PROVE  PlainTypes'
  <2>1. worker[w].age \in Nat
    BY DEF TypeOK, WorkerStates
  <2>2. CASE WorkerBeat(w)
    BY <1>0, <2>1, <2>2 DEF PlainTypes, WorkerBeat
  <2>3. CASE Fork(w)
    BY <1>0, <2>3 DEF PlainTypes, Fork
  <2>4. CASE WorkerBegin(w) \/ WorkerTrap(w)
    BY <1>0, <2>4 DEF PlainTypes, WorkerBegin, WorkerTrap
  <2>5. CASE WorkerWrite(w) \/ WorkerNextCycle(w)
    BY <1>0, <2>5 DEF PlainTypes, WorkerWrite, WorkerNextCycle
  <2>6. CASE WorkerUnstick(w)
    BY <1>0, <2>6 DEF PlainTypes, WorkerUnstick
  <2>7. CASE KillWorker(w)
    BY <1>0, <2>7 DEF PlainTypes, KillWorker
  <2>8. CASE WorkerStick(w)
    BY <1>0, <2>8 DEF PlainTypes, WorkerStick
  <2> QED
    BY <1>9, <2>2, <2>3, <2>4, <2>5, <2>6, <2>7, <2>8 DEF Work
<1>10. CASE Tick
  <2>1. /\ lowAge' \in {0, Older(lowAge, LowCap)}
        /\ quietAge' \in {0, Older(quietAge, LongAge)}
        /\ progressAge' \in {0, Older(progressAge, FaultLimit)}
    BY <1>10, Zenon DEF Tick
  <2>2. troubled' \in BOOLEAN
    BY <1>10, Zenon DEF Tick
  <2>3. lowAge' \in Nat /\ quietAge' \in Nat /\ progressAge' \in Nat
    <3>1. /\ lowAge \in Nat /\ quietAge \in Nat /\ progressAge \in Nat
          /\ LowCap \in Nat /\ LongAge \in Nat /\ FaultLimit \in Nat
      BY <1>0, CapsAreNumbers, Times DEF PlainTypes
    <3>2. /\ Older(lowAge, LowCap) \in Nat /\ Older(quietAge, LongAge) \in Nat
          /\ Older(progressAge, FaultLimit) \in Nat
      BY <3>1, OlderAge
    <3> QED
      BY <2>1, <3>2
  <2>4. files'.beat \in Nat /\ files' = [files EXCEPT !.beat = files'.beat]
    BY <1>0, <1>10, CapsAreNumbers, OlderAge DEF Tick, PlainTypes
  <2>5. UNCHANGED <<enabled, level, device, poweroff, shocks, unrecorded>>
    BY <1>10 DEF Tick
  <2> QED
    BY <1>0, <2>2, <2>3, <2>4, <2>5 DEF PlainTypes
<1>11. CASE BreakDevice \/ UNCHANGED vars
  BY <1>0, <1>11 DEF PlainTypes, BreakDevice, vars
<1> QED
  BY <1>1, <1>3, <1>7, <1>8, <1>9, <1>10, <1>11, <1>4, <1>5, <1>6, <1>2
  DEF Next, Supervise

LEMMA TypeStep == TypeOK /\ [Next]_vars => TypeOK'
BY SupStep, WorkerStep, PlainStep DEF TypeOK, PlainTypes

(* Every variable keeps its type.                                          *)
THEOREM SupervisionTyped == Spec => []TypeOK
BY TypeInit, TypeStep, PTL DEF Spec

-----------------------------------------------------------------------------
(* Who is alive, and who knows of it.                                      *)

(* worker.pid names the child as soon as it is one; nobody it names is     *)
(* alive between two workers; every other living worker was orphaned       *)
(* before it was named, or is just being named.                            *)
ChildNamed == sup.child \in {NoWorker, files.pid}
Known == sup.at \in {"watch", "nap", "compare", "late", "kill"} =>
            sup.child = files.pid /\ sup.forked = files.pid
Gone == sup.at \in {"full", "start", "fork", "giveup", "rest"} => files.pid \notin Alive
OneNamed == sup.at \in {"record", "quit"} /\ files.pid \in Alive => files.pid = sup.forked
Orphans == \A w \in Alive : \/ w \in unrecorded \/ w = files.pid
                            \/ sup.at \in {"record", "quit"} /\ w = sup.forked
RestFull == sup.at \in {"rest", "start", "fork"} /\ unrecorded = {} /\ device = "good" =>
               level = 3

PidInv == ChildNamed /\ Known /\ Gone /\ OneNamed /\ Orphans /\ RestFull

LEMMA PidInit == Init => PidInv
BY DEF Init, NoSupervisor, PidInv, ChildNamed, Known, Gone, OneNamed, Orphans, RestFull,
       Alive, Dead

(* Only the supervisor makes workers.                                      *)
LEMMA OnlyForkMakes ==
    ASSUME TypeOK, [Next]_vars
    PROVE  Alive' \subseteq Alive \/ \E w \in Workers : Fork(w)
<1>0. worker \in [Workers -> WorkerStates]
  BY DEF TypeOK
<1>1. CASE worker' = worker
  BY <1>1 DEF Alive
<1>2. CASE Retire \/ KillStalled \/ TrapExit
  BY <1>0, <1>2 DEF Retire, KillStalled, TrapExit, Alive, Dead, WorkerStates
<1>3. ASSUME NEW w \in Workers,
             Work(w) \/ WorkerUnstick(w) \/ KillWorker(w) \/ WorkerStick(w)
      PROVE  Alive' \subseteq Alive
  <2>1. CASE WorkerBegin(w) \/ WorkerWrite(w) \/ WorkerTrap(w)
    BY <1>0, <2>1 DEF WorkerBegin, WorkerWrite, WorkerTrap, On, Move, Dies, Alive, Dead,
                      WorkerStates
  <2>2. CASE WorkerBeat(w) \/ WorkerNextCycle(w)
    BY <1>0, <2>2 DEF WorkerBeat, WorkerNextCycle, On, Alive, WorkerStates
  <2>3. CASE WorkerUnstick(w) \/ KillWorker(w) \/ WorkerStick(w)
    BY <1>0, <2>3 DEF WorkerUnstick, KillWorker, WorkerStick, Move, Dies, Alive, Dead,
                      WorkerStates
  <2> QED
    BY <1>3, <2>1, <2>2, <2>3 DEF Work
<1>4. CASE Tick
  BY <1>0, <1>4 DEF Tick, Alive, Dead, WorkerStates
<1> QED
  BY <1>1, <1>2, <1>3, <1>4
  DEF Next, Supervise, vars, StartService, StopService, Respawn, FirstFull, BeginRound,
      Record, Watch, ReadNow, Check, GiveUp, NextRound, TrapFull, TermUntrapped,
      KillSupervisor, BreakDevice

LEMMA PidStep == TypeOK /\ PidInv /\ [Next]_vars => PidInv'
<1> SUFFICES ASSUME TypeOK, PidInv, [Next]_vars PROVE PidInv'
  OBVIOUS
<1> USE DEF PidInv, ChildNamed, Known, Gone, OneNamed, Orphans, RestFull
<1>0. /\ sup \in SupervisorStates /\ files \in [pid : Workers \cup {NoWorker}, beat : Nat]
      /\ NoWorker \notin Alive /\ Alive \subseteq Workers /\ unrecorded \subseteq Workers
  BY Times DEF TypeOK, Alive
<1>1. ASSUME NEW w \in Workers, Fork(w) PROVE PidInv'
  <2>1. Alive' \subseteq Alive \cup {w}
    BY <1>1 DEF Fork, Alive, TypeOK
  <2> QED
    BY <1>0, <1>1, <2>1 DEF Fork, At, SupervisorStates
<1> SUFFICES ASSUME Alive' \subseteq Alive PROVE PidInv'
  BY <1>1, OnlyForkMakes
<1>2. CASE StartService
  <2>1. /\ sup' = [sup EXCEPT !.wait = 0] /\ sup.at = "down"
        /\ files' = files /\ unrecorded' = unrecorded
    BY <1>2, Zenon DEF StartService, history
  <2> QED
    BY <1>0, <2>1 DEF SupervisorStates
<1>3. CASE StopService
  BY <1>0, <1>3 DEF StopService, Full, SupervisorStates, history
<1>4. CASE Respawn
  BY <1>0, <1>4 DEF Respawn, SupervisorStates
<1>5. ASSUME Exit, sup.at \in {"begin", "retire", "full", "quit"} \/ KillSupervisor,
             files' = files
      PROVE  PidInv'
  BY <1>0, <1>5 DEF Exit, NoSupervisor, SupervisorStates
<1>6. CASE FirstFull("begin", "retire")
  BY <1>0, <1>5, <1>6 DEF FirstFull, Go, At, SupervisorStates
<1>7. CASE FirstFull("full", "start")
  BY <1>0, <1>5, <1>7 DEF FirstFull, Full, Go, At, SupervisorStates
<1>8. CASE Retire
  <2>1. files.pid \notin Alive'
    BY <1>0, <1>8 DEF Retire, Alive, Dead
  <2> QED
    BY <1>0, <1>8, <2>1 DEF Retire, At, Go, SupervisorStates, history
<1>9. CASE BeginRound
  <2>1. /\ At("start") /\ sup' = [sup EXCEPT !.at = "fork", !.started = 0]
        /\ files' = [files EXCEPT !.beat = 0]
        /\ UNCHANGED <<level, device, unrecorded>>
    BY <1>9, Zenon DEF BeginRound
  <2> QED
    BY <1>0, <2>1 DEF At, SupervisorStates
<1>10. CASE Record
  BY <1>0, <1>10 DEF Record, At, SupervisorStates, history
<1>11. CASE Watch \/ ReadNow
  BY <1>0, <1>11 DEF Watch, ReadNow, At, Go, SupervisorStates, history
<1>12. CASE Check
  <2>1. /\ sup.at \in {"compare", "late"} /\ sup'.at \in {"kill", "watch"}
        /\ sup'.child = sup.child /\ sup'.forked = sup.forked
    BY <1>0, <1>12 DEF Check, Comparing, At, Go, SupervisorStates
  <2>2. UNCHANGED <<files, unrecorded, device>>
    BY <1>12 DEF Check, history
  <2> QED
    BY <1>0, <2>1, <2>2
<1>13. CASE KillStalled
  <2>1. files.pid \notin Alive'
    BY <1>0, <1>13 DEF KillStalled, At, Alive, Dead, TypeOK
  <2> QED
    BY <1>0, <1>13, <2>1 DEF KillStalled, At, Go, SupervisorStates, history
<1>14. CASE GiveUp
  <2>1. /\ At("giveup") /\ Full
        /\ sup' = [sup EXCEPT !.at = "rest", !.wait = Poll,
                              !.fault = IF @ = Unset THEN 0 ELSE @]
        /\ UNCHANGED <<files, device, unrecorded>>
    BY <1>14, Zenon DEF GiveUp, history
  <2> QED
    BY <1>0, <2>1 DEF At, Full, SupervisorStates
<1>15. CASE NextRound \/ TrapFull
  BY <1>0, <1>15 DEF NextRound, TrapFull, Trapped, At, Go, Full, SupervisorStates, history
<1>16. CASE TrapExit \/ TermUntrapped \/ KillSupervisor
  BY <1>5, <1>16 DEF TrapExit, TermUntrapped, KillSupervisor
<1>17. ASSUME NEW w \in Workers,
              Work(w) \/ WorkerUnstick(w) \/ KillWorker(w) \/ WorkerStick(w)
       PROVE  PidInv'
  <2>1. /\ UNCHANGED <<sup, unrecorded, device>> /\ files'.pid = files.pid
        /\ level' \in {level, 3} \/ w \in Alive
    <3>1. CASE WorkerBeat(w)
      <4>1. /\ UNCHANGED <<sup, unrecorded, device, level>>
            /\ files' = [files EXCEPT !.beat = worker[w].age]
        BY <3>1, Zenon DEF WorkerBeat
      <4> QED
        BY <1>0, <4>1
    <3>2. CASE WorkerWrite(w)
      BY <3>2 DEF WorkerWrite, On, Alive, history
    <3> QED
      BY <1>17, <3>1, <3>2
      DEF Work, WorkerBegin, WorkerNextCycle, WorkerTrap, WorkerUnstick, KillWorker,
          WorkerStick, Full, history
  <2> QED
    BY <1>0, <2>1
<1>18. CASE BreakDevice \/ UNCHANGED vars
  BY <1>0, <1>18 DEF BreakDevice, vars, history
<1>19. CASE Tick
  <2>1. /\ sup'.at = sup.at \/ (sup.at = "compare" /\ sup'.at = "late")
        /\ sup'.child = sup.child /\ sup'.forked = sup.forked
    BY <1>0, <1>19 DEF Tick, SupervisorStates
  <2>2. files'.pid = files.pid /\ UNCHANGED <<unrecorded, device, level>>
    BY <1>0, <1>19 DEF Tick
  <2> QED
    BY <1>0, <2>1, <2>2
<1> QED
  BY <1>2, <1>3, <1>4, <1>6, <1>7, <1>8, <1>9, <1>10, <1>11, <1>13, <1>14, <1>15, <1>16,
     <1>17, <1>18, <1>19, <1>12, OnlyForkMakes, <1>1
  DEF Next, Supervise

LEMMA PidInvariant == Spec => [](TypeOK /\ PidInv)
BY TypeInit, TypeStep, PidInit, PidStep, PTL DEF Spec

(* Between two workers the fan is at full and nobody else drives it.       *)
THEOREM SupervisionFullBetweenWorkers == Spec => []FullBetweenWorkers
<1>1. TypeOK /\ PidInv => FullBetweenWorkers
  BY DEF PidInv, Gone, Orphans, RestFull, FullBetweenWorkers
<1> QED
  BY <1>1, PidInvariant, PTL

(* A second worker can only be one whose supervisor ended before it wrote  *)
(* worker.pid.                                                             *)
THEOREM SupervisionSecondWorkerUnrecorded == Spec => []SecondWorkerUnrecorded
<1>1. TypeOK /\ PidInv => SecondWorkerUnrecorded
  BY DEF PidInv, OneNamed, Orphans, SecondWorkerUnrecorded
<1> QED
  BY <1>1, PidInvariant, PTL

-----------------------------------------------------------------------------
(* How long the fan can be low with no worker alive.                       *)

Bound == Look + LongestWait * shocks

LEMMA BoundGrows ==
    ASSUME TypeOK
    PROVE  /\ Bound \in Nat /\ Bound >= Look
           /\ shocks >= 1 => Bound >= Look + LongestWait
           /\ shocks' = shocks => Bound' = Bound
           /\ shocks' = shocks + 1 => Bound' = Bound + LongestWait
<1>1. LongestWait \in Nat /\ Look \in Nat /\ shocks \in Nat
  BY WaitsAreNumbers DEF TypeOK
<1>2. ASSUME NEW d \in Nat, NEW n \in Nat
      PROVE  /\ d * n \in Nat /\ n >= 1 => d * n >= d
             /\ d * (n + 1) = d * n + d
  BY <1>2
<1> QED
  BY <1>1, <1>2 DEF Bound

(* A TERM reaches the worker of worker.pid, after its supervisor is gone;  *)
(* one for the supervisor comes from a stop; whoever waits does so for its *)
(* own time, and after an exit only if something had happened to it.       *)
Termed == \A w \in Workers : worker[w].term =>
             w = files.pid /\ sup.at \in {"down", "begin", "retire"}
Stopped == /\ sup.term => ~enabled /\ shocks >= 1 /\ sup.at # "down"
           /\ sup.at = "quit" => sup.term
Shocked == /\ device = "bad" => shocks >= 1
           /\ sup.at = "down" /\ sup.wait > 0 => shocks >= 1
Waits == /\ sup.at \in {"nap", "rest"} => sup.wait <= Poll
         /\ sup.at = "down" => sup.wait <= RestartDelay

CalmInv == Termed /\ Stopped /\ Shocked /\ Waits

(* Nobody is about to write the level and it is low.                       *)
Lonely == /\ enabled /\ device = "good" /\ level < 3
          /\ \A w \in Alive : worker[w].term
(* What passes before the supervisor acts, at most.                        *)
Idle == {"nap", "compare", "late", "rest", "down"}
Pause == IF sup.at = "nap" THEN sup.wait + 1
         ELSE IF sup.at = "compare" THEN 1
         ELSE IF sup.at = "late" THEN 0 ELSE sup.wait
LowInv == /\ lowAge <= Bound
          /\ Lonely /\ sup.at \in Idle => lowAge + Pause <= Bound

LEMMA LowInit == Init => CalmInv /\ LowInv
<1> SUFFICES ASSUME Init PROVE CalmInv /\ LowInv
  OBVIOUS
<1>1. Bound >= 0
  BY TypeInit, BoundGrows, WaitsAreNumbers
<1> QED
  BY <1>1, Times DEF Init, NoSupervisor, CalmInv, LowInv, Pause, Termed, Stopped, Shocked,
                     Waits, Dead

(* All that a heartbeat changes of the workers.                            *)
LEMMA BeatOnly ==
    ASSUME TypeOK, NEW w \in Workers, WorkerBeat(w)
    PROVE  /\ \A v \in Workers \ {w} : worker'[v] = worker[v]
           /\ worker'[w].at = "sleep" /\ worker'[w].left = Nap
           /\ worker'[w].age = worker[w].age /\ worker'[w].term = worker[w].term
           /\ \A v \in Workers : worker'[v].term = worker[v].term
<1>1. worker \in [Workers -> WorkerStates]
  BY DEF TypeOK
<1>2. PICK b \in BOOLEAN : worker' = [worker EXCEPT ![w] = [worker[w] EXCEPT !.at = "sleep",
                                                              !.left = Nap, !.beat = @ \/ b]]
  <2>1. (worker[w].age < sup.started) \in BOOLEAN
    OBVIOUS
  <2>2. worker' = [worker EXCEPT ![w] = [worker[w] EXCEPT !.at = "sleep", !.left = Nap,
                                           !.beat = @ \/ (worker[w].age < sup.started)]]
    BY Zenon DEF WorkerBeat
  <2> QED
    BY <2>1, <2>2, Zenon
<1> QED
  BY <1>1, <1>2 DEF WorkerStates

LEMMA CalmStep == TypeOK /\ ChildNamed /\ CalmInv /\ [Next]_vars => CalmInv'
<1> SUFFICES ASSUME TypeOK, ChildNamed, CalmInv, [Next]_vars PROVE CalmInv'
  OBVIOUS
<1> USE DEF CalmInv, Termed, Stopped, Shocked, Waits
<1>0. /\ sup \in SupervisorStates /\ files \in [pid : Workers \cup {NoWorker}, beat : Nat]
      /\ worker \in [Workers -> WorkerStates] /\ shocks \in Nat
      /\ Poll \in Nat /\ RestartDelay \in Nat /\ device \in {"good", "bad"}
  BY Times DEF TypeOK
<1>1. CASE StartService
  <2>1. /\ sup' = [sup EXCEPT !.wait = 0] /\ sup.at = "down"
        /\ UNCHANGED <<files, worker, shocks, device>>
    BY <1>1, Zenon DEF StartService, history
  <2> QED
    BY <1>0, <2>1 DEF SupervisorStates
<1>2. CASE StopService
  BY <1>0, <1>2 DEF StopService, Shock, SupervisorStates
<1>3. CASE Respawn
  BY <1>0, <1>3 DEF Respawn, SupervisorStates
<1>4. ASSUME Exit, worker' = worker, files' = files, device' = device,
             shocks' \in Nat, shocks' >= 1, enabled' = enabled,
             sup.at \in {"begin", "retire", "full"} \/ KillSupervisor
      PROVE  CalmInv'
  BY <1>0, <1>4 DEF Exit, NoSupervisor, KillSupervisor, SupervisorStates
<1>5. CASE FirstFull("begin", "retire") \/ FirstFull("full", "start")
  <2>1. CASE device = "good"
    BY <1>0, <1>5, <2>1 DEF FirstFull, Go, At, SupervisorStates
  <2>2. CASE device = "bad"
    BY <1>0, <1>4, <1>5, <2>2 DEF FirstFull, At
  <2> QED
    BY <1>0, <2>1, <2>2
<1>6. CASE Retire
  BY <1>0, <1>6 DEF Retire, At, Go, Dead, SupervisorStates
<1>7. CASE BeginRound
  <2>1. /\ At("start") /\ sup' = [sup EXCEPT !.at = "fork", !.started = 0]
        /\ files' = [files EXCEPT !.beat = 0]
        /\ UNCHANGED <<enabled, worker, device, shocks>>
    BY <1>7, Zenon DEF BeginRound
  <2> QED
    BY <1>0, <2>1 DEF At, SupervisorStates
<1>8. ASSUME NEW w \in Workers, Fork(w) PROVE CalmInv'
  BY <1>0, <1>8 DEF Fork, At, Dead, SupervisorStates
<1>9. CASE Record
  BY <1>0, <1>9 DEF Record, At, SupervisorStates
<1>10. CASE Watch \/ ReadNow
  <2>1. CASE Watch
    BY <1>0, <2>1 DEF Watch, At, SupervisorStates
  <2>2. CASE ReadNow
    <3>1. /\ sup' = [sup EXCEPT !.at = "compare"] /\ sup.at = "nap" /\ ~sup.term
          /\ UNCHANGED <<enabled, files, worker, shocks, device>>
      BY <2>2 DEF ReadNow, At, Go
    <3> QED
      BY <1>0, <3>1 DEF SupervisorStates
  <2> QED
    BY <1>10, <2>1, <2>2
<1>11. CASE Check
  BY <1>0, <1>11 DEF Check, Comparing, At, Go, SupervisorStates
<1>12. CASE NextRound
  BY <1>0, <1>12 DEF NextRound, At, Go, SupervisorStates
<1>13. CASE KillStalled
  BY <1>0, <1>13 DEF KillStalled, At, Go, Dead, SupervisorStates
<1>14. CASE GiveUp
  <2>1. /\ At("giveup")
        /\ sup' = [sup EXCEPT !.at = "rest", !.wait = Poll,
                              !.fault = IF @ = Unset THEN 0 ELSE @]
        /\ UNCHANGED <<enabled, files, worker, device, shocks>>
    BY <1>14, Zenon DEF GiveUp, history
  <2> QED
    BY <1>0, <2>1 DEF At, SupervisorStates
<1>15. CASE TrapFull
  BY <1>0, <1>15 DEF TrapFull, Trapped, SupervisorStates
<1>16. CASE TrapExit
  <2>1. sup.child \in Alive => sup.child = files.pid
    BY Times DEF ChildNamed, Alive
  <2> QED
    BY <1>0, <1>16, <2>1 DEF TrapExit, Exit, NoSupervisor, SupervisorStates
<1>17. CASE TermUntrapped \/ KillSupervisor
  BY <1>0, <1>4, <1>17 DEF TermUntrapped, KillSupervisor, Shock
<1>18. ASSUME NEW w \in Workers,
              Work(w) \/ WorkerUnstick(w) \/ KillWorker(w) \/ WorkerStick(w)
       PROVE  CalmInv'
  <2>1. /\ UNCHANGED <<enabled, sup, device>> /\ files'.pid = files.pid
        /\ shocks' \in Nat /\ shocks' >= shocks
    <3>1. CASE WorkerBeat(w)
      <4>1. /\ UNCHANGED <<enabled, sup, device, shocks>>
            /\ files' = [files EXCEPT !.beat = worker[w].age]
        BY <3>1, Zenon DEF WorkerBeat
      <4> QED
        BY <1>0, <4>1
    <3> QED
      BY <1>0, <1>18, <3>1
      DEF Work, WorkerBegin, WorkerWrite, WorkerNextCycle, WorkerTrap, WorkerUnstick,
          KillWorker, WorkerStick, Shock, history
  <2>2. \A v \in Workers : worker'[v].term => worker[v].term
    <3>1. CASE WorkerBeat(w)
      BY <3>1, BeatOnly
    <3> QED
      BY <1>0, <1>18, <3>1
      DEF Work, WorkerBegin, WorkerWrite, WorkerNextCycle, WorkerTrap, WorkerUnstick,
          KillWorker, WorkerStick, Move, Dies, Dead, WorkerStates
  <2> QED
    BY <1>0, <2>1, <2>2
<1>19. CASE BreakDevice \/ UNCHANGED vars
  BY <1>0, <1>19 DEF BreakDevice, Shock, vars, history
<1>20. CASE Tick
  <2>1. /\ sup'.at = sup.at \/ (sup.at = "compare" /\ sup'.at = "late")
        /\ sup'.term = sup.term /\ sup'.wait \in Nat
        /\ sup'.wait <= sup.wait
    BY <1>0, <1>20, LessTime DEF Tick, SupervisorStates
  <2>2. /\ files'.pid = files.pid /\ UNCHANGED <<enabled, device, shocks>>
        /\ \A w \in Workers : worker'[w].term => worker[w].term
    BY <1>0, <1>20 DEF Tick, Dead, WorkerStates
  <2> QED
    BY <1>0, <2>1, <2>2 DEF SupervisorStates
<1> QED
  BY <1>1, <1>2, <1>3, <1>5, <1>6, <1>7, <1>8, <1>9, <1>10, <1>13, <1>14, <1>15, <1>16,
     <1>17, <1>18, <1>19, <1>20, <1>11, <1>12
  DEF Next, Supervise

LEMMA LowStep == TypeOK /\ Known /\ CalmInv /\ LowInv /\ [Next]_vars => LowInv'
<1> SUFFICES ASSUME TypeOK, Known, CalmInv, LowInv, [Next]_vars PROVE LowInv'
  OBVIOUS
<1>0. /\ sup \in SupervisorStates /\ worker \in [Workers -> WorkerStates]
      /\ level \in 0..3 /\ shocks \in Nat /\ lowAge \in Nat
      /\ device \in {"good", "bad"} /\ Alive \subseteq Workers
      /\ Bound \in Nat /\ Bound >= Look /\ Poll \in Nat /\ RestartDelay \in Nat
      /\ shocks >= 1 => Bound >= Look + LongestWait
      /\ LongestWait \in Nat /\ LongestWait >= Poll + 1 /\ LongestWait >= RestartDelay
      /\ Look = Poll + 1 /\ sup.wait \in Nat
  BY Times, BoundGrows, WaitsAreNumbers, SupervisionAssumption
  DEF TypeOK, Alive, Look, SupervisorStates
(* No pause is longer than the longest wait.                               *)
<1>a. Pause \in Nat /\ (sup.at \in Idle => Pause <= LongestWait)
  BY <1>0 DEF Pause, Idle, CalmInv, Waits
(* Most steps leave the count alone and end at a place, or in a condition, *)
(* where nothing is counted.                                               *)
<1>1. ASSUME lowAge' = lowAge, shocks' = shocks \/ shocks' = shocks + 1,
             ~(Lonely' /\ sup'.at \in Idle)
      PROVE  LowInv'
  BY <1>0, <1>1, BoundGrows DEF LowInv
(* Others start from such a condition.                                     *)
<1>2. ASSUME lowAge' = lowAge, shocks' = shocks, Lonely' => Lonely,
             sup'.at \in Idle => sup.at \in Idle /\ Pause' = Pause
      PROVE  LowInv'
  BY <1>0, <1>a, <1>2, BoundGrows DEF LowInv
(* A kill pays for the wait that follows it.                               *)
<1>3. ASSUME lowAge' = lowAge, shocks' = shocks + 1, Pause' \in Nat,
             sup'.at \in Idle => Pause' <= LongestWait
      PROVE  LowInv'
  <2>1. Bound' \in Nat /\ Bound' >= Bound + LongestWait
    BY <1>0, <1>3, BoundGrows
  <2>2. PICK p : p = Pause'
    OBVIOUS
  <2>3. /\ lowAge \in Nat /\ lowAge <= Bound /\ Bound \in Nat /\ LongestWait \in Nat
        /\ lowAge' = lowAge /\ p \in Nat /\ (sup'.at \in Idle => p <= LongestWait)
    BY <1>0, <1>3, <2>2 DEF LowInv
  <2>4. lowAge' <= Bound' /\ (sup'.at \in Idle => lowAge' + p <= Bound')
    BY ONLY <2>1, <2>3
  <2> QED
    BY <2>2, <2>4 DEF LowInv, Idle
<1> USE DEF Idle
<1>4. CASE StartService
  <2>1. /\ enabled' => device = "good"
        /\ level' = IF device = "good" THEN 3 ELSE level
        /\ UNCHANGED <<device, shocks, lowAge>>
    BY <1>4, Zenon DEF StartService, Full, history
  <2> QED
    BY <1>1, <2>1 DEF Lonely
<1>5. CASE StopService
  BY <1>0, <1>1, <1>5 DEF StopService, Shock, Lonely, history
<1>6. CASE Respawn
  BY <1>0, <1>1, <1>6 DEF Respawn, SupervisorStates
<1>7. CASE FirstFull("begin", "retire") \/ FirstFull("full", "start")
  <2>1. CASE device = "good"
    BY <1>0, <1>1, <1>7, <2>1 DEF FirstFull, Go, SupervisorStates
  <2>2. CASE device = "bad"
    BY <1>0, <1>1, <1>7, <2>2 DEF FirstFull, Lonely
  <2> QED
    BY <1>0, <2>1, <2>2
<1>8. CASE Retire \/ KillStalled
  BY <1>0, <1>1, <1>8 DEF Retire, KillStalled, Go, SupervisorStates, history
<1>9. CASE BeginRound
  <2>1. sup' = [sup EXCEPT !.at = "fork", !.started = 0] /\ UNCHANGED <<lowAge, shocks>>
    BY <1>9, Zenon DEF BeginRound
  <2> QED
    BY <1>0, <1>1, <2>1 DEF SupervisorStates
<1>10. ASSUME NEW w \in Workers, Fork(w) PROVE LowInv'
  BY <1>0, <1>1, <1>10 DEF Fork, SupervisorStates
<1>11. CASE Record
  BY <1>0, <1>1, <1>11 DEF Record, SupervisorStates, history
<1>12. CASE Watch
  <2>1. CASE sup.child \in Alive
    <3>1. ~worker[sup.child].term
      BY <1>0, <1>12, <2>1 DEF Watch, At, CalmInv, Termed
    <3> QED
      BY <1>0, <1>1, <1>12, <2>1, <3>1 DEF Watch, Lonely, Alive, history
  <2>2. CASE sup.child \notin Alive
    BY <1>0, <1>1, <1>12, <2>2 DEF Watch, SupervisorStates, history
  <2> QED
    BY <2>1, <2>2
<1>25. CASE ReadNow
  <2>1. Pause' = Pause /\ sup.at \in Idle
    BY <1>0, <1>25 DEF ReadNow, At, Go, Pause, SupervisorStates
  <2>2. UNCHANGED <<lowAge, shocks>> /\ Lonely' = Lonely
    BY <1>25 DEF ReadNow, Lonely, Alive, history
  <2> QED
    BY <1>2, <2>1, <2>2
<1>13. CASE Check
  BY <1>0, <1>1, <1>13 DEF Check, Go, SupervisorStates, history
<1>14. CASE GiveUp
  <2>1. Full /\ UNCHANGED <<device, shocks, lowAge>>
    BY <1>14, Zenon DEF GiveUp, history
  <2> QED
    BY <1>0, <1>1, <2>1 DEF Full, Lonely
<1>15. CASE NextRound
  BY <1>0, <1>1, <1>15 DEF NextRound, Go, SupervisorStates, history
<1>16. CASE TrapFull
  BY <1>0, <1>1, <1>16 DEF TrapFull, SupervisorStates, history
<1>17. CASE TrapExit \/ TermUntrapped
  BY <1>0, <1>1, <1>17 DEF TrapExit, TermUntrapped, CalmInv, Stopped, Lonely
<1>18. CASE KillSupervisor
  BY <1>0, <1>3, <1>18 DEF KillSupervisor, Shock, Exit, NoSupervisor, Pause
<1>19. ASSUME NEW w \in Workers, Work(w) PROVE LowInv'
  <2>1. CASE WorkerBegin(w)
    BY <1>0, <1>1, <1>19, <2>1 DEF WorkerBegin, Full, Lonely, history
  <2>2. CASE WorkerWrite(w)
    <3>1. CASE device = "good"
      <4>1. w \in Alive' /\ ~worker'[w].term
        BY <1>0, <2>2, <3>1 DEF WorkerWrite, On, Move, Alive, WorkerStates
      <4> QED
        BY <1>1, <2>2, <4>1 DEF WorkerWrite, Lonely, history
    <3>2. CASE device = "bad"
      BY <1>1, <2>2, <3>2 DEF WorkerWrite, Lonely, history
    <3> QED
      BY <1>0, <3>1, <3>2
  <2>3. CASE WorkerBeat(w)
    <3>1. w \in Alive' /\ ~worker'[w].term
      BY <2>3, BeatOnly DEF WorkerBeat, On, Alive
    <3> QED
      BY <1>1, <2>3, <3>1 DEF WorkerBeat, Lonely
  <2>4. CASE WorkerNextCycle(w)
    <3>1. w \in Alive' /\ ~worker'[w].term
      BY <1>0, <2>4 DEF WorkerNextCycle, On, Alive, WorkerStates
    <3> QED
      BY <1>1, <2>4, <3>1 DEF WorkerNextCycle, Lonely
  <2>5. CASE WorkerTrap(w)
    <3>1. \A v \in Alive \ {w} : v \in Alive' /\ worker'[v] = worker[v]
      <4> SUFFICES ASSUME NEW v \in Workers \ {w}, v \in Alive
                   PROVE  v \in Alive' /\ worker'[v] = worker[v]
        BY <1>0
      <4>1. worker' = [worker EXCEPT ![w] = Dead]
        BY <2>5 DEF WorkerTrap, Dies
      <4>2. worker'[v] = worker[v]
        BY <1>0, <4>1
      <4> QED
        BY <4>2 DEF Alive
    <3>2. Lonely' => Lonely
      BY <1>0, <2>5, <3>1 DEF WorkerTrap, Full, Lonely
    <3> QED
      BY <1>2, <2>5, <3>2 DEF WorkerTrap, history, Pause
  <2> QED
    BY <1>19, <2>1, <2>2, <2>3, <2>4, <2>5 DEF Work
<1>20. ASSUME NEW w \in Workers, WorkerUnstick(w) PROVE LowInv'
  <2>1. /\ \A v \in Alive : v \in Alive' /\ worker'[v].term = worker[v].term
        /\ UNCHANGED <<sup, enabled, device, level, shocks, lowAge>>
    BY <1>0, <1>20 DEF WorkerUnstick, Move, Alive, WorkerStates, history
  <2>2. Lonely' => Lonely
    BY <2>1 DEF Lonely
  <2> QED
    BY <1>2, <2>1, <2>2 DEF Pause
<1>21. ASSUME NEW w \in Workers, KillWorker(w) \/ WorkerStick(w) PROVE LowInv'
  <2>1. UNCHANGED <<sup, lowAge>> /\ shocks' = shocks + 1
    BY <1>21 DEF KillWorker, WorkerStick, Shock, history
  <2>2. Pause' = Pause
    BY <2>1 DEF Pause
  <2> QED
    BY <1>a, <1>3, <2>1, <2>2
<1>22. CASE BreakDevice
  BY <1>0, <1>1, <1>22 DEF BreakDevice, Shock, Lonely, history
<1>23. CASE UNCHANGED vars
  BY <1>0, <1>2, <1>23 DEF Lonely, Alive, Pause, vars, history
<1>24. CASE Tick
  <2>1. /\ sup'.at = (IF sup.at = "compare" THEN "late" ELSE sup.at)
        /\ sup'.wait = Less(sup.wait)
        /\ Less(sup.wait) <= sup.wait /\ Less(sup.wait) \in Nat
        /\ UNCHANGED <<enabled, level, device, shocks>> /\ Bound' = Bound
    BY <1>0, <1>24, LessTime, BoundGrows DEF Tick, SupervisorStates
  <2>2. CASE Lonely /\ Alive = {}
    <3>1. lowAge' <= lowAge + 1 /\ lowAge' \in Nat
      <4>1. lowAge' = Older(lowAge, LowCap)
        BY <1>24, <2>2 DEF Tick, Lonely
      <4> QED
        BY <1>0, <4>1, OlderAge, CapsAreNumbers
    <3>2. \/ sup.at \in {"nap", "rest", "down"} /\ sup.wait > 0
          \/ sup.at = "compare"
      BY <1>0, <1>24, <2>1, <2>2 DEF Tick, NobodyDue, Lonely
    <3>3. Pause' = Pause - 1 /\ Pause >= 1
      BY <1>0, <2>1, <3>2 DEF Less, Pause
    <3>4. lowAge + Pause <= Bound
      BY <1>0, <2>2, <3>2 DEF LowInv
    <3>5. PICK p : p = Pause'
      OBVIOUS
    <3>6. lowAge \in Nat /\ Bound \in Nat /\ p \in Nat /\ Pause = p + 1
      BY <1>0, <1>a, <3>3, <3>5
    <3>7. lowAge + (p + 1) <= Bound
      BY <3>4, <3>6
    <3>8. lowAge' + p <= Bound /\ lowAge' <= Bound
      <4>1. ASSUME NEW b \in Nat, NEW l \in Nat, NEW n \in Nat, NEW q \in Nat,
                   n <= l + 1, l + (q + 1) <= b
            PROVE  n + q <= b /\ n <= b
        BY ONLY <4>1
      <4> QED
        BY <3>1, <3>6, <3>7, <4>1
    <3> QED
      BY <2>1, <3>5, <3>8 DEF LowInv
  <2>3. CASE ~(Lonely /\ Alive = {})
    <3>1. lowAge' = 0
      BY <1>24, <2>3 DEF Tick, Lonely
    <3>2. PICK p : p = Pause'
      OBVIOUS
    <3>3. p \in Nat /\ (sup'.at \in Idle => p <= Bound)
      BY <1>0, <2>1, <3>2 DEF CalmInv, Waits, Shocked, Pause
    <3>4. lowAge' + p = p /\ lowAge' <= Bound
      BY <1>0, <3>1, <3>3
    <3> QED
      BY <2>1, <3>2, <3>3, <3>4 DEF LowInv
  <2> QED
    BY <2>2, <2>3
<1> QED
  BY <1>4, <1>5, <1>6, <1>7, <1>8, <1>9, <1>10, <1>11, <1>12, <1>13, <1>14, <1>15, <1>16,
     <1>17, <1>18, <1>19, <1>20, <1>21, <1>22, <1>23, <1>24, <1>25
  DEF Next, Supervise

(* However many kills and deaths there are, each lengthens the time below  *)
(* full with nobody there by one wait at most.                             *)
THEOREM SupervisionLowIsShortLived == Spec => []LowIsShortLived
<1>1. TypeOK /\ PidInv /\ CalmInv /\ LowInv /\ [Next]_vars
        => (TypeOK /\ PidInv /\ CalmInv /\ LowInv)'
  <2>1. PidInv => ChildNamed /\ Known
    BY DEF PidInv
  <2> QED
    BY <2>1, TypeStep, PidStep, CalmStep, LowStep
<1>2. LowInv => LowIsShortLived
  BY DEF LowInv, LowIsShortLived, Bound
<1> QED
  BY <1>1, <1>2, TypeInit, PidInit, LowInit, PTL DEF Spec

-----------------------------------------------------------------------------
(* What a stop leaves behind.                                              *)

(* Before anything happens no supervisor has ended, and worker.pid names   *)
(* the child; after a stop and nothing else the traps are all that runs,   *)
(* every worker gets its TERM but one that is not the child yet, and while *)
(* some worker can still lower the level a trap is yet to come.            *)
BeforeShocks == shocks = 0 =>
    /\ \A w \in Workers : ~worker[w].term
    /\ sup.child = files.pid
    /\ sup.at \in {"down", "begin", "retire", "full"} => Alive = {}
    /\ ~enabled => sup.at = "down"
AfterStop == shocks = 1 /\ ~enabled =>
    /\ sup.at # "down" => sup.term /\ sup.child = files.pid
    /\ sup.at = "down" => \A w \in Alive : worker[w].term \/ w \in unrecorded
    /\ sup.at \in {"begin", "retire", "full"} => Alive = {} /\ level = 3
    /\ sup.at = "quit" /\ (\A w \in Alive : worker[w].at = "born") => level = 3
    /\ sup.at = "down" /\ (\A w \in Alive : worker[w].at = "born" /\ worker[w].term)
          => level = 3
StopInv == device = "good" => BeforeShocks /\ AfterStop

LEMMA StopInit == Init => StopInv
BY DEF Init, NoSupervisor, StopInv, BeforeShocks, AfterStop, Alive, Dead

LEMMA StopStep == TypeOK /\ PidInv /\ CalmInv /\ StopInv /\ [Next]_vars => StopInv'
<1> SUFFICES ASSUME TypeOK, PidInv, CalmInv, StopInv, [Next]_vars, device' = "good"
             PROVE  StopInv'
  BY DEF StopInv
<1>0. /\ sup \in SupervisorStates /\ worker \in [Workers -> WorkerStates]
      /\ files \in [pid : Workers \cup {NoWorker}, beat : Nat]
      /\ shocks \in Nat /\ Alive \subseteq Workers /\ device \in {"good", "bad"}
      /\ enabled \in BOOLEAN
  BY DEF TypeOK, Alive
<1>1. device = "good"
  <2>1. device # "good" => device' = device
    BY DEF Next, Supervise, Work, vars, StartService, StopService, Respawn, FirstFull, Retire,
           BeginRound, Fork, Record, Watch, ReadNow, Check, KillStalled, GiveUp, NextRound,
           TrapFull, TrapExit, TermUntrapped, WorkerBegin, WorkerWrite, WorkerBeat, WorkerNextCycle,
           WorkerTrap, WorkerUnstick, KillSupervisor, KillWorker, WorkerStick, BreakDevice,
           Tick
  <2> QED
    BY <1>0, <2>1
<1>2. BeforeShocks /\ AfterStop
  BY <1>1 DEF StopInv
<1>3. SUFFICES BeforeShocks' /\ AfterStop'
  BY DEF StopInv
(* A second shock ends the argument, and so does a service that is         *)
(* enabled, once anything has happened.                                    *)
<1>4. ASSUME shocks' > 1 \/ (shocks' = 1 /\ enabled') PROVE BeforeShocks' /\ AfterStop'
  BY <1>4 DEF BeforeShocks, AfterStop
<1>5. CASE StartService
  <2>1. /\ enabled' /\ sup' = [sup EXCEPT !.wait = 0] /\ sup.at = "down"
        /\ UNCHANGED <<worker, files, shocks>>
    BY <1>1, <1>5, Zenon DEF StartService
  <2>2. Alive' = Alive
    BY <2>1 DEF Alive
  <2> QED
    BY <1>0, <1>2, <2>1, <2>2 DEF BeforeShocks, AfterStop, SupervisorStates
<1>6. CASE StopService
  <2>1. /\ ~enabled' /\ level' = 3 /\ UNCHANGED <<worker, files>> /\ shocks' = shocks + 1
        /\ enabled /\ sup'.at = sup.at /\ sup'.child = sup.child
        /\ sup.at # "down" => sup'.term
    BY <1>0, <1>1, <1>6 DEF StopService, Full, Shock, SupervisorStates
  <2>2. Alive' = Alive
    BY <2>1 DEF Alive
  <2> QED
    BY <1>0, <1>2, <1>4, <2>1, <2>2 DEF BeforeShocks, AfterStop
<1>7. CASE Respawn
  <2>1. Alive' = Alive
    BY <1>7 DEF Respawn, Alive
  <2> QED
    BY <1>0, <1>2, <1>7, <2>1 DEF BeforeShocks, AfterStop, Respawn, SupervisorStates
(* The supervisor takes no step without a signal once it was TERMed.       *)
<1>8. ASSUME ~sup.term, shocks' = shocks, enabled' = enabled, sup.at # "down",
             sup'.at # "down",
             sup'.child = files'.pid \/ (sup'.child = sup.child /\ files'.pid = files.pid),
             \A w \in Workers : worker'[w].term => worker[w].term,
             sup'.at \in {"begin", "retire", "full"} =>
                 sup.at \in {"begin", "retire", "full"} /\ Alive' = Alive
      PROVE  BeforeShocks' /\ AfterStop'
  BY <1>0, <1>2, <1>8 DEF BeforeShocks, AfterStop
<1>9. CASE FirstFull("begin", "retire") \/ FirstFull("full", "start")
  <2>1. Alive' = Alive
    BY <1>9 DEF FirstFull, Alive
  <2> QED
    BY <1>0, <1>1, <1>8, <1>9, <2>1 DEF FirstFull, Go, At, SupervisorStates
<1>10. CASE Retire
  <2>1. \A w \in Workers : worker'[w] \in {Dead, worker[w]}
    BY <1>0, <1>10 DEF Retire
  <2>2. Alive = {} => Alive' = {}
    BY <2>1 DEF Alive, Dead
  <2>3. /\ sup.at = "retire" /\ sup'.at = "full" /\ ~sup.term
        /\ sup'.child = sup.child /\ UNCHANGED <<files, shocks, enabled>>
    BY <1>0, <1>10 DEF Retire, At, Go, SupervisorStates
  <2> QED
    BY <1>0, <1>2, <2>1, <2>2, <2>3 DEF BeforeShocks, AfterStop, Dead
<1>11. CASE BeginRound
  <2>1. /\ At("start") /\ sup' = [sup EXCEPT !.at = "fork", !.started = 0]
        /\ files' = [files EXCEPT !.beat = 0] /\ UNCHANGED <<worker, shocks, enabled>>
    BY <1>11, Zenon DEF BeginRound
  <2> QED
    BY <1>0, <1>8, <2>1 DEF At, SupervisorStates
<1>12. ASSUME NEW w \in Workers, Fork(w) PROVE BeforeShocks' /\ AfterStop'
  BY <1>0, <1>8, <1>12 DEF Fork, At, Dead, SupervisorStates
<1>13. CASE Record \/ Watch \/ ReadNow
  BY <1>0, <1>8, <1>13 DEF Record, Watch, ReadNow, At, Go, SupervisorStates
<1>14. CASE Check
  <2>1. /\ ~sup.term /\ sup.at \in {"compare", "late"} /\ sup'.at \in {"kill", "watch"}
        /\ sup'.child = sup.child /\ UNCHANGED <<worker, files, shocks, enabled>>
    BY <1>0, <1>14 DEF Check, Comparing, At, Go, SupervisorStates
  <2> QED
    BY <1>8, <2>1
<1>15. CASE KillStalled
  BY <1>0, <1>8, <1>15 DEF KillStalled, At, Go, Dead, SupervisorStates
<1>16. CASE GiveUp
  <2>1. /\ At("giveup")
        /\ sup' = [sup EXCEPT !.at = "rest", !.wait = Poll,
                              !.fault = IF @ = Unset THEN 0 ELSE @]
        /\ UNCHANGED <<worker, files, shocks, enabled>>
    BY <1>16, Zenon DEF GiveUp
  <2> QED
    BY <1>0, <1>8, <2>1 DEF At, SupervisorStates
<1>17. CASE NextRound
  BY <1>0, <1>8, <1>17 DEF NextRound, At, Go, SupervisorStates
<1>18. CASE TrapFull
  <2>1. /\ sup.term /\ sup'.term /\ sup'.at = "quit" /\ level' = 3 /\ sup.at # "down"
        /\ sup'.child = sup.child /\ UNCHANGED <<worker, files, shocks, enabled>>
    BY <1>0, <1>1, <1>18 DEF TrapFull, Trapped, Full, SupervisorStates
  <2> QED
    BY <1>0, <1>2, <2>1 DEF BeforeShocks, AfterStop, CalmInv, Stopped
<1>19. CASE TrapExit
  <2>1. /\ sup.at = "quit" /\ sup.term /\ sup'.at = "down" /\ shocks >= 1
        /\ UNCHANGED <<level, shocks, enabled>>
    BY <1>0, <1>19 DEF TrapExit, Exit, NoSupervisor, CalmInv, Stopped, SupervisorStates
  <2>2. \A w \in Workers : worker'[w].at = worker[w].at
    BY <1>0, <1>19 DEF TrapExit, WorkerStates
  <2>3. Alive' = Alive
    BY <2>2 DEF Alive
  <2>4. ASSUME shocks' = 1, ~enabled', NEW w \in Alive'
        PROVE  worker'[w].term \/ w \in unrecorded'
    <3>1. sup.child = files.pid
      BY <1>2, <2>1, <2>4 DEF AfterStop
    <3>2. unrecorded' = unrecorded \cup ({sup.forked} \ {files.pid, NoWorker})
      BY <1>19 DEF TrapExit, Exit
    <3>3. CASE w = files.pid
      <4>1. worker' = [worker EXCEPT ![w].term = TRUE]
        BY <1>19, <2>3, <2>4, <3>1, <3>3 DEF TrapExit
      <4> QED
        BY <1>0, <2>3, <2>4, <4>1 DEF WorkerStates
    <3>4. CASE w # files.pid
      <4>1. w \in unrecorded \/ w = sup.forked
        BY <2>3, <2>4, <3>4 DEF PidInv, Orphans
      <4>2. w # NoWorker
        BY <1>0, <2>3, <2>4, Times
      <4> QED
        BY <3>2, <3>4, <4>1, <4>2
    <3> QED
      BY <3>3, <3>4
  <2> QED
    BY <1>0, <1>2, <2>1, <2>2, <2>3, <2>4 DEF BeforeShocks, AfterStop
<1>20. CASE TermUntrapped
  <2>1. /\ sup.at \in {"begin", "retire", "full"} /\ sup.term /\ sup'.at = "down" /\ shocks >= 1
        /\ UNCHANGED <<level, worker, shocks, enabled>>
    BY <1>0, <1>20 DEF TermUntrapped, Exit, NoSupervisor, CalmInv, Stopped, SupervisorStates
  <2>2. Alive' = Alive
    BY <2>1 DEF Alive
  <2> QED
    BY <1>0, <1>2, <2>1, <2>2 DEF BeforeShocks, AfterStop
<1>21. CASE KillSupervisor
  <2>1. sup.at # "down" /\ shocks' = shocks + 1 /\ enabled' = enabled
    BY <1>21 DEF KillSupervisor, Shock
  <2> QED
    BY <1>0, <1>2, <1>4, <2>1 DEF BeforeShocks
<1>22. ASSUME NEW w \in Workers, KillWorker(w) \/ WorkerStick(w)
       PROVE  BeforeShocks' /\ AfterStop'
  <2>1. w \in Alive /\ shocks' = shocks + 1 /\ enabled' = enabled
    BY <1>22 DEF KillWorker, WorkerStick, Shock, Alive
  <2> QED
    BY <1>0, <1>2, <1>4, <2>1 DEF BeforeShocks
(* A worker's own steps.                                                   *)
<1>23. ASSUME NEW w \in Alive, UNCHANGED <<sup, enabled, shocks, unrecorded>>,
              files'.pid = files.pid,
              \A v \in Workers \ {w} : worker'[v] = worker[v],
              worker'[w].at # "dead" => worker'[w].term = worker[w].term,
              worker'[w].term => worker[w].term,
              worker[w].term => \/ worker[w].at # "born" /\ level' = 3
                                \/ worker[w].at = "born" /\ level' = level
                                \/ worker'[w].at \notin {"dead", "born"},
              ~worker[w].term => worker'[w].at \notin {"dead", "born"}
       PROVE  BeforeShocks' /\ AfterStop'
  <2>1. \A v \in Alive \ {w} : v \in Alive' /\ worker'[v] = worker[v]
    BY <1>0, <1>23 DEF Alive
  <2>2. Alive' \subseteq Alive /\ (worker'[w].at # "dead" => w \in Alive')
    BY <1>0, <1>23 DEF Alive
  <2>3. BeforeShocks'
    BY <1>0, <1>2, <1>23, <2>2 DEF BeforeShocks
  <2>6. \A v \in Alive' : worker'[v].term = worker[v].term
    BY <1>0, <1>23, <2>1, <2>2 DEF Alive
  <2>4. CASE worker'[w].at \notin {"dead", "born"}
    BY <1>0, <1>2, <1>23, <2>2, <2>3, <2>4, <2>6 DEF AfterStop
  <2>5. CASE worker'[w].at \in {"dead", "born"}
    <3>1. worker[w].term /\ sup.at \in {"down", "begin", "retire"}
      BY <1>0, <1>23, <2>5 DEF CalmInv, Termed
    <3> QED
      BY <1>0, <1>2, <1>23, <2>1, <2>2, <2>3, <2>5, <2>6, <3>1 DEF AfterStop
  <2> QED
    BY <2>4, <2>5
<1>24. ASSUME NEW w \in Workers, Work(w) \/ WorkerUnstick(w)
       PROVE  BeforeShocks' /\ AfterStop'
  <2>1. CASE WorkerBegin(w)
    BY <1>0, <1>1, <1>23, <2>1 DEF WorkerBegin, On, Alive, WorkerStates, history
  <2>2. CASE WorkerWrite(w)
    BY <1>0, <1>1, <1>23, <2>2 DEF WorkerWrite, On, Move, Alive, WorkerStates, history
  <2>3. CASE WorkerBeat(w)
    <3>1. /\ files' = [files EXCEPT !.beat = worker[w].age]
          /\ UNCHANGED <<sup, enabled, shocks, unrecorded>> /\ w \in Alive
          /\ worker[w].at = "wrote" /\ ~worker[w].term
      BY <2>3, Zenon DEF WorkerBeat, On, Alive
    <3> QED
      BY <1>0, <1>23, <2>3, <3>1, BeatOnly
  <2>4. CASE WorkerNextCycle(w)
    BY <1>0, <1>23, <2>4 DEF WorkerNextCycle, On, Alive, WorkerStates
  <2>5. CASE WorkerTrap(w)
    BY <1>0, <1>1, <1>23, <2>5 DEF WorkerTrap, Full, Dies, Dead, Alive, history
  <2>6. CASE WorkerUnstick(w)
    BY <1>0, <1>23, <2>6 DEF WorkerUnstick, Move, Alive, WorkerStates, history
  <2> QED
    BY <1>24, <2>1, <2>2, <2>3, <2>4, <2>5, <2>6 DEF Work
<1>25. CASE Tick
  <2>1. \A w \in Workers : /\ worker'[w].at = worker[w].at
                           /\ worker'[w].term => worker[w].term
                           /\ w \in Alive => worker'[w].term = worker[w].term
    BY <1>0, <1>25 DEF Tick, Alive, Dead, WorkerStates
  <2>2. Alive' = Alive
    BY <2>1 DEF Alive
  <2>3. /\ sup'.at = sup.at \/ (sup.at = "compare" /\ sup'.at = "late")
        /\ sup'.term = sup.term /\ sup'.child = sup.child /\ files'.pid = files.pid
        /\ UNCHANGED <<level, enabled, shocks, unrecorded>>
    BY <1>0, <1>25 DEF Tick, SupervisorStates
  <2> QED
    BY <1>0, <1>2, <2>1, <2>2, <2>3 DEF BeforeShocks, AfterStop
<1>26. CASE BreakDevice \/ UNCHANGED vars
  <2>1. UNCHANGED vars
    BY <1>26 DEF BreakDevice
  <2> QED
    BY <1>2, <2>1 DEF BeforeShocks, AfterStop, Alive, vars, history
<1> QED
  BY <1>5, <1>6, <1>7, <1>9, <1>10, <1>11, <1>12, <1>13, <1>14, <1>16, <1>17, <1>18, <1>19,
     <1>20, <1>21, <1>22, <1>24, <1>25, <1>26, <1>15
  DEF Next, Supervise

(* A stop that nothing disturbs reaches every worker that worker.pid names *)
(* and leaves the fan at full once no worker is left; a worker it found    *)
(* forked and not yet recorded lives on.                                   *)
THEOREM SupervisionStopLeavesFull == Spec => []StopLeavesFull
<1>1. TypeOK /\ PidInv /\ CalmInv /\ StopInv /\ [Next]_vars
        => (TypeOK /\ PidInv /\ CalmInv /\ StopInv)'
  <2>1. PidInv => ChildNamed
    BY DEF PidInv
  <2> QED
    BY <2>1, TypeStep, PidStep, CalmStep, StopStep
<1>2. TypeOK /\ StopInv => StopLeavesFull
  BY DEF StopInv, AfterStop, StopLeavesFull
<1> QED
  BY <1>1, <1>2, TypeInit, PidInit, LowInit, StopInit, PTL DEF Spec

-----------------------------------------------------------------------------
(* Who is killed for a stall.                                              *)

(* While two cycles as long as this one and the sleep between them fit in  *)
(* Stall, the heartbeat is no older than half of Stall and the sleep       *)
(* leave, and this cycle.                                                  *)
WellTimed(w) ==
    /\ worker[w].at # "stuck"
    /\ worker[w].at \in {"born", "work", "wrote"} =>
          /\ 2 * worker[w].age + Nap <= Stall
          /\ 2 * files.beat <= Stall + Nap + 2 * worker[w].age
    /\ worker[w].at = "born" => files.beat <= worker[w].age
    /\ worker[w].at = "sleep" => 2 * (files.beat + worker[w].left) <= Stall + Nap

(* Without trouble there is one worker at most, made with an empty         *)
(* heartbeat, and it is well timed.                                        *)
HealthInv ==
    /\ ~troubled => /\ \A v, w \in Alive : v = w
                    /\ \A w \in Alive : WellTimed(w)
                    /\ sup.at = "fork" => Alive = {} /\ files.beat = 0

LEMMA HealthInit == Init => HealthInv
BY DEF Init, NoSupervisor, HealthInv, Alive, Dead

LEMMA HealthStep == TypeOK /\ HealthInv /\ [Next]_vars => HealthInv'
<1> SUFFICES ASSUME TypeOK, HealthInv, [Next]_vars PROVE HealthInv'
  OBVIOUS
<1>0. /\ sup \in SupervisorStates /\ worker \in [Workers -> WorkerStates]
      /\ files \in [pid : Workers \cup {NoWorker}, beat : Nat] /\ troubled \in BOOLEAN
      /\ Alive \subseteq Workers
      /\ Nap \in Nat /\ Stall \in Nat /\ Nap <= Stall
  BY Times DEF TypeOK, Alive
<1>1. ASSUME NEW w \in Workers, Fork(w) PROVE HealthInv'
  <2>1. /\ sup.at = "fork" /\ sup'.at = "record" /\ UNCHANGED <<troubled, files>>
        /\ worker'[w] = [Dead EXCEPT !.at = "born"]
        /\ \A v \in Workers \ {w} : worker'[v] = worker[v]
    BY <1>0, <1>1 DEF Fork, At, SupervisorStates
  <2>2. ~troubled => Alive' = {w}
    BY <1>0, <2>1 DEF HealthInv, Alive, Dead
  <2>3. ~troubled => WellTimed(w)'
    BY <1>0, <2>1 DEF HealthInv, WellTimed, Dead
  <2> QED
    BY <2>1, <2>2, <2>3 DEF HealthInv
<1> SUFFICES ASSUME Alive' \subseteq Alive PROVE HealthInv'
  BY <1>1, OnlyForkMakes
(* What most steps leave alone.                                            *)
<1>2. ASSUME troubled' = troubled, files'.beat = files.beat,
             \A w \in Alive' : WellTimed(w) => WellTimed(w)',
             sup'.at = "fork" => sup.at = "fork"
      PROVE  HealthInv'
  BY <1>0, <1>2 DEF HealthInv
<1>3. ASSUME worker' = worker, files'.beat = files.beat, NEW w \in Workers, WellTimed(w)
      PROVE  WellTimed(w)'
  BY <1>3 DEF WellTimed
<1>4. CASE StartService
  <2>1. sup' = [sup EXCEPT !.wait = 0] /\ UNCHANGED <<worker, files, troubled>>
    BY <1>4, Zenon DEF StartService, history
  <2> QED
    BY <1>0, <1>2, <1>3, <2>1 DEF SupervisorStates
<1>5. CASE StopService
  <2>1. sup'.at = sup.at /\ UNCHANGED <<worker, files, troubled>>
    BY <1>0, <1>5 DEF StopService, SupervisorStates, history
  <2> QED
    BY <1>0, <1>2, <1>3, <2>1
<1>6. CASE Respawn
  BY <1>0, <1>2, <1>3, <1>6 DEF Respawn, SupervisorStates
<1>7. CASE FirstFull("begin", "retire") \/ FirstFull("full", "start")
  <2>1. sup'.at # "fork" /\ UNCHANGED <<worker, files, troubled>>
    BY <1>0, <1>7 DEF FirstFull, Exit, NoSupervisor, Go, SupervisorStates
  <2> QED
    BY <1>0, <1>2, <1>3, <2>1
<1>8. CASE Retire
  <2>1. /\ sup'.at = "full" /\ UNCHANGED <<files, troubled>>
        /\ \A w \in Workers : worker'[w] \in {Dead, worker[w]}
    BY <1>0, <1>8 DEF Retire, Go, SupervisorStates, history
  <2>2. \A w \in Alive' : WellTimed(w) => WellTimed(w)'
    BY <1>0, <2>1 DEF WellTimed, Alive, Dead
  <2> QED
    BY <1>2, <2>1, <2>2
<1>9. CASE BeginRound
  <2>1. /\ sup' = [sup EXCEPT !.at = "fork", !.started = 0]
        /\ files' = [files EXCEPT !.beat = 0] /\ UNCHANGED worker
    BY <1>9, Zenon DEF BeginRound
  <2>2. ~troubled' => Alive = {}
    BY <1>9, Zenon DEF BeginRound
  <2> QED
    BY <1>0, <2>1, <2>2 DEF HealthInv, SupervisorStates
<1>10. CASE Record
  BY <1>0, <1>2, <1>3, <1>10 DEF Record, SupervisorStates, history
<1>11. CASE Watch \/ ReadNow
  <2>1. sup'.at # "fork" /\ UNCHANGED <<worker, files, troubled>>
    BY <1>0, <1>11 DEF Watch, ReadNow, Go, SupervisorStates, history
  <2> QED
    BY <1>0, <1>2, <1>3, <2>1
<1>12. CASE Check
  <2>1. UNCHANGED <<worker, files, troubled>> /\ sup'.at \in {"kill", "watch"}
    BY <1>0, <1>12 DEF Check, Go, SupervisorStates, history
  <2> QED
    BY <1>0, <1>2, <1>3, <2>1
<1>13. CASE KillStalled
  <2>1. /\ sup'.at = "giveup" /\ UNCHANGED <<files, troubled>>
        /\ \A w \in Workers : worker'[w] \in {Dead, worker[w]}
    BY <1>0, <1>13 DEF KillStalled, Go, SupervisorStates, history
  <2>2. \A w \in Alive' : WellTimed(w) => WellTimed(w)'
    BY <1>0, <2>1 DEF WellTimed, Alive, Dead
  <2> QED
    BY <1>2, <2>1, <2>2
<1>14. CASE GiveUp
  <2>1. /\ sup' = [sup EXCEPT !.at = "rest", !.wait = Poll,
                              !.fault = IF @ = Unset THEN 0 ELSE @]
        /\ UNCHANGED <<worker, files, troubled>>
    BY <1>14, Zenon DEF GiveUp, history
  <2> QED
    BY <1>0, <1>2, <1>3, <2>1 DEF SupervisorStates
<1>15. CASE NextRound \/ TrapFull
  <2>1. sup'.at # "fork" /\ UNCHANGED <<worker, files, troubled>>
    BY <1>0, <1>15 DEF NextRound, TrapFull, Go, SupervisorStates, history
  <2> QED
    BY <1>0, <1>2, <1>3, <2>1
<1>16. CASE TrapExit \/ TermUntrapped \/ KillSupervisor
  <2>1. sup'.at = "down" /\ UNCHANGED <<files, troubled>>
    BY <1>0, <1>16 DEF TrapExit, TermUntrapped, KillSupervisor, Exit, NoSupervisor
  <2>2. \A w \in Workers : /\ worker'[w].at = worker[w].at
                           /\ worker'[w].age = worker[w].age
                           /\ worker'[w].left = worker[w].left
    BY <1>0, <1>16 DEF TrapExit, TermUntrapped, KillSupervisor, WorkerStates
  <2>3. \A w \in Alive' : WellTimed(w) => WellTimed(w)'
    BY <1>0, <2>1, <2>2 DEF WellTimed
  <2> QED
    BY <1>2, <2>1, <2>3
<1>17. ASSUME NEW w \in Workers, Work(w) PROVE HealthInv'
  <2>1. CASE WorkerBeat(w)
    <3>1. /\ files' = [files EXCEPT !.beat = worker[w].age]
          /\ w \in Alive /\ worker[w].at = "wrote" /\ UNCHANGED <<sup, troubled>>
      BY <2>1, Zenon DEF WorkerBeat, On, Alive
    <3>2. ASSUME ~troubled PROVE WellTimed(w)'
      <4>1. 2 * worker[w].age + Nap <= Stall /\ worker[w].age \in Nat
        BY <1>0, <3>1, <3>2 DEF HealthInv, WellTimed, WorkerStates
      <4>2. /\ worker'[w].at = "sleep" /\ worker'[w].left = Nap
            /\ files'.beat = worker[w].age
        BY <1>0, <2>1, <3>1, BeatOnly
      <4> QED
        BY <1>0, <4>1, <4>2 DEF WellTimed
    <3>3. sup.at = "fork" => troubled
      BY <3>1 DEF HealthInv
    <3> QED
      BY <1>0, <3>1, <3>2, <3>3 DEF HealthInv
  <2>2. CASE WorkerWrite(w)
    <3>1. /\ worker'[w] = Dead \/ /\ worker'[w].at = "wrote"
                                  /\ worker'[w].age = worker[w].age
                                  /\ worker[w].at = "work"
          /\ \A v \in Workers \ {w} : worker'[v] = worker[v]
          /\ UNCHANGED <<sup, files, troubled>>
      BY <1>0, <2>2 DEF WorkerWrite, On, Move, Dies, WorkerStates, history
    <3>2. \A v \in Alive' : WellTimed(v) => WellTimed(v)'
      BY <1>0, <3>1 DEF WellTimed, Alive, Dead
    <3> QED
      BY <1>2, <3>1, <3>2
  <2>5. CASE WorkerBegin(w)
    <3>1. /\ worker'[w] = Dead \/ /\ worker'[w].at = "work" /\ worker'[w].age = 0
                                  /\ worker[w].at = "born"
          /\ \A v \in Workers \ {w} : worker'[v] = worker[v]
          /\ UNCHANGED <<sup, files, troubled>>
      BY <1>0, <2>5 DEF WorkerBegin, On, Dies, WorkerStates, history
    <3>2. \A v \in Alive' : WellTimed(v) => WellTimed(v)'
      BY <1>0, <3>1 DEF WellTimed, Alive, Dead, WorkerStates
    <3> QED
      BY <1>2, <3>1, <3>2
  <2>3. CASE WorkerNextCycle(w)
    <3>1. /\ worker[w].at = "sleep" /\ worker[w].left = 0
          /\ worker'[w].at = "work" /\ worker'[w].age = 0
          /\ \A v \in Workers \ {w} : worker'[v] = worker[v]
          /\ UNCHANGED <<sup, files, troubled>>
      BY <1>0, <2>3 DEF WorkerNextCycle, On, WorkerStates
    <3>2. \A v \in Alive' : WellTimed(v) => WellTimed(v)'
      BY <1>0, <3>1 DEF WellTimed
    <3> QED
      BY <1>2, <3>1, <3>2
  <2>4. CASE WorkerTrap(w)
    <3>1. /\ worker'[w] = Dead /\ UNCHANGED <<sup, files, troubled>>
          /\ \A v \in Workers \ {w} : worker'[v] = worker[v]
      BY <1>0, <2>4 DEF WorkerTrap, Dies, history
    <3>2. \A v \in Alive' : WellTimed(v) => WellTimed(v)'
      BY <1>0, <3>1 DEF WellTimed, Alive, Dead
    <3> QED
      BY <1>2, <3>1, <3>2
  <2> QED
    BY <1>17, <2>1, <2>2, <2>3, <2>4, <2>5 DEF Work
<1>18. ASSUME NEW w \in Workers, WorkerUnstick(w) PROVE HealthInv'
  <2>1. w \in Alive /\ worker[w].at = "stuck" /\ UNCHANGED <<sup, troubled>>
    BY <1>18 DEF WorkerUnstick, Alive, history
  <2>2. troubled
    BY <2>1 DEF HealthInv, WellTimed
  <2> QED
    BY <1>0, <2>1, <2>2 DEF HealthInv
<1>19. ASSUME NEW w \in Workers, WorkerStick(w) PROVE HealthInv'
  BY <1>19 DEF WorkerStick, HealthInv
<1>20. ASSUME NEW w \in Workers, KillWorker(w) PROVE HealthInv'
  <2>1. /\ worker'[w] = Dead /\ UNCHANGED <<sup, files, troubled>>
        /\ \A v \in Workers \ {w} : worker'[v] = worker[v]
    BY <1>0, <1>20 DEF KillWorker, Dies, history
  <2>2. \A v \in Alive' : WellTimed(v) => WellTimed(v)'
    BY <1>0, <2>1 DEF WellTimed, Alive, Dead
  <2> QED
    BY <1>2, <2>1, <2>2
<1>21. CASE BreakDevice \/ UNCHANGED vars
  <2>1. UNCHANGED <<worker, files, troubled, sup>>
    BY <1>21 DEF BreakDevice, vars, history
  <2> QED
    BY <1>0, <1>2, <1>3, <2>1
<1>22. CASE Tick
  <2>1. /\ sup'.at # "fork" /\ troubled' = (troubled \/ \E w \in Workers : Slow(w))
        /\ files'.beat = Older(files.beat, AgeCap)
    BY <1>0, <1>22 DEF Tick, NobodyDue, SupervisorStates
  <2>2. files'.beat \in Nat /\ files'.beat <= files.beat + 1
    BY <1>0, <2>1, OlderAge, CapsAreNumbers
  <2>3. ASSUME NEW w \in Alive, WellTimed(w), ~Slow(w) PROVE WellTimed(w)'
    <3>0. worker[w] \in WorkerStates /\ worker[w].at # "dead" /\ worker[w].at # "stuck"
      BY <1>0, <2>3 DEF Alive, WellTimed
    <3>1. worker'[w] = [worker[w] EXCEPT
                          !.age = IF worker[w].at = "sleep" THEN 0 ELSE Older(@, AgeCap),
                          !.left = Less(@)]
      BY <1>0, <1>22 DEF Tick
    <3>2. CASE worker[w].at = "sleep"
      <4>1. worker[w].left > 0 /\ worker[w].left \in Nat
        BY <1>0, <1>22, <3>0, <3>2 DEF Tick, NobodyDue, WorkerStates
      <4>2. worker'[w].at = "sleep" /\ worker'[w].left = worker[w].left - 1
        BY <3>0, <3>1, <3>2, <4>1 DEF Less, WorkerStates
      <4> QED
        BY <1>0, <2>2, <2>3, <3>2, <4>1, <4>2 DEF WellTimed
    <3>3. CASE worker[w].at \in {"born", "work", "wrote"}
      <4>1. 2 * (worker[w].age + 1) + Nap <= Stall /\ worker[w].age \in Nat
        BY <1>0, <2>3, <3>0, <3>3 DEF Slow, WorkerStates
      <4>2. Older(worker[w].age, AgeCap) = worker[w].age + 1
        BY <1>0, <4>1 DEF Older, Unset, AgeCap
      <4>3. worker'[w].at = worker[w].at /\ worker'[w].age = worker[w].age + 1
        BY <3>0, <3>1, <3>3, <4>2 DEF WorkerStates
      <4> QED
        BY <1>0, <2>2, <2>3, <3>3, <4>1, <4>3 DEF WellTimed
    <3> QED
      BY <3>0, <3>2, <3>3 DEF WorkerStates
  <2>4. ASSUME ~troubled'
        PROVE  /\ \A v, w \in Alive' : v = w
               /\ \A w \in Alive' : WellTimed(w)'
    <3>1. ~troubled /\ \A w \in Workers : ~Slow(w)
      BY <2>1, <2>4, Zenon
    <3> QED
      BY <1>0, <2>3, <3>1 DEF HealthInv
  <2> QED
    BY <2>1, <2>4 DEF HealthInv
<1> QED
  BY <1>4, <1>5, <1>6, <1>7, <1>8, <1>9, <1>10, <1>11, <1>12, <1>13, <1>14, <1>15, <1>16,
     <1>17, <1>18, <1>19, <1>20, <1>21, <1>22, <1>1, OnlyForkMakes
  DEF Next, Supervise

(* Only the look finds a stall.                                            *)
LEMMA OnlyCheckKills ==
    ASSUME TypeOK, [Next]_vars, sup.at # "kill", sup'.at = "kill"
    PROVE  Check
<1>0. sup \in SupervisorStates
  BY DEF TypeOK
<1>1. CASE StartService
  <2>1. sup' = [sup EXCEPT !.wait = 0]
    BY <1>1, Zenon DEF StartService
  <2> QED
    BY <1>0, <2>1 DEF SupervisorStates
<1>2. CASE BeginRound
  <2>1. sup' = [sup EXCEPT !.at = "fork", !.started = 0]
    BY <1>2, Zenon DEF BeginRound
  <2> QED
    BY <1>0, <2>1 DEF SupervisorStates
<1>3. CASE GiveUp
  <2>1. sup' = [sup EXCEPT !.at = "rest", !.wait = Poll, !.fault = IF @ = Unset THEN 0 ELSE @]
    BY <1>3, Zenon DEF GiveUp
  <2> QED
    BY <1>0, <2>1 DEF SupervisorStates
<1>4. CASE StopService \/ Respawn \/ FirstFull("begin", "retire") \/ Retire
           \/ FirstFull("full", "start") \/ (\E w \in Workers : Fork(w)) \/ Record
           \/ Watch \/ ReadNow \/ KillStalled \/ NextRound \/ TrapFull
  BY <1>0, <1>4 DEF StopService, Respawn, FirstFull, Retire, Fork, Record, Watch, ReadNow,
                    KillStalled, NextRound, TrapFull, Exit, NoSupervisor, Go, SupervisorStates
<1>5. CASE TrapExit \/ TermUntrapped \/ KillSupervisor
  BY <1>5 DEF TrapExit, TermUntrapped, KillSupervisor, Exit, NoSupervisor
<1>6. CASE Tick
  BY <1>0, <1>6 DEF Tick, SupervisorStates
<1>7. ASSUME NEW w \in Workers, Work(w) \/ WorkerUnstick(w) \/ KillWorker(w) \/ WorkerStick(w)
      PROVE  sup' = sup
  BY <1>7 DEF Work, WorkerBegin, WorkerWrite, WorkerBeat, WorkerNextCycle, WorkerTrap,
              WorkerUnstick, KillWorker, WorkerStick
<1>8. CASE BreakDevice \/ UNCHANGED vars
  BY <1>8 DEF BreakDevice, vars
<1> QED
  BY <1>1, <1>2, <1>3, <1>4, <1>5, <1>6, <1>7, <1>8 DEF Next, Supervise

(* A child that is alone, never stuck and not slow is taken for stalled    *)
(* only in the second between the two reads of the look, whatever Stall,   *)
(* Nap and Poll are.                                                       *)
THEOREM SupervisionStallJustified == Spec => StallJustified
<1>1. TypeOK /\ HealthInv /\ [Next]_vars => (TypeOK /\ HealthInv)'
  BY TypeStep, HealthStep
<1>2. TypeOK /\ HealthInv /\ [Next]_vars =>
        [sup.at # "kill" /\ sup'.at = "kill" /\ sup.child \in Alive
            => troubled \/ (sup.at = "late" /\ Ahead)]_vars
  <2> SUFFICES ASSUME TypeOK, HealthInv, Next, sup.at # "kill", sup'.at = "kill",
                      sup.child \in Alive, ~troubled
               PROVE  sup.at = "late" /\ Ahead
    OBVIOUS
  <2>0. /\ sup \in SupervisorStates /\ worker \in [Workers -> WorkerStates]
        /\ files.beat \in Nat /\ Stall \in Nat /\ Nap \in Nat /\ Nap <= Stall
    BY Times DEF TypeOK
  <2>1. Check
    BY OnlyCheckKills
  <2>2. Comparing /\ Stalled
    BY <2>0, <2>1 DEF Check, SupervisorStates
  <2>3. WellTimed(sup.child)
    BY DEF HealthInv
  <2>4. /\ worker[sup.child].at \in {"born", "work", "wrote", "sleep"}
        /\ worker[sup.child].left \in Nat /\ worker[sup.child].age \in Nat
    BY <2>0, <2>3 DEF Alive, WellTimed, WorkerStates
  <2>5. files.beat <= Stall
    BY <2>0, <2>3, <2>4 DEF WellTimed
  <2> QED
    BY <2>0, <2>2, <2>5 DEF Comparing, At, Stalled, Ahead, Lag
<1> QED
  BY <1>1, <1>2, TypeInit, HealthInit, PTL DEF Spec, StallJustified

-----------------------------------------------------------------------------
(* How long no worker has completed a cycle.                               *)

(* What a fault lets pass before the next worker is made.                  *)
Allowed == IF sup.fault = Unset THEN 0 ELSE FaultLimit + Stall + 2 * Poll + 1

(* Until the machine is powered off, no step of an attempt outlives the    *)
(* time it is given; a heartbeat that counts as progress is as young as it *)
(* says.                                                                   *)
Patience ==
    sup.at # "down" /\ ~poweroff =>
    /\ sup.fault \in 0..(FaultLimit - 1) => quietAge <= sup.fault + Stall + Poll + 2
    /\ sup.at \in {"begin", "retire", "full", "start", "fork", "record"} => quietAge <= Allowed
    /\ sup.at \in {"watch", "nap", "compare", "late"} /\ sup.started < AgeCap
          => quietAge <= Allowed + sup.started
    /\ sup.at = "watch" => quietAge <= Allowed + Stall + 1
    /\ sup.at = "nap" => quietAge + sup.wait <= Allowed + Stall + Poll + 1
    /\ sup.at = "compare" => quietAge <= Allowed + Stall + Poll + 1
    /\ sup.at \in {"late", "kill", "giveup", "quit"} => quietAge <= Allowed + Stall + Poll + 2
    /\ sup.at = "rest" => sup.fault # Unset /\ quietAge + sup.wait <= Allowed
PatienceInv ==
    /\ sup.started <= AgeCap
    /\ files.beat < sup.started => quietAge <= files.beat
    /\ Patience

LEMMA PatienceInit == Init => PatienceInv
<1> SUFFICES ASSUME Init PROVE PatienceInv
  OBVIOUS
<1>1. sup.at = "down" /\ sup.started = 0 /\ quietAge = 0 /\ files.beat = 0
  BY DEF Init, NoSupervisor
<1> QED
  BY <1>1, CapsAreNumbers DEF PatienceInv, Patience

LEMMA PatienceStep == TypeOK /\ PatienceInv /\ [Next]_vars => PatienceInv'
<1> SUFFICES ASSUME TypeOK, PatienceInv, [Next]_vars PROVE PatienceInv'
  OBVIOUS
<1>0. /\ sup \in SupervisorStates /\ files \in [pid : Workers \cup {NoWorker}, beat : Nat]
      /\ worker \in [Workers -> WorkerStates] /\ quietAge \in Nat
      /\ Poll \in Nat /\ Stall \in Nat /\ FaultLimit \in Nat /\ FaultLimit > 0
      /\ AgeCap \in Nat /\ AgeCap = Stall + 2 /\ LongAge \in Nat
      /\ sup' \in SupervisorStates /\ Unset = -1
  BY Times, CapsAreNumbers, TypeStep, SupervisionAssumption DEF TypeOK, AgeCap, Unset
<1>a. /\ sup.wait \in Nat /\ sup.started \in Nat /\ sup.fault \in Nat \cup {Unset}
      /\ Allowed \in Nat /\ files.beat \in Nat
  BY <1>0, Times DEF SupervisorStates, Allowed
(* Most steps leave the times alone.                                       *)
<1>1. ASSUME sup'.started = sup.started, sup'.fault = sup.fault, files'.beat = files.beat,
             quietAge' = quietAge, poweroff' = poweroff,
             \/ sup'.at = sup.at /\ sup'.wait = sup.wait
             \/ <<sup.at, sup'.at>> \in {<<"begin", "retire">>, <<"retire", "full">>,
                                         <<"full", "start">>, <<"fork", "record">>,
                                         <<"record", "watch">>}
             \/ sup.at = "watch" /\ sup'.at = "nap" /\ sup'.wait = Poll
             \/ sup.at = "nap" /\ sup.wait = 0 /\ sup'.at = "compare"
             \/ sup.at \in Trapped /\ sup'.at \in {"kill", "giveup", "quit"}
             \/ sup.at = "rest" /\ sup.wait = 0 /\ sup'.at = "start"
      PROVE  PatienceInv'
  <2>1. Allowed' = Allowed
    BY <1>1 DEF Allowed
  <2> QED
    BY <1>0, <1>a, <1>1, <2>1 DEF PatienceInv, Patience, Trapped
(* A supervisor that is gone has no patience.                              *)
<1>21. ASSUME sup'.at = "down", sup'.started = 0 \/ sup'.started = sup.started,
              files'.beat = files.beat, quietAge' = quietAge
       PROVE  PatienceInv'
  BY <1>0, <1>a, <1>21 DEF PatienceInv, Patience
<1>2. CASE StartService
  <2>1. sup' = [sup EXCEPT !.wait = 0] /\ sup.at = "down"
        /\ UNCHANGED <<files, poweroff, quietAge>>
    BY <1>2, Zenon DEF StartService, history
  <2> QED
    BY <1>0, <1>21, <2>1 DEF SupervisorStates
<1>3. CASE StopService
  BY <1>0, <1>1, <1>3 DEF StopService, SupervisorStates, history
<1>4. CASE Respawn
  <2>1. /\ sup'.at = "begin" /\ sup'.started = sup.started
        /\ files' = files /\ quietAge' = 0
    BY <1>0, <1>4 DEF Respawn, SupervisorStates
  <2> QED
    BY <1>0, <1>a, <2>1 DEF PatienceInv, Patience, Allowed
<1>5. CASE FirstFull("begin", "retire") \/ FirstFull("full", "start")
  <2>1. UNCHANGED <<files, quietAge, poweroff>>
    BY <1>5 DEF FirstFull
  <2>2. CASE device = "good"
    <3>1. /\ sup'.started = sup.started /\ sup'.fault = sup.fault
          /\ <<sup.at, sup'.at>> \in {<<"begin", "retire">>, <<"full", "start">>}
      BY <1>0, <1>5, <2>2 DEF FirstFull, Go, At, SupervisorStates
    <3> QED
      BY <1>1, <2>1, <3>1
  <2>3. CASE device # "good"
    BY <1>5, <1>21, <2>1, <2>3 DEF FirstFull, Exit, NoSupervisor
  <2> QED
    BY <2>2, <2>3
<1>6. CASE Retire
  BY <1>0, <1>1, <1>6 DEF Retire, At, Go, SupervisorStates, history
<1>7. CASE BeginRound
  <2>1. /\ sup' = [sup EXCEPT !.at = "fork", !.started = 0] /\ sup.at = "start"
        /\ files' = [files EXCEPT !.beat = 0] /\ UNCHANGED <<quietAge, poweroff>>
    BY <1>7, Zenon DEF BeginRound, At
  <2>2. /\ sup'.at = "fork" /\ sup'.started = 0 /\ sup'.fault = sup.fault
        /\ files'.beat = 0
    BY <1>0, <2>1 DEF SupervisorStates
  <2> QED
    BY <1>0, <1>a, <2>1, <2>2 DEF PatienceInv, Patience, Allowed
<1>8. ASSUME NEW w \in Workers, Fork(w) PROVE PatienceInv'
  BY <1>0, <1>1, <1>8 DEF Fork, At, SupervisorStates
<1>9. CASE Record
  <2>1. /\ sup.at = "record" /\ sup'.at = "watch" /\ files'.beat = files.beat
        /\ sup'.started = sup.started /\ sup'.fault = sup.fault
        /\ UNCHANGED <<quietAge, poweroff>>
    BY <1>0, <1>9 DEF Record, At, SupervisorStates, history
  <2> QED
    BY <1>1, <2>1
<1>10. CASE Watch
  BY <1>0, <1>1, <1>10 DEF Watch, At, Trapped, SupervisorStates, history
<1>22. CASE ReadNow
  BY <1>0, <1>1, <1>22 DEF ReadNow, At, Go, SupervisorStates, history
<1>11. CASE Check
  <2>1. sup.at \in {"compare", "late"} /\ UNCHANGED <<files, quietAge, poweroff>>
    BY <1>11 DEF Check, Comparing, At, history
  <2>2. CASE Stalled
    BY <1>0, <1>1, <1>11, <2>1, <2>2 DEF Check, Go, Trapped, SupervisorStates
  <2>3. CASE ~Stalled
    <3>0. files.beat <= Stall + 1
      BY <1>0, <1>a, <2>3 DEF Stalled, Lag
    <3>1. sup' = [sup EXCEPT !.at = "watch",
                             !.fault = IF files.beat < sup.started THEN Unset ELSE @]
      BY <1>11, <2>3 DEF Check
    <3>2. CASE files.beat < sup.started
      <4>1. sup'.at = "watch" /\ sup'.fault = Unset /\ sup'.started = sup.started
        BY <1>0, <3>1, <3>2 DEF SupervisorStates
      <4>2. Allowed' = 0
        BY <4>1 DEF Allowed
      <4> QED
        BY <1>0, <1>a, <2>1, <3>0, <3>2, <4>1, <4>2 DEF PatienceInv, Patience
    <3>3. CASE ~(files.beat < sup.started)
      <4>1. sup'.at = "watch" /\ sup'.fault = sup.fault /\ sup'.started = sup.started
        BY <1>0, <2>1, <3>1, <3>3 DEF SupervisorStates
      <4>2. Allowed' = Allowed
        BY <4>1 DEF Allowed
      <4> QED
        BY <1>0, <1>a, <2>1, <3>0, <3>3, <4>1, <4>2 DEF PatienceInv, Patience
    <3> QED
      BY <3>2, <3>3
  <2> QED
    BY <2>2, <2>3
<1>12. CASE KillStalled
  BY <1>0, <1>1, <1>12 DEF KillStalled, At, Go, Trapped, SupervisorStates, history
<1>13. CASE GiveUp
  <2>1. /\ At("giveup") /\ UNCHANGED <<files, quietAge>>
        /\ sup' = [sup EXCEPT !.at = "rest", !.wait = Poll,
                              !.fault = IF @ = Unset THEN 0 ELSE @]
    BY <1>13, Zenon DEF GiveUp, history
  <2>2. ~poweroff' => ~poweroff /\ ~(sup.fault >= FaultLimit)
    BY <1>13, Zenon DEF GiveUp
  <2>3. /\ sup'.at = "rest" /\ sup'.wait = Poll /\ sup'.started = sup.started
        /\ sup'.fault = IF sup.fault = Unset THEN 0 ELSE sup.fault
    BY <1>0, <2>1 DEF SupervisorStates
  <2>4. Allowed' = FaultLimit + Stall + 2 * Poll + 1
    BY <1>0, <1>a, <2>3 DEF Allowed
  <2> QED
    BY <1>0, <1>a, <2>1, <2>2, <2>3, <2>4 DEF PatienceInv, Patience, Allowed, At
<1>14. CASE NextRound
  BY <1>0, <1>1, <1>14 DEF NextRound, At, Go, SupervisorStates, history
<1>15. CASE TrapFull
  BY <1>0, <1>1, <1>15 DEF TrapFull, SupervisorStates, history
<1>16. CASE TrapExit \/ TermUntrapped \/ KillSupervisor
  BY <1>16, <1>21 DEF TrapExit, TermUntrapped, KillSupervisor, Exit, NoSupervisor
<1>17. ASSUME NEW w \in Workers, WorkerBeat(w) PROVE PatienceInv'
  <2>1. /\ files'.beat = worker[w].age /\ UNCHANGED <<sup, poweroff>>
        /\ quietAge' = IF worker[w].age < sup.started THEN 0 ELSE quietAge
    <3>1. /\ files' = [files EXCEPT !.beat = worker[w].age] /\ UNCHANGED <<sup, poweroff>>
          /\ quietAge' = IF worker[w].age < sup.started THEN 0 ELSE quietAge
      BY <1>17, Zenon DEF WorkerBeat
    <3> QED
      BY <1>0, <3>1
  <2>2. worker[w].age \in Nat
    BY <1>0, <1>17 DEF WorkerStates
  <2>3. quietAge' \in Nat /\ quietAge' <= quietAge
    BY <1>0, <2>1
  <2>4. Patience'
    <3>1. Allowed' = Allowed
      BY <2>1 DEF Allowed
    <3> QED
      BY <1>0, <1>a, <2>1, <2>3, <3>1 DEF PatienceInv, Patience
  <2> QED
    BY <1>0, <1>a, <2>1, <2>2, <2>4 DEF PatienceInv
<1>18. ASSUME NEW w \in Workers,
              \/ WorkerBegin(w) \/ WorkerWrite(w) \/ WorkerNextCycle(w) \/ WorkerTrap(w)
              \/ WorkerUnstick(w) \/ KillWorker(w) \/ WorkerStick(w)
       PROVE  PatienceInv'
  <2>1. UNCHANGED <<sup, files, quietAge, poweroff>>
    BY <1>18 DEF WorkerBegin, WorkerWrite, WorkerNextCycle, WorkerTrap, WorkerUnstick,
                 KillWorker, WorkerStick, history
  <2> QED
    BY <1>1, <2>1
<1>19. CASE BreakDevice \/ UNCHANGED vars
  <2>1. UNCHANGED <<sup, files, quietAge, poweroff>>
    BY <1>19 DEF BreakDevice, vars, history
  <2> QED
    BY <1>1, <2>1
<1>20. CASE Tick
  <2>1. /\ sup'.at = (IF sup.at = "compare" THEN "late" ELSE sup.at)
        /\ sup'.wait = Less(sup.wait)
        /\ sup'.started = IF sup.at = "down" THEN sup.started ELSE Older(sup.started, AgeCap)
        /\ sup'.fault = Older(sup.fault, FaultLimit)
        /\ files'.beat = Older(files.beat, AgeCap) /\ poweroff' = poweroff
        /\ quietAge' = IF sup.at # "down" /\ ~poweroff THEN Older(quietAge, LongAge) ELSE 0
    BY <1>0, <1>20 DEF Tick, SupervisorStates
  <2>2. sup.at \in {"down", "compare"} \/ (sup.at \in {"nap", "rest"} /\ sup.wait > 0)
    <3>1. NobodyDue
      BY <1>20 DEF Tick
    <3> QED
      BY <3>1, Zenon DEF NobodyDue
  <2>3. /\ sup.at \in {"nap", "rest"} => sup'.wait = sup.wait - 1
        /\ quietAge' \in Nat /\ quietAge' <= quietAge + 1
    <3>1. Older(quietAge, LongAge) \in Nat /\ Older(quietAge, LongAge) <= quietAge + 1
      BY <1>0, <1>a, CapsAreNumbers, OlderAge
    <3>2. sup.at \in {"nap", "rest"} => sup'.wait = sup.wait - 1
      BY <1>0, <1>a, <2>1, <2>2 DEF Less, SupervisorStates
    <3>3. quietAge' \in {0, Older(quietAge, LongAge)}
      BY <2>1
    <3> QED
      BY <1>0, <1>a, <3>1, <3>2, <3>3
  <2>4. /\ sup'.started <= AgeCap
        /\ sup'.started < AgeCap /\ sup.at # "down"
              => sup'.started = sup.started + 1 /\ sup.started < AgeCap
        /\ files'.beat < sup'.started => files'.beat = files.beat + 1 /\ files.beat < sup.started
    BY <1>0, <1>a, <2>1 DEF PatienceInv, Older
  <2>5. /\ sup'.fault = Unset <=> sup.fault = Unset
        /\ sup'.fault \in 0..(FaultLimit - 1) =>
              sup.fault \in 0..(FaultLimit - 1) /\ sup'.fault = sup.fault + 1
    BY <1>0, <1>a, <2>1 DEF Older
  <2>6. Allowed' = Allowed
    BY <2>5 DEF Allowed
  <2> QED
    BY <1>0, <1>a, <2>1, <2>2, <2>3, <2>4, <2>5, <2>6 DEF PatienceInv, Patience
<1> QED
  BY <1>2, <1>3, <1>4, <1>5, <1>6, <1>7, <1>8, <1>9, <1>10, <1>11, <1>12, <1>13, <1>14,
     <1>15, <1>16, <1>17, <1>18, <1>19, <1>20, <1>22
  DEF Next, Supervise, Work

(* The supervisor never goes on for longer than the attempts of FaultLimit *)
(* and the two around them without either progress or the shutdown.        *)
THEOREM SupervisionGivesUpInTime == Spec => []GivesUpInTime
<1>1. TypeOK /\ PatienceInv /\ [Next]_vars => (TypeOK /\ PatienceInv)'
  BY TypeStep, PatienceStep
<1>2. TypeOK /\ PatienceInv => GivesUpInTime
  <2> SUFFICES ASSUME TypeOK, PatienceInv, quietAge >= LongAge, ~poweroff, sup.at # "down"
               PROVE  FALSE
    BY DEF GivesUpInTime
  <2>1. /\ sup \in SupervisorStates /\ quietAge \in Nat
        /\ Poll \in Nat /\ Stall \in Nat /\ FaultLimit \in Nat /\ FaultLimit > 0
        /\ LongAge = FaultLimit + 2 * (Stall + 2 * Poll + 2)
    BY Times, SupervisionAssumption DEF TypeOK, LongAge, Attempt
  <2>2. Allowed \in Nat /\ Allowed <= FaultLimit + Stall + 2 * Poll + 1 /\ sup.wait \in Nat
    BY <2>1 DEF Allowed, SupervisorStates
  <2>3. quietAge <= Allowed + Stall + Poll + 2
    BY <2>1, <2>2 DEF PatienceInv, Patience, SupervisorStates, Places, Trapped
  <2> QED
    BY <2>1, <2>2, <2>3
<1> QED
  BY <1>1, <1>2, TypeInit, PatienceInit, PTL DEF Spec

-----------------------------------------------------------------------------
(* How long ago the child got beyond its first full cycle.                 *)

(* The child is known from its recording on, and the times of a round      *)
(* start before it is made.                                                *)
ChildPlaces ==
    /\ sup.at \in {"down", "begin", "retire", "full"} => sup.child = NoWorker
    /\ sup.at \in {"fork", "record"} => sup.started = 0
    /\ sup.at = "record" => sup.forked \in Workers /\ ~worker[sup.forked].beat

(* A fault is no older than the last progress, and none is remembered by a *)
(* supervisor that is gone.                                                *)
FaultNotOlder ==
    /\ sup.at = "down" => sup.fault = Unset
    /\ ~poweroff /\ sup.fault # Unset =>
        sup.fault <= progressAge /\ sup.fault <= FaultLimit

(* A child that has completed a cycle while a fault is pending sleeps until*)
(* after the supervisor's next look, which finds that cycle, or a stall.   *)
Beaten == /\ unrecorded = {} /\ sup.at # "down" /\ sup.fault # Unset
          /\ sup.child \in Alive /\ worker[sup.child].beat
NextCheckSees ==
    Beaten => /\ worker[sup.child].at = "sleep" /\ worker[sup.child].left > 0
              /\ sup.at = "watch" => worker[sup.child].left > Poll + 1
              /\ sup.at = "nap" => worker[sup.child].left > sup.wait + 1
              /\ sup.at = "compare" => worker[sup.child].left > 1
              /\ files.beat < sup.started \/ files.beat > Stall + 1

ProgressInv == ChildPlaces /\ FaultNotOlder /\ NextCheckSees

LEMMA ProgressInit == Init => ProgressInv
BY DEF Init, NoSupervisor, ProgressInv, ChildPlaces, FaultNotOlder, NextCheckSees, Beaten

(* Only the child writes a heartbeat when every worker was recorded.       *)
LEMMA ChildBeats ==
    ASSUME TypeOK, PidInv, unrecorded = {}, sup.child \in Alive, NEW w \in Alive
    PROVE  w = sup.child
BY Times DEF PidInv, ChildNamed, OneNamed, Orphans, Alive

(* No child is alive between two workers.                                  *)
LEMMA ChildGone ==
    ASSUME TypeOK, PidInv, sup.at \in {"full", "start", "fork", "giveup", "rest"}
    PROVE  sup.child \notin Alive
BY Times DEF PidInv, ChildNamed, Gone, Alive

LEMMA PlacesStep == TypeOK /\ ProgressInv /\ [Next]_vars => ChildPlaces'
<1> SUFFICES ASSUME TypeOK, ProgressInv, [Next]_vars PROVE ChildPlaces'
  OBVIOUS
<1>0. /\ sup \in SupervisorStates /\ worker \in [Workers -> WorkerStates] /\ ChildPlaces
  BY DEF TypeOK, ProgressInv
<1>1. ASSUME sup'.at \notin {"retire", "full", "fork", "record"},
             sup'.at \in {"begin", "down"} => sup'.child = NoWorker
      PROVE  ChildPlaces'
  BY <1>1 DEF ChildPlaces
<1>2. ASSUME sup'.at = sup.at, sup'.child = sup.child, sup'.started = sup.started,
             sup'.forked = sup.forked, worker' = worker
      PROVE  ChildPlaces'
  BY <1>0, <1>2 DEF ChildPlaces
<1>3. CASE StartService
  <2>1. sup' = [sup EXCEPT !.wait = 0] /\ sup.at = "down"
    BY <1>3, Zenon DEF StartService
  <2> QED
    BY <1>0, <1>1, <2>1 DEF SupervisorStates, ChildPlaces
<1>4. CASE StopService
  BY <1>0, <1>2, <1>4 DEF StopService, SupervisorStates
<1>5. CASE Respawn
  BY <1>0, <1>1, <1>5 DEF Respawn, SupervisorStates, ChildPlaces
<1>6. CASE FirstFull("begin", "retire") \/ FirstFull("full", "start")
  BY <1>0, <1>6 DEF FirstFull, Exit, NoSupervisor, Go, At, SupervisorStates, ChildPlaces
<1>7. CASE Retire
  BY <1>0, <1>7 DEF Retire, Go, At, SupervisorStates, ChildPlaces
<1>8. CASE BeginRound
  <2>1. sup' = [sup EXCEPT !.at = "fork", !.started = 0]
    BY <1>8, Zenon DEF BeginRound
  <2> QED
    BY <1>0, <2>1 DEF SupervisorStates, ChildPlaces
<1>9. ASSUME NEW w \in Workers, Fork(w) PROVE ChildPlaces'
  <2>1. /\ sup'.at = "record" /\ sup'.forked = w /\ sup'.started = sup.started
        /\ sup.at = "fork"
    BY <1>0, <1>9 DEF Fork, At, SupervisorStates
  <2>2. worker'[w].beat = FALSE
    BY <1>0, <1>9 DEF Fork, Dead
  <2> QED
    BY <1>0, <2>1, <2>2 DEF ChildPlaces
<1>10. CASE Record \/ Watch \/ ReadNow \/ KillStalled \/ NextRound \/ TrapFull \/ TrapExit
            \/ TermUntrapped \/ KillSupervisor
  <2>1. /\ sup'.at \notin {"begin", "retire", "full", "fork", "record"}
        /\ sup'.at = "down" => sup'.child = NoWorker
    BY <1>0, <1>10 DEF Record, Watch, ReadNow, KillStalled, NextRound, TrapFull, TrapExit,
                       TermUntrapped, KillSupervisor, Exit, NoSupervisor, Go, SupervisorStates
  <2> QED
    BY <1>1, <2>1
<1>11. CASE Check
  <2>1. sup'.at \in {"kill", "watch"}
    BY <1>0, <1>11 DEF Check, Go, SupervisorStates
  <2> QED
    BY <1>1, <2>1
<1>12. CASE GiveUp
  <2>1. sup' = [sup EXCEPT !.at = "rest", !.wait = Poll, !.fault = IF @ = Unset THEN 0 ELSE @]
    BY <1>12, Zenon DEF GiveUp
  <2> QED
    BY <1>0, <1>1, <2>1 DEF SupervisorStates
<1>13. ASSUME sup' = sup, \A w \in Workers : worker'[w].beat => worker[w].beat
       PROVE  ChildPlaces'
  BY <1>0, <1>13 DEF ChildPlaces
<1>14. ASSUME NEW w \in Workers, WorkerBeat(w) PROVE ChildPlaces'
  <2>1. /\ worker' = [worker EXCEPT ![w] = [worker[w] EXCEPT !.at = "sleep", !.left = Nap,
                                              !.beat = @ \/ (worker[w].age < sup.started)]]
        /\ sup' = sup
    BY <1>14, Zenon DEF WorkerBeat
  <2>2. CASE sup.at = "record"
    <3>1. (worker[w].age < sup.started) = FALSE
      BY <1>0, <2>2 DEF ChildPlaces, WorkerStates
    <3>2. worker' = [worker EXCEPT ![w] = [worker[w] EXCEPT !.at = "sleep", !.left = Nap,
                                              !.beat = worker[w].beat \/ FALSE]]
      BY <2>1, <3>1
    <3>3. \A v \in Workers : worker'[v].beat => worker[v].beat
      BY <1>0, <3>2 DEF WorkerStates
    <3> QED
      BY <1>13, <2>1, <3>3
  <2>3. CASE sup.at # "record"
    BY <1>0, <2>1, <2>3 DEF ChildPlaces
  <2> QED
    BY <2>2, <2>3
<1>15. ASSUME NEW w \in Workers,
              \/ WorkerBegin(w) \/ WorkerWrite(w) \/ WorkerNextCycle(w) \/ WorkerTrap(w)
              \/ WorkerUnstick(w) \/ KillWorker(w) \/ WorkerStick(w)
       PROVE  ChildPlaces'
  <2>1. sup' = sup
    BY <1>15 DEF WorkerBegin, WorkerWrite, WorkerNextCycle, WorkerTrap, WorkerUnstick,
                 KillWorker, WorkerStick
  <2>2. \A v \in Workers : worker'[v].beat => worker[v].beat
    BY <1>0, <1>15 DEF WorkerBegin, WorkerWrite, WorkerNextCycle, WorkerTrap, WorkerUnstick,
                 KillWorker, WorkerStick, Move, Dies, Dead, WorkerStates
  <2> QED
    BY <1>13, <2>1, <2>2
<1>16. CASE BreakDevice \/ UNCHANGED vars
  BY <1>2, <1>16 DEF BreakDevice, vars
<1>17. CASE Tick
  <2>1. /\ sup'.at \in {sup.at, "late"} /\ sup.at \in {"nap", "compare", "rest", "down"}
        /\ sup'.child = sup.child
    BY <1>0, <1>17 DEF Tick, NobodyDue, SupervisorStates
  <2> QED
    BY <1>0, <1>1, <2>1 DEF ChildPlaces
<1> QED
  BY <1>3, <1>4, <1>5, <1>6, <1>7, <1>8, <1>9, <1>10, <1>11, <1>12, <1>14, <1>15, <1>16, <1>17
  DEF Next, Supervise, Work

LEMMA SeesStep == TypeOK /\ PidInv /\ Waits /\ ProgressInv /\ [Next]_vars => NextCheckSees'
<1> SUFFICES ASSUME TypeOK, PidInv, Waits, ProgressInv, [Next]_vars, Beaten'
             PROVE  NextCheckSees'
  BY DEF NextCheckSees
<1>0. /\ sup \in SupervisorStates /\ worker \in [Workers -> WorkerStates]
      /\ files \in [pid : Workers \cup {NoWorker}, beat : Nat]
      /\ Poll \in Nat /\ Nap \in Nat /\ Poll + 1 < Nap /\ Stall \in Nat
      /\ AgeCap \in Nat /\ AgeCap = Stall + 2 /\ FaultLimit \in Nat
      /\ Unset = -1 /\ NoWorker \notin Alive' /\ Alive' \subseteq Workers
      /\ sup.started \in Nat /\ sup.wait \in Nat /\ sup.fault \in Nat \cup {Unset}
      /\ files.beat \in Nat /\ NextCheckSees /\ ChildPlaces
  BY Times, CapsAreNumbers DEF TypeOK, ProgressInv, Alive, AgeCap, Unset, SupervisorStates
<1>a. /\ unrecorded' = {} /\ sup'.at # "down" /\ sup'.fault # Unset
      /\ sup'.child \in Alive' /\ worker'[sup'.child].beat
  BY DEF Beaten
(* Most steps leave the child and the times alone.                         *)
<1>1. ASSUME sup'.child = sup.child, sup'.started = sup.started, sup.at # "down",
             sup'.fault = sup.fault, files'.beat = files.beat, unrecorded' = unrecorded,
             worker'[sup.child] = worker[sup.child],
             sup'.at = "watch" => sup.at = "watch",
             sup'.at = "nap" => \/ sup'.wait = Poll /\ sup.at = "watch"
                                \/ sup'.wait = sup.wait /\ sup.at = "nap",
             sup'.at = "compare" => sup.at = "compare" \/ (sup.at = "nap" /\ sup.wait = 0)
      PROVE  NextCheckSees'
  <2>1. Beaten
    BY <1>a, <1>1 DEF Beaten, Alive
  <2> QED
    BY <1>0, <1>1, <2>1 DEF NextCheckSees
<1>2. CASE StartService
  <2>1. sup' = [sup EXCEPT !.wait = 0] /\ sup.at = "down"
    BY <1>2, Zenon DEF StartService
  <2> QED
    BY <1>0, <1>a, <2>1 DEF SupervisorStates
<1>3. CASE StopService
  <2>1. /\ sup'.child = sup.child
        /\ sup'.started = sup.started /\ sup'.at = sup.at
        /\ sup'.fault = sup.fault /\ sup'.wait = sup.wait
        /\ UNCHANGED <<files, worker, unrecorded>>
    BY <1>0, <1>3 DEF StopService, SupervisorStates, history
  <2> QED
    BY <1>1, <1>a, <2>1
<1>4. CASE Respawn
  <2>1. sup'.child = NoWorker
    BY <1>0, <1>4 DEF Respawn, ChildPlaces, SupervisorStates
  <2> QED
    BY <1>0, <1>a, <2>1
<1>5. CASE FirstFull("begin", "retire") \/ FirstFull("full", "start") \/ Retire
  <2>1. sup.child = NoWorker
    BY <1>0, <1>5 DEF FirstFull, Retire, At, ChildPlaces
  <2>2. sup'.child = sup.child
    BY <1>0, <1>5, <2>1 DEF FirstFull, Retire, Exit, NoSupervisor, Go, SupervisorStates
  <2> QED
    BY <1>0, <1>a, <2>1, <2>2
<1>6. ASSUME sup.at \in {"start", "giveup", "rest"}, worker' = worker, sup'.child = sup.child
      PROVE  FALSE
  BY <1>a, <1>6, ChildGone DEF Alive
<1>7. CASE BeginRound
  <2>1. sup' = [sup EXCEPT !.at = "fork", !.started = 0] /\ sup.at = "start" /\ worker' = worker
    BY <1>7, Zenon DEF BeginRound, At
  <2> QED
    BY <1>0, <1>6, <2>1 DEF SupervisorStates
<1>8. CASE GiveUp
  <2>1. /\ sup' = [sup EXCEPT !.at = "rest", !.wait = Poll, !.fault = IF @ = Unset THEN 0 ELSE @]
        /\ sup.at = "giveup" /\ worker' = worker
    BY <1>8, Zenon DEF GiveUp, At
  <2> QED
    BY <1>0, <1>6, <2>1 DEF SupervisorStates
<1>9. CASE NextRound
  BY <1>0, <1>6, <1>9 DEF NextRound, At, Go, SupervisorStates
<1>10. ASSUME NEW w \in Workers, Fork(w) PROVE NextCheckSees'
  <2>1. /\ sup'.child = sup.child /\ sup.at = "fork"
        /\ worker'[w].beat = FALSE /\ \A v \in Workers \ {w} : worker'[v] = worker[v]
    BY <1>0, <1>10 DEF Fork, At, Dead, SupervisorStates
  <2>2. sup.child \notin Alive
    BY <2>1, ChildGone
  <2>3. sup.child = w
    BY <1>0, <1>a, <2>1, <2>2 DEF Alive
  <2> QED
    BY <1>a, <2>1, <2>3
<1>11. CASE Record
  <2>1. sup'.child = sup.forked /\ worker' = worker /\ sup.at = "record"
    BY <1>0, <1>11 DEF Record, At, SupervisorStates
  <2> QED
    BY <1>0, <1>a, <2>1 DEF ChildPlaces
<1>12. CASE Watch
  <2>1. sup'.child = sup.child /\ worker' = worker /\ sup.child \in Alive
    <3>1. sup'.child = sup.child /\ worker' = worker
      BY <1>0, <1>12 DEF Watch, SupervisorStates
    <3> QED
      BY <1>a, <3>1 DEF Alive
  <2>2. /\ sup' = [sup EXCEPT !.at = "nap", !.wait = Poll] /\ sup.at = "watch"
        /\ UNCHANGED <<files, unrecorded>>
    BY <1>12, <2>1 DEF Watch, At, history
  <2> QED
    BY <1>0, <1>1, <2>1, <2>2 DEF SupervisorStates
<1>22. CASE ReadNow
  <2>1. /\ sup' = [sup EXCEPT !.at = "compare"] /\ sup.at = "nap" /\ sup.wait = 0
        /\ UNCHANGED <<files, worker, unrecorded>>
    BY <1>22 DEF ReadNow, At, Go, history
  <2> QED
    BY <1>0, <1>1, <2>1 DEF SupervisorStates
<1>13. CASE Check
  <2>1. sup.at \in {"compare", "late"} /\ UNCHANGED <<files, worker, unrecorded>>
    BY <1>13 DEF Check, Comparing, At, history
  <2>2. CASE Stalled
    <3>1. sup' = [sup EXCEPT !.at = "kill"]
      BY <1>13, <2>2 DEF Check, Go
    <3> QED
      BY <1>0, <1>1, <2>1, <3>1 DEF SupervisorStates
  <2>3. CASE ~Stalled
    <3>0. files.beat <= Stall + 1
      BY <1>0, <2>3 DEF Stalled, Lag
    <3>1. sup' = [sup EXCEPT !.at = "watch",
                             !.fault = IF files.beat < sup.started THEN Unset ELSE @]
      BY <1>13, <2>3 DEF Check
    <3>2. sup'.fault = IF files.beat < sup.started THEN Unset ELSE sup.fault
      BY <1>0, <3>1 DEF SupervisorStates
    <3>3. ~(files.beat < sup.started) /\ sup'.fault = sup.fault
      BY <1>a, <3>2
    <3>4. sup'.child = sup.child
      BY <1>0, <3>1 DEF SupervisorStates
    <3>5. Beaten
      BY <1>a, <2>1, <3>3, <3>4 DEF Beaten, Alive
    <3> QED
      BY <1>0, <3>0, <3>3, <3>5 DEF NextCheckSees
  <2> QED
    BY <2>2, <2>3
<1>14. CASE KillStalled
  <2>1. sup'.child = sup.child /\ worker' = [worker EXCEPT ![sup.child] = Dead]
    BY <1>0, <1>14 DEF KillStalled, Go, SupervisorStates
  <2> QED
    BY <1>0, <1>a, <2>1 DEF Alive, Dead
<1>15. CASE TrapFull
  <2>1. /\ sup' = [sup EXCEPT !.at = "quit"] /\ sup.at # "down"
        /\ UNCHANGED <<files, worker, unrecorded>>
    BY <1>15 DEF TrapFull, Trapped, history
  <2> QED
    BY <1>0, <1>1, <2>1 DEF SupervisorStates
<1>16. CASE TrapExit \/ TermUntrapped \/ KillSupervisor
  BY <1>a, <1>16 DEF TrapExit, TermUntrapped, KillSupervisor, Exit, NoSupervisor
<1>17. ASSUME NEW w \in Workers, WorkerBeat(w) PROVE NextCheckSees'
  <2>1. /\ files' = [files EXCEPT !.beat = worker[w].age] /\ UNCHANGED <<sup, unrecorded>>
        /\ worker[w].at = "wrote"
        /\ worker' = [worker EXCEPT ![w] = [worker[w] EXCEPT !.at = "sleep", !.left = Nap,
                                              !.beat = @ \/ (worker[w].age < sup.started)]]
    BY <1>17, Zenon DEF WorkerBeat, On
  <2>2. /\ \A v \in Workers \ {w} : worker'[v] = worker[v]
        /\ worker'[w].at = "sleep" /\ worker'[w].left = Nap
    BY <1>17, BeatOnly
  <2>3. w \in Alive /\ sup.child \in Alive
    BY <1>0, <1>a, <2>1, <2>2 DEF Alive
  <2>4. w = sup.child
    BY <1>a, <2>1, <2>3, ChildBeats
  <2>5. ~Beaten
    BY <1>0, <2>1, <2>4 DEF NextCheckSees
  <2>6. ~worker[w].beat
    BY <1>a, <2>1, <2>3, <2>4, <2>5 DEF Beaten
  <2>7. worker[w].age < sup.started
    <3>1. ASSUME (worker[w].age < sup.started) = FALSE PROVE FALSE
      <4>1. worker' = [worker EXCEPT ![w] = [worker[w] EXCEPT !.at = "sleep", !.left = Nap,
                                              !.beat = worker[w].beat \/ FALSE]]
        BY <2>1, <3>1
      <4>2. worker'[w].beat = (worker[w].beat \/ FALSE)
        BY <1>0, <4>1 DEF WorkerStates
      <4> QED
        BY <1>a, <2>1, <2>4, <2>6, <4>2
    <3>2. (worker[w].age < sup.started) \in BOOLEAN
      OBVIOUS
    <3> QED
      BY <3>1, <3>2
  <2>8. files'.beat = worker[w].age /\ sup.wait \in Nat /\ (sup.at = "nap" => sup.wait <= Poll)
    BY <1>0, <2>1 DEF Waits
  <2> QED
    BY <1>0, <2>1, <2>2, <2>4, <2>7, <2>8 DEF NextCheckSees
<1>18. ASSUME NEW w \in Workers, UNCHANGED <<sup, unrecorded, files>>,
              \A v \in Workers \ {w} : worker'[v] = worker[v],
              w \in Alive, worker'[w] = Dead \/ worker'[w].beat = worker[w].beat,
              worker[w].at # "sleep" \/ worker[w].left = 0 \/ worker'[w] = Dead
       PROVE  NextCheckSees'
  <2>1. CASE w # sup.child
    <3>1. sup.child \in Workers /\ worker'[sup.child] = worker[sup.child]
      BY <1>0, <1>a, <1>18, <2>1
    <3> QED
      BY <1>1, <1>a, <1>18, <3>1
  <2>2. CASE w = sup.child
    <3>1. worker'[w] # Dead
      BY <1>a, <1>18, <2>2 DEF Alive, Dead
    <3>2. worker[w].beat
      BY <1>a, <1>18, <2>2, <3>1
    <3>3. Beaten
      BY <1>a, <1>18, <2>2, <3>2 DEF Beaten
    <3> QED
      BY <1>0, <1>18, <2>2, <3>1, <3>3 DEF NextCheckSees
  <2> QED
    BY <2>1, <2>2
<1>19. ASSUME NEW w \in Workers,
              \/ WorkerBegin(w) \/ WorkerWrite(w) \/ WorkerNextCycle(w) \/ WorkerTrap(w)
              \/ WorkerUnstick(w) \/ KillWorker(w) \/ WorkerStick(w)
       PROVE  NextCheckSees'
  <2>1. UNCHANGED <<sup, unrecorded, files>>
    BY <1>19 DEF WorkerBegin, WorkerWrite, WorkerNextCycle, WorkerTrap,
                 WorkerUnstick, KillWorker, WorkerStick, history
  <2>2. /\ \A v \in Workers \ {w} : worker'[v] = worker[v]
        /\ worker'[w] = Dead \/ worker'[w].beat = worker[w].beat
    BY <1>0, <1>19 DEF WorkerBegin, WorkerWrite, WorkerNextCycle, WorkerTrap,
                       WorkerUnstick, KillWorker, WorkerStick, Move, Dies, WorkerStates
  <2>3. w \in Alive
    BY <1>19 DEF WorkerBegin, WorkerWrite, WorkerNextCycle, WorkerTrap,
                 WorkerUnstick, KillWorker, WorkerStick, On, Alive
  <2>4. worker[w].at # "sleep" \/ worker[w].left = 0 \/ worker'[w] = Dead
    BY <1>0, <1>19 DEF WorkerBegin, WorkerWrite, WorkerNextCycle, WorkerTrap,
                       WorkerUnstick, KillWorker, WorkerStick, On, Dies
  <2> QED
    BY <1>18, <2>1, <2>2, <2>3, <2>4
<1>20. CASE BreakDevice \/ UNCHANGED vars
  <2>1. UNCHANGED <<sup, files, worker, unrecorded>>
    BY <1>20 DEF BreakDevice, vars, history
  <2> QED
    BY <1>1, <1>a, <2>1
<1>21. CASE Tick
  <2>1. /\ sup'.at = (IF sup.at = "compare" THEN "late" ELSE sup.at)
        /\ sup'.wait = Less(sup.wait) /\ sup'.child = sup.child
        /\ sup.at # "down" => sup'.started = Older(sup.started, AgeCap)
        /\ sup'.fault = Older(sup.fault, FaultLimit)
        /\ files'.beat = Older(files.beat, AgeCap) /\ unrecorded' = unrecorded
    BY <1>0, <1>21 DEF Tick, SupervisorStates
  <2>2. NobodyDue
    BY <1>21 DEF Tick
  <2>3. sup.at \in {"down", "compare"} \/ (sup.at \in {"nap", "rest"} /\ sup.wait > 0)
    BY <2>2, Zenon DEF NobodyDue
  <2>4. /\ sup.child \in Workers
        /\ worker'[sup.child] = IF sup.child \in Alive
             THEN [worker[sup.child] EXCEPT
                     !.age = IF worker[sup.child].at = "sleep" THEN 0 ELSE Older(@, AgeCap),
                     !.left = Less(@)]
             ELSE Dead
    BY <1>0, <1>21, <1>a, <2>1 DEF Tick
  <2>5. sup.child \in Alive /\ worker[sup.child] \in WorkerStates
    BY <1>0, <1>a, <2>1, <2>4 DEF Alive, Dead
  <2>6. /\ worker'[sup.child].at = worker[sup.child].at
        /\ worker'[sup.child].beat = worker[sup.child].beat
        /\ worker'[sup.child].left = Less(worker[sup.child].left)
        /\ worker[sup.child].left \in Nat
    BY <2>4, <2>5 DEF WorkerStates
  <2>7. sup.fault # Unset
    BY <1>a, <2>1 DEF Older
  <2>8. Beaten
    BY <1>a, <2>1, <2>5, <2>6, <2>7 DEF Beaten
  <2>9. sup.at = "compare" \/ (sup.at = "nap" /\ sup.wait > 0)
    BY <1>a, <2>1, <2>3, <2>5, ChildGone
  <2>10. files'.beat < sup'.started \/ files'.beat > Stall + 1
    BY <1>0, <2>1, <2>8, <2>9 DEF NextCheckSees, Older
  <2>11. /\ worker[sup.child].at = "sleep" /\ worker[sup.child].left > 1
         /\ sup.at = "nap" => worker[sup.child].left > sup.wait + 1
    BY <1>0, <2>6, <2>8, <2>9 DEF NextCheckSees
  <2>12. /\ worker'[sup.child].left = worker[sup.child].left - 1
         /\ sup.at = "nap" => sup'.wait = sup.wait - 1
    BY <1>0, <2>1, <2>6, <2>9, <2>11 DEF Less
  <2> QED
    BY <1>0, <2>1, <2>6, <2>9, <2>10, <2>11, <2>12 DEF NextCheckSees
<1> QED
  BY <1>2, <1>3, <1>4, <1>5, <1>7, <1>8, <1>9, <1>10, <1>11, <1>12, <1>13, <1>14, <1>15,
     <1>16, <1>17, <1>19, <1>20, <1>21, <1>22
  DEF Next, Supervise, Work

LEMMA FaultStep == TypeOK /\ ProgressInv /\ [Next]_vars => FaultNotOlder'
<1> SUFFICES ASSUME TypeOK, ProgressInv, [Next]_vars PROVE FaultNotOlder'
  OBVIOUS
<1>0. /\ sup \in SupervisorStates /\ worker \in [Workers -> WorkerStates]
      /\ FaultLimit \in Nat
      /\ Unset = -1 /\ sup.fault \in Nat \cup {Unset} /\ progressAge \in Nat
      /\ FaultNotOlder /\ NextCheckSees /\ poweroff \in BOOLEAN
  BY Times DEF TypeOK, ProgressInv, Unset, SupervisorStates
<1>1. ASSUME progressAge' = progressAge, sup'.fault \in {sup.fault, Unset},
             poweroff' = poweroff, sup'.at = "down" => sup.at = "down" \/ sup'.fault = Unset
      PROVE  FaultNotOlder'
  BY <1>0, <1>1 DEF FaultNotOlder
<1>2. CASE StartService
  <2>1. /\ sup' = [sup EXCEPT !.wait = 0] /\ progressAge' = progressAge
        /\ poweroff' = poweroff
    BY <1>2, Zenon DEF StartService, history
  <2> QED
    BY <1>0, <1>1, <2>1 DEF SupervisorStates
<1>3. CASE StopService
  BY <1>0, <1>1, <1>3 DEF StopService, SupervisorStates, history
<1>4. CASE Respawn
  BY <1>0, <1>4 DEF Respawn, SupervisorStates, FaultNotOlder
<1>5. CASE Retire \/ Record \/ Watch \/ ReadNow \/ KillStalled \/ NextRound \/ TrapFull
  <2>1. /\ progressAge' = progressAge /\ sup'.fault = sup.fault /\ sup'.at # "down"
        /\ poweroff' = poweroff
    BY <1>0, <1>5 DEF Retire, Record, Watch, ReadNow, KillStalled, NextRound, TrapFull, Go, At,
                      SupervisorStates, history
  <2> QED
    BY <1>1, <2>1
<1>15. CASE FirstFull("begin", "retire") \/ FirstFull("full", "start") \/ TrapExit
            \/ TermUntrapped \/ KillSupervisor
  <2>1. progressAge' = progressAge /\ poweroff' = poweroff
    BY <1>15 DEF FirstFull, TrapExit, TermUntrapped, KillSupervisor
  <2>2. \/ sup'.fault = Unset
        \/ sup'.fault = sup.fault /\ sup'.at # "down"
    BY <1>0, <1>15 DEF FirstFull, TrapExit, TermUntrapped, KillSupervisor, Exit, NoSupervisor,
                       Go, At, SupervisorStates
  <2> QED
    BY <1>1, <2>1, <2>2
<1>6. CASE BeginRound
  <2>1. /\ sup' = [sup EXCEPT !.at = "fork", !.started = 0] /\ sup.at = "start"
        /\ progressAge' = progressAge /\ poweroff' = poweroff
    BY <1>6, Zenon DEF BeginRound, At
  <2> QED
    BY <1>0, <1>1, <2>1 DEF SupervisorStates
<1>7. ASSUME NEW w \in Workers, Fork(w) PROVE FaultNotOlder'
  BY <1>0, <1>1, <1>7 DEF Fork, At, SupervisorStates
<1>8. CASE Check
  <2>1. progressAge' = progressAge /\ poweroff' = poweroff
    BY <1>8 DEF Check, history
  <2>2. sup'.fault \in {sup.fault, Unset} /\ sup'.at # "down"
    <3>1. CASE Stalled
      BY <1>0, <1>8, <3>1 DEF Check, Go, SupervisorStates
    <3>2. CASE ~Stalled
      <4>1. sup' = [sup EXCEPT !.at = "watch",
                               !.fault = IF files.beat < sup.started THEN Unset ELSE @]
        BY <1>8, <3>2 DEF Check
      <4> QED
        BY <1>0, <4>1 DEF SupervisorStates
    <3> QED
      BY <3>1, <3>2
  <2> QED
    BY <1>1, <2>1, <2>2
<1>9. CASE GiveUp
  <2>1. /\ sup' = [sup EXCEPT !.at = "rest", !.wait = Poll, !.fault = IF @ = Unset THEN 0 ELSE @]
        /\ progressAge' = progressAge /\ poweroff' = (poweroff \/ sup.fault >= FaultLimit)
    BY <1>9, Zenon DEF GiveUp, history
  <2>2. sup'.fault = (IF sup.fault = Unset THEN 0 ELSE sup.fault) /\ sup'.at = "rest"
    BY <1>0, <2>1 DEF SupervisorStates
  <2>3. ~poweroff' => ~poweroff
    BY <2>1
  <2> QED
    BY <1>0, <2>1, <2>2, <2>3 DEF FaultNotOlder
<1>10. ASSUME NEW w \in Workers, WorkerNextCycle(w) PROVE FaultNotOlder'
  <2>1. /\ worker[w].at = "sleep" /\ worker[w].left = 0 /\ sup' = sup
        /\ progressAge' = IF worker[w].beat /\ w = sup.child /\ unrecorded = {}
                          THEN 0 ELSE progressAge
        /\ poweroff' = poweroff
    BY <1>10, Zenon DEF WorkerNextCycle, On
  <2>2. CASE worker[w].beat /\ w = sup.child /\ unrecorded = {}
    <3>1. ~Beaten
      BY <2>1, <2>2 DEF NextCheckSees, ProgressInv
    <3>2. sup.at = "down" \/ sup.fault = Unset
      BY <2>1, <2>2, <3>1 DEF Beaten, Alive
    <3> QED
      BY <1>0, <2>1, <3>2 DEF FaultNotOlder
  <2>3. CASE ~(worker[w].beat /\ w = sup.child /\ unrecorded = {})
    BY <1>1, <2>1, <2>3
  <2> QED
    BY <2>2, <2>3
<1>11. ASSUME NEW w \in Workers, WorkerBeat(w) PROVE FaultNotOlder'
  <2>1. sup' = sup /\ progressAge' = progressAge /\ poweroff' = poweroff
    BY <1>11, Zenon DEF WorkerBeat
  <2> QED
    BY <1>1, <2>1
<1>12. ASSUME NEW w \in Workers,
              \/ WorkerBegin(w) \/ WorkerWrite(w) \/ WorkerTrap(w)
              \/ WorkerUnstick(w) \/ KillWorker(w) \/ WorkerStick(w)
       PROVE  FaultNotOlder'
  BY <1>1, <1>12 DEF WorkerBegin, WorkerWrite, WorkerTrap, WorkerUnstick, KillWorker,
                     WorkerStick, history
<1>13. CASE BreakDevice \/ UNCHANGED vars
  BY <1>1, <1>13 DEF BreakDevice, vars, history
<1>14. CASE Tick
  <2>1. /\ sup'.at = (IF sup.at = "compare" THEN "late" ELSE sup.at)
        /\ sup'.fault = Older(sup.fault, FaultLimit) /\ poweroff' = poweroff
    BY <1>0, <1>14 DEF Tick, SupervisorStates
  <2>2. sup.at # "down" /\ ~poweroff => progressAge' = Older(progressAge, FaultLimit)
    BY <1>14 DEF Tick
  <2> QED
    BY <1>0, <2>1, <2>2 DEF FaultNotOlder, Older
<1> QED
  BY <1>2, <1>3, <1>4, <1>5, <1>6, <1>7, <1>8, <1>9, <1>10, <1>11, <1>12, <1>13, <1>14, <1>15
  DEF Next, Supervise, Work

(* The supervisor powers off only after FaultLimit seconds in which no     *)
(* child that was the only one to write the heartbeat completed a cycle    *)
(* and began the next: it sees every such cycle before the next begins.    *)
THEOREM SupervisionPowerOffJustified == Spec => PowerOffJustified
<1> DEFINE IInv == TypeOK /\ PidInv /\ CalmInv /\ ProgressInv
<1>1. Init => IInv
  BY TypeInit, PidInit, LowInit, ProgressInit
<1>2. IInv /\ [Next]_vars => IInv'
  <2>1. PidInv => ChildNamed
    BY DEF PidInv
  <2>2. CalmInv => Waits
    BY DEF CalmInv
  <2> QED
    BY <2>1, <2>2, TypeStep, PidStep, CalmStep, PlacesStep, SeesStep, FaultStep DEF ProgressInv
<1>3. IInv /\ [Next]_vars => [poweroff' /\ ~poweroff => progressAge >= FaultLimit]_vars
  <2> SUFFICES ASSUME IInv, Next, poweroff', ~poweroff
               PROVE  progressAge >= FaultLimit
    OBVIOUS
  <2>1. CASE GiveUp
    <3>1. sup.at = "giveup" /\ sup.fault >= FaultLimit
      BY <2>1, Zenon DEF GiveUp, At
    <3>2. sup.fault \in Nat \cup {Unset} /\ FaultLimit \in Nat /\ progressAge \in Nat /\ Unset = -1
      BY Times DEF TypeOK, SupervisorStates, Unset
    <3> QED
      BY <3>1, <3>2 DEF ProgressInv, FaultNotOlder
  <2>2. CASE ~GiveUp
    <3>1. poweroff' = poweroff
      BY <2>2
      DEF Next, Supervise, Work, StartService, StopService, Respawn, FirstFull, Retire,
          BeginRound, Fork, Record, Watch, ReadNow, Check, KillStalled, NextRound, TrapFull,
          TrapExit, TermUntrapped, WorkerBegin, WorkerWrite, WorkerBeat, WorkerNextCycle, WorkerTrap,
          WorkerUnstick, KillSupervisor, KillWorker, WorkerStick, BreakDevice, Tick
    <3> QED
      BY <3>1
  <2> QED
    BY <2>1, <2>2
<1> QED
  BY <1>1, <1>2, <1>3, PTL DEF Spec, PowerOffJustified
=============================================================================
