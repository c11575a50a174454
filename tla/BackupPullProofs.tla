-------------------------- MODULE BackupPullProofs --------------------------
(***************************************************************************)
(* Proofs about BackupPull for any number of jobs, any volumes and any     *)
(* number of mounts: one inductive invariant, PullInv, and the safety      *)
(* properties that follow from it.                                         *)
(***************************************************************************)
EXTENDS BackupPull, SequenceTheorems, TLAPS

\* The descriptor of the lock is open in the processes of one job only.
OneHolder == \A i, j \in Jobs : Holding(i) /\ Holding(j) => i = j

\* A living shell outside its pipeline has no transfer of its own running, but
\* for one that it was cut off from.
WaitsForPipeline == \A j \in Jobs : ShellLives(j) /\ pc[j] # "pipe" =>
                       sub[j] # "run" /\ (rsync[j] = "run" => CutOff(j))

\* Past the marker check the shell stands on the marked wanted volume.
StandsOnWanted == \A j \in Jobs : pc[j] \in {"dest", "record", "clear", "start"}
                                    => cwd[j] = Wanted /\ Wanted \in marked

\* The status is written before the transfer starts, if it can be, and says so
\* until the report.
RecordedFirst == \A j \in Jobs : pc[j] \in {"clear", "start", "pipe", "result"}
                                   => status = Says(j, "running") \/ j \in silent

\* A job has one transfer.
NotYetStarted == \A j \in Jobs : pc[j] \in {"idle", "locked", "record", "clear", "start"} \cup Early
                                   => sub[j] = "off" /\ rsync[j] = "off"

\* What rsync.rc holds, from the clearing of line 55 to the report.
ResultIsOwn ==
  \A j \in Jobs :
    /\ pc[j] = "start" => rc = None
    /\ pc[j] \in {"pipe", "result"} =>
         /\ sub[j] # "off" /\ rsync[j] # "off"
         /\ sub[j] = "run" => rc = None
         /\ sub[j] = "done" => rsync[j] \in Codes /\ rc = rsync[j]
         /\ sub[j] = "killed" => rc \in {None, "empty"}

PullInv == /\ TypeOK /\ OneHolder /\ WaitsForPipeline /\ StandsOnWanted
           /\ RecordedFirst /\ NotYetStarted /\ ResultIsOwn /\ VerifiedVolume /\ StatusOfTransfer

-----------------------------------------------------------------------------
LEMMA PullInit == Init => PullInv
<1> SUFFICES ASSUME Init PROVE PullInv
  OBVIOUS
<1>1. TypeOK
  <2>1. mounts \in Seq(Volumes)
    <3>1. CASE mounts = <<>>
      BY <3>1
    <3>2. CASE \E v \in Volumes : mounts = <<v>>
      BY <3>2
    <3>3. QED
      BY <3>1, <3>2 DEF Init
  <2>2. QED
    BY <2>1, NamesAreDistinct DEF Init, TypeOK, Places, Codes, Says
<1>2. OneHolder /\ WaitsForPipeline /\ StandsOnWanted /\ RecordedFirst
  BY DEF Init, OneHolder, Holding, ShellLives, Writing, WaitsForPipeline,
         StandsOnWanted, RecordedFirst
<1>3. NotYetStarted /\ ResultIsOwn /\ VerifiedVolume /\ StatusOfTransfer
  BY DEF Init, NotYetStarted, ResultIsOwn, VerifiedVolume, StatusOfTransfer
<1>4. QED
  BY <1>1, <1>2, <1>3 DEF PullInv

\* The working directory becomes a place.
LEMMA TopIsPlace == TypeOK => Top \in Places
  BY DEF TypeOK, Top, Places

\* What is left when the covering volume is detached.
LEMMA SubSeqOfVolumes ==
  ASSUME NEW s \in Seq(Volumes), s # <<>>
  PROVE  SubSeq(s, 1, Len(s) - 1) \in Seq(Volumes)
<1>1. Len(s) \in Nat /\ Len(s) > 0
  BY EmptySeq
<1>2. \A i \in 1 .. Len(s) - 1 : s[i] \in Volumes
  BY <1>1, ElementOfSeq
<1>3. QED
  BY <1>1, <1>2, SubSeqProperties

LEMMA PullStep == PullInv /\ [Next]_vars => PullInv'
<1> SUFFICES ASSUME PullInv, [Next]_vars PROVE PullInv'
  OBVIOUS
<1> USE NamesAreDistinct DEF PullInv
<1>1. ASSUME NEW j \in Jobs, Script(j) PROVE PullInv'
  <2> USE DEF TypeOK, Trapped, Early, Goto, Record, environment, pipeline, At,
              said, Says, CutOff, OneHolder, WaitsForPipeline, StandsOnWanted, RecordedFirst,
              NotYetStarted, ResultIsOwn, VerifiedVolume, StatusOfTransfer, Holding,
              ShellLives, Writing, Codes
  <2>1. CASE Open(j)
    <3>1. CASE Locked
      BY <2>1, <3>1 DEF Open
    <3>2. CASE ~Locked
      <4>1. \A i \in Jobs : ~Holding(i)
        BY <3>2 DEF Locked
      <4>2. QED
        BY <2>1, <3>2, <4>1 DEF Open
    <3>3. QED
      BY <3>1, <3>2
  <2>2. CASE SetTraps(j)
    BY <2>2 DEF SetTraps
  <2>3. CASE Fail(j)
    <3>1. ShellLives(j) /\ pc[j] \in Early
      BY <2>3 DEF Fail
    <3>2. \A i \in Jobs : ~Writing(i)
      BY <3>1
    <3>3. /\ pc' = [pc EXCEPT ![j] = "exit"]
          /\ status' \in {status, [job |-> j, word |-> "failed"]}
          /\ silent' \in {silent, silent \cup {j}} /\ changes' \in 0 .. ChangeLimit
      BY <2>3 DEF Fail
    <3>4. UNCHANGED <<mounts, marked, term, cwd, pipeline, rc>>
      BY <2>3 DEF Fail
    <3>5. TypeOK'
      BY <3>3, <3>4
    <3>6. OneHolder' /\ WaitsForPipeline' /\ VerifiedVolume' /\ StatusOfTransfer'
      BY <3>1, <3>2, <3>3, <3>4
    <3>7. StandsOnWanted' /\ NotYetStarted' /\ ResultIsOwn'
      BY <3>3, <3>4
    <3>8. RecordedFirst'
      <4>1. \A i \in Jobs : i # j => ~ShellLives(i)
        BY <3>1
      <4>2. QED
        BY <3>3, <4>1
    <3>9. QED
      BY <3>5, <3>6, <3>7, <3>8
  <2>4. CASE ReadConfig(j)
    BY <2>4 DEF ReadConfig
  <2>5. CASE ChangeDirectory(j)
    BY <2>5, TopIsPlace DEF ChangeDirectory
  <2>6. CASE CheckMounts(j)
    BY <2>6 DEF CheckMounts
  <2>7. CASE Query(j)
    BY <2>7 DEF Query
  <2>8. CASE CheckMarker(j)
    BY <2>8 DEF CheckMarker
  <2>9. CASE PrepareDestination(j)
    BY <2>9 DEF PrepareDestination
  <2>10. CASE RecordRunning(j)
    <3>1. pc[j] = "record" /\ pc' = [pc EXCEPT ![j] = "clear"]
          /\ \/ status' = [job |-> j, word |-> "running"] /\ silent' = silent
             \/ status' = status /\ silent' = silent \cup {j}
          /\ changes' \in 0 .. ChangeLimit
          /\ UNCHANGED <<mounts, marked, term, cwd, pipeline, rc>>
      BY <2>10 DEF RecordRunning
    <3>2. \A i \in Jobs : ~Writing(i) /\ (i # j => ~ShellLives(i))
      BY <3>1
    <3>3. TypeOK'
      BY <3>1
    <3>4. OneHolder' /\ WaitsForPipeline' /\ VerifiedVolume' /\ StatusOfTransfer'
      BY <3>1, <3>2
    <3>5. StandsOnWanted' /\ NotYetStarted' /\ ResultIsOwn'
      BY <3>1
    <3>6. RecordedFirst'
      BY <3>1, <3>2
    <3>7. QED
      BY <3>3, <3>4, <3>5, <3>6
  <2>11. CASE ClearResult(j)
    BY <2>11 DEF ClearResult
  <2>12. CASE StartTransfer(j)
    BY <2>12 DEF StartTransfer, Places
  <2>13. CASE PipelineEnds(j)
    BY <2>13 DEF PipelineEnds
  <2>14. CASE Report(j)
    <3>1. /\ pc[j] = "result" /\ pc' = [pc EXCEPT ![j] = "exit"]
          /\ \/ status' = [job |-> j, word |-> Outcome(rc)] /\ silent' = silent
             \/ status' = status /\ silent' = silent \cup {j}
          /\ changes' \in 0 .. ChangeLimit
          /\ UNCHANGED <<mounts, marked, term, cwd, pipeline, rc>>
      BY <2>14 DEF Report
    <3>2. /\ \A i \in Jobs : i # j => ~Writing(i) /\ ~ShellLives(i)
          /\ rsync[j] = "run" => CutOff(j) /\ Outcome(rc) = "failed"
      BY <3>1 DEF Outcome
    <3>3. TypeOK'
      BY <3>1 DEF Outcome
    <3>4. OneHolder' /\ WaitsForPipeline' /\ VerifiedVolume'
      BY <3>1
    <3>5. StatusOfTransfer'
      BY <3>1, <3>2
    <3>6. StandsOnWanted' /\ NotYetStarted' /\ ResultIsOwn'
      BY <3>1
    <3>7. RecordedFirst'
      BY <3>1, <3>2
    <3>8. QED
      BY <3>3, <3>4, <3>5, <3>6, <3>7
  <2>15. CASE Exit(j)
    <3>1. /\ pc[j] = "exit" /\ pc' = [pc EXCEPT ![j] = "gone"] /\ rc' = None
          /\ UNCHANGED <<environment, term, cwd, pipeline, said>>
      BY <2>15 DEF Exit
    <3>2. \A i \in Jobs : i # j => ~ShellLives(i)
      BY <3>1
    <3>3. TypeOK' /\ OneHolder' /\ WaitsForPipeline'
      BY <3>1
    <3>4. VerifiedVolume' /\ StatusOfTransfer' /\ StandsOnWanted' /\ RecordedFirst'
      BY <3>1
    <3>5. NotYetStarted' /\ ResultIsOwn'
      BY <3>1, <3>2
    <3>6. QED
      BY <3>3, <3>4, <3>5
  <2>16. CASE HandleSignal(j)
    <3>1. /\ pc[j] \in Trapped \ {"pipe"} /\ pc' = [pc EXCEPT ![j] = "exit"]
          /\ \/ status' = [job |-> j, word |-> "failed"] /\ silent' = silent
             \/ status' = status /\ silent' = silent \cup {j}
          /\ changes' \in 0 .. ChangeLimit /\ term' = [term EXCEPT ![j] = FALSE]
          /\ UNCHANGED <<mounts, marked, cwd, pipeline, rc>>
      BY <2>16 DEF HandleSignal
    <3>2. /\ \A i \in Jobs : i # j => ~Writing(i) /\ ~ShellLives(i)
          /\ rsync[j] = "run" => CutOff(j)
      BY <3>1
    <3>3. TypeOK'
      BY <3>1
    <3>4. OneHolder' /\ WaitsForPipeline' /\ VerifiedVolume'
      BY <3>1
    <3>5. StatusOfTransfer'
      BY <3>1, <3>2
    <3>6. StandsOnWanted' /\ NotYetStarted' /\ ResultIsOwn'
      BY <3>1
    <3>7. RecordedFirst'
      BY <3>1, <3>2
    <3>8. QED
      BY <3>3, <3>4, <3>5, <3>6, <3>7
  <2>17. QED
    BY <1>1, <2>1, <2>2, <2>3, <2>4, <2>5, <2>6, <2>7, <2>8, <2>9, <2>10, <2>11,
       <2>12, <2>13, <2>14, <2>15, <2>16 DEF Script
<1>2. ASSUME NEW j \in Jobs, Transfer(j) PROVE PullInv'
  <2> USE DEF TypeOK, Trapped, Early, environment, said, CutOff, OneHolder, WaitsForPipeline,
              StandsOnWanted, RecordedFirst, NotYetStarted, ResultIsOwn, VerifiedVolume,
              StatusOfTransfer, Holding, ShellLives, Writing, Codes
  <2>1. CASE RsyncExits(j)
    BY <2>1 DEF RsyncExits
  <2>2. CASE WriteResult(j)
    BY <2>2 DEF WriteResult
  <2>3. QED
    BY <1>2, <2>1, <2>2 DEF Transfer
<1>3. ASSUME NEW j \in Jobs, Faults(j) PROVE PullInv'
  <2> USE DEF TypeOK, Trapped, Early, Goto, environment, pipeline, said, CutOff, OneHolder,
              WaitsForPipeline, StandsOnWanted, RecordedFirst, NotYetStarted,
              ResultIsOwn, VerifiedVolume, StatusOfTransfer, Holding, ShellLives, Writing, Codes
  <2>1. CASE Signal(j)
    <3>1. CASE pc[j] = "locked" /\ Goto(j, "gone") /\ UNCHANGED term
      BY <2>1, <3>1 DEF Signal
    <3>2. CASE pc[j] \in Trapped /\ term' = [term EXCEPT ![j] = TRUE] /\ UNCHANGED pc
      BY <2>1, <3>2 DEF Signal
    <3>3. QED
      BY <2>1, <3>1, <3>2 DEF Signal
  <2>2. CASE KillShell(j)
    BY <2>2 DEF KillShell
  <2>3. CASE KillSubshell(j)
    BY <2>3 DEF KillSubshell, SubshellDies
  <2>4. CASE KillReaders(j)
    BY <2>4 DEF KillReaders
  <2>5. CASE SignalGroup(j)
    BY <2>5 DEF SignalGroup, SubshellDies
  <2>6. QED
    BY <1>3, <2>1, <2>2, <2>3, <2>4, <2>5 DEF Faults
<1>4. ASSUME \/ \E v \in Volumes : Mount(v)
             \/ Detach
             \/ UNCHANGED vars
      PROVE PullInv'
  <2>1. TypeOK'
    <3>1. CASE \E v \in Volumes : Mount(v)
      BY <3>1 DEF TypeOK, Mount, pipeline, said
    <3>2. CASE Detach
      <4>1. mounts' \in Seq(Volumes)
        BY <3>2, SubSeqOfVolumes DEF Detach, TypeOK
      <4>2. QED
        BY <3>2, <4>1 DEF TypeOK, Detach, pipeline, said
    <3>3. CASE UNCHANGED vars
      BY <3>3 DEF TypeOK, vars
    <3>4. QED
      BY <1>4, <3>1, <3>2, <3>3
  <2>2. UNCHANGED <<marked, pc, term, cwd, sub, deaf, rsync, dest, rc, status, silent>>
    BY <1>4 DEF Mount, Detach, vars, pipeline, said
  <2>3. QED
    BY <2>1, <2>2 DEF OneHolder, WaitsForPipeline, StandsOnWanted, RecordedFirst,
       NotYetStarted, ResultIsOwn, VerifiedVolume, StatusOfTransfer, Holding, ShellLives,
       Writing, CutOff, Says, Early
<1>5. QED
  BY <1>1, <1>2, <1>3, <1>4 DEF Next

LEMMA PullInvariant == Spec => []PullInv
  BY PullInit, PullStep, PTL DEF Spec

\* Every variable of the pull job keeps its type.
THEOREM PullTyped == Spec => []TypeOK
<1>1. PullInv => TypeOK
  BY DEF PullInv
<1>2. QED
  BY <1>1, PullInvariant, PTL

\* At most one transfer runs, for any number of jobs and any deaths: a transfer
\* that survives its shell keeps the lock (lines 9-10, 56-61).
THEOREM PullOneTransfer == Spec => []OneTransfer
<1>1. PullInv => OneTransfer
  BY DEF PullInv, OneHolder, OneTransfer, Holding
<1>2. QED
  BY <1>1, PullInvariant, PTL

\* Every transfer writes to the marked, configured volume, for any sequence of
\* mounts and detachments (lines 34-50 and the relative destination of line 59).
THEOREM PullVerifiedVolume == Spec => []VerifiedVolume
<1>1. PullInv => VerifiedVolume
  BY DEF PullInv
<1>2. QED
  BY <1>1, PullInvariant, PTL

\* While a transfer runs, living shell or not, the status file says so, unless
\* the job could not write it or was cut off from its transfer.
THEOREM PullStatusOfTransfer == Spec => []StatusOfTransfer
<1>1. PullInv => StatusOfTransfer
  BY DEF PullInv
<1>2. QED
  BY <1>1, PullInvariant, PTL

\* A success or a warning is always that of the reporting job's own rsync.
THEOREM PullSuccessIsEarned == Spec => SuccessIsEarned
<1> DEFINE Earned == \A j \in Jobs : status'.job = j /\ status'.word \in {"ok", "warn"}
                       => status' = status \/ status'.word = Outcome(rsync[j])
<1>1. ASSUME PullInv, [Next]_vars PROVE Earned
  <2>1. ASSUME NEW j \in Jobs, Report(j) PROVE Earned
    <3>1. /\ status' \in {status, [job |-> j, word |-> Outcome(rc)]}
          /\ pc[j] = "result"
      BY <2>1 DEF Report, Record, Says, At
    <3>2. CASE sub[j] = "done"
      BY <1>1, <3>1, <3>2 DEF PullInv, ResultIsOwn
    <3>3. CASE sub[j] # "done"
      <4>1. sub[j] = "killed"
        BY <1>1, <3>1, <3>3 DEF PullInv, TypeOK, ResultIsOwn, WaitsForPipeline, ShellLives, Writing
      <4>2. Outcome(rc) = "failed"
        BY <1>1, <3>1, <4>1, NamesAreDistinct DEF PullInv, ResultIsOwn, Outcome
      <4>3. QED
        BY <3>1, <4>2
    <3>4. QED
      BY <3>2, <3>3
  <2>2. ASSUME NEW j \in Jobs, Script(j), ~Report(j) PROVE Earned
    <3>1. \/ UNCHANGED status
          \/ status'.word \in {"running", "failed"}
      BY <2>2 DEF Script, Open, SetTraps, Fail, ReadConfig, ChangeDirectory, CheckMounts,
         Query, CheckMarker, PrepareDestination, RecordRunning, ClearResult,
         StartTransfer, PipelineEnds, Exit, HandleSignal, Record, Says, said
    <3>2. QED
      BY <3>1
  <2>3. ASSUME \/ \E j \in Jobs : Transfer(j) \/ Faults(j)
               \/ \E v \in Volumes : Mount(v)
               \/ Detach
               \/ UNCHANGED vars
        PROVE Earned
    <3>1. UNCHANGED status
      BY <2>3 DEF Transfer, RsyncExits, WriteResult, Faults, Signal, SignalGroup, KillShell,
         KillSubshell, KillReaders, Mount, Detach, vars, said
    <3>2. QED
      BY <3>1
  <2>4. QED
    BY <1>1, <2>1, <2>2, <2>3 DEF Next
<1>2. QED
  BY <1>1, PullInvariant, PTL DEF Spec, SuccessIsEarned

\* An undisturbed job reports exactly what its rsync returned, if it can write.
THEOREM PullResultNotLost == Spec => ResultNotLost
<1> DEFINE Kept(j) == pc[j] = "result" /\ pc'[j] = "exit" /\ ~term[j] /\ sub[j] = "done"
                        => status' = Says(j, Outcome(rsync[j])) \/ changes' > changes
<1>1. ASSUME PullInv, [Next]_vars, NEW j \in Jobs PROVE Kept(j)
  <2>1. CASE Report(j)
    <3>1. changes \in Nat
      BY <1>1, NamesAreDistinct DEF PullInv, TypeOK
    <3>2. QED
      BY <1>1, <2>1, <3>1 DEF Report, Record, At, PullInv, ResultIsOwn
  <2>2. CASE \E i \in Jobs : i # j /\ (Script(i) \/ Transfer(i) \/ Faults(i))
    <3>1. pc'[j] = pc[j]
      BY <1>1, <2>2 DEF PullInv, TypeOK, Script, Open, SetTraps, Fail, ReadConfig,
         ChangeDirectory, CheckMounts, Query, CheckMarker, PrepareDestination,
         RecordRunning, ClearResult, StartTransfer, PipelineEnds, Report, Exit,
         HandleSignal, Transfer, RsyncExits, WriteResult, Faults, Signal, SignalGroup,
         KillShell, KillSubshell, KillReaders, Goto
    <3>2. QED
      BY <3>1
  <2>3. CASE Transfer(j) \/ Faults(j)
    <3>1. pc'[j] = pc[j] \/ pc'[j] = "gone"
      BY <1>1, <2>3 DEF PullInv, TypeOK, Transfer, RsyncExits, WriteResult, Faults,
         Signal, SignalGroup, KillShell, KillSubshell, KillReaders, Goto
    <3>2. QED
      BY <3>1
  <2>4. CASE Script(j) /\ ~Report(j)
    <3>1. pc[j] = "result" => term[j]
      BY <2>4 DEF Script, Open, SetTraps, Fail, ReadConfig, ChangeDirectory, CheckMounts,
         Query, CheckMarker, PrepareDestination, RecordRunning, ClearResult,
         StartTransfer, PipelineEnds, Exit, HandleSignal, At, Early
    <3>2. QED
      BY <3>1
  <2>5. CASE (\E v \in Volumes : Mount(v)) \/ Detach \/ UNCHANGED vars
    BY <2>5 DEF Mount, Detach, vars
  <2>6. QED
    BY <1>1, <2>1, <2>2, <2>3, <2>4, <2>5 DEF Next
<1>2. ASSUME PullInv, [Next]_vars PROVE \A j \in Jobs : Kept(j)
  BY <1>1, <1>2
<1>3. QED
  BY <1>2, PullInvariant, PTL DEF Spec, ResultNotLost

-----------------------------------------------------------------------------
\* The refinement: the four steps that the service has, and all the others.

LEMMA OneTransferAtMost ==
  ASSUME PullInv, NEW j \in Jobs, rsync[j] = "run"
  PROVE  Transfers = {[job |-> j, into |-> dest[j], cut |-> CutOff(j)]}
<1>1. \A i \in Jobs : rsync[i] = "run" => i = j
  BY DEF PullInv, OneHolder, Holding, Writing
<1>2. QED
  BY <1>1 DEF Transfers

LEMMA NoneWhileShellWaits ==
  ASSUME PullInv, NEW j \in Jobs, ShellLives(j), rsync[j] # "run"
  PROVE  /\ \A i \in Jobs : rsync[i] # "run"
         /\ Transfers = {}
<1>1. \A i \in Jobs : rsync[i] # "run"
  BY DEF PullInv, OneHolder, Holding, Writing
<1>2. QED
  BY <1>1 DEF Transfers

LEMMA OnlyOwnWhileShellLives ==
  ASSUME PullInv, NEW j \in Jobs, ShellLives(j), pc[j] # "pipe"
  PROVE  \A t \in Transfers : t.job = j /\ t.cut
<1>1. \A i \in Jobs : rsync[i] = "run" => i = j
  BY DEF PullInv, OneHolder, Holding, Writing
<1>2. rsync[j] = "run" => CutOff(j)
  BY DEF PullInv, WaitsForPipeline
<1>3. QED
  BY <1>1, <1>2 DEF Transfers

LEMMA ServiceInitially == Init => Service!ServiceInit
<1> SUFFICES ASSUME Init PROVE Service!ServiceInit
  OBVIOUS
<1>1. Transfers = {}
  BY DEF Init, Transfers
<1>2. Ended = [j \in Jobs |-> None]
  BY DEF Init, Ended, Codes
<1>3. QED
  BY <1>1, <1>2 DEF Init, Says, Service!ServiceInit, Service!Says

LEMMA Unobserved ==
  ASSUME UNCHANGED <<rsync, dest, status, silent>>, \A j \in Jobs : CutOff(j)' = CutOff(j)
  PROVE  UNCHANGED Service!serviceVars
<1>1. Transfers' = Transfers
  BY DEF Transfers
<1>2. Ended' = Ended
  BY DEF Ended
<1>3. QED
  BY <1>1, <1>2 DEF Service!serviceVars

LEMMA ReportIsServed ==
  ASSUME PullInv, NEW j \in Jobs, Report(j)
  PROVE  Service!Succeed(j) \/ Service!GiveUp(j) \/ Service!Silence(j)
<1>1. /\ pc[j] = "result"
      /\ \/ status' = [job |-> j, word |-> Outcome(rc)] /\ silent' = silent
         \/ status' = status /\ silent' = silent \cup {j}
      /\ UNCHANGED <<sub, deaf, rsync, dest>>
  BY DEF Report, Record, Says, At, pipeline
<1>2. /\ \A t \in Transfers : t.job = j /\ t.cut
      /\ status = [job |-> j, word |-> "running"] \/ j \in silent
  BY <1>1, OnlyOwnWhileShellLives DEF ShellLives, PullInv, RecordedFirst, Says
<1>3. Transfers' = Transfers /\ Ended' = Ended
  BY <1>1 DEF Transfers, Ended, CutOff
<1>7. CASE status' = status /\ silent' = silent \cup {j}
  BY <1>3, <1>7 DEF Service!Silence
<1>4. CASE /\ status' = [job |-> j, word |-> Outcome(rc)] /\ silent' = silent
           /\ Outcome(rc) = "failed"
  BY <1>1, <1>2, <1>3, <1>4 DEF Service!GiveUp, Service!Says
<1>5. CASE /\ status' = [job |-> j, word |-> Outcome(rc)] /\ silent' = silent
           /\ Outcome(rc) # "failed"
  <2>1. rc \in {"0", "24"}
    BY <1>5 DEF Outcome
  <2>2. sub[j] = "done" /\ rsync[j] = rc
    BY <1>1, <2>1, NamesAreDistinct
    DEF PullInv, ResultIsOwn, TypeOK, WaitsForPipeline, ShellLives, Writing
  <2>3. Ended[j] = rc /\ Transfers = {}
    <3>1. rsync[j] # "run" /\ ShellLives(j)
      BY <1>1, <2>1, <2>2 DEF ShellLives
    <3>2. QED
      BY <2>1, <2>2, <3>1, NoneWhileShellWaits DEF Ended, Codes
  <2>4. Outcome(rc) = Service!Good[rc]
    BY <2>1 DEF Outcome, Service!Good
  <2>5. QED
    BY <1>1, <1>2, <1>3, <1>5, <2>1, <2>3, <2>4
    DEF Service!Succeed, Service!Announced, Service!Says
<1>6. QED
  BY <1>1, <1>4, <1>5, <1>7

LEMMA FailureIsServed ==
  ASSUME PullInv, NEW j \in Jobs, Fail(j) \/ HandleSignal(j)
  PROVE  Service!GiveUp(j) \/ Service!Silence(j)
<1>1. ShellLives(j) /\ pc[j] # "pipe"
  BY DEF Fail, HandleSignal, ShellLives, Early, Trapped
<1>2. /\ \/ status' = [job |-> j, word |-> "failed"] /\ silent' = silent
         \/ status' = status /\ silent' = silent \cup {j}
      /\ UNCHANGED <<sub, deaf, rsync, dest>>
  BY DEF Fail, HandleSignal, Record, Says, pipeline
<1>3. Transfers' = Transfers /\ Ended' = Ended
  BY <1>2 DEF Transfers, Ended, CutOff
<1>4. QED
  BY <1>1, <1>2, <1>3, OnlyOwnWhileShellLives
  DEF Service!GiveUp, Service!Silence, Service!Says

LEMMA AnnouncementIsServed ==
  ASSUME PullInv, NEW j \in Jobs, RecordRunning(j)
  PROVE  Service!Announce(j) \/ Service!Silence(j)
<1>1. /\ pc[j] = "record"
      /\ \/ status' = [job |-> j, word |-> "running"] /\ silent' = silent
         \/ status' = status /\ silent' = silent \cup {j}
      /\ UNCHANGED <<sub, deaf, rsync, dest>>
  BY DEF RecordRunning, Record, Says, At, pipeline
<1>2. rsync[j] = "off"
  BY <1>1 DEF PullInv, NotYetStarted
<1>3. Ended[j] = None /\ Transfers = {}
  BY <1>1, <1>2, NoneWhileShellWaits DEF Ended, Codes, ShellLives
<1>4. Transfers' = Transfers /\ Ended' = Ended
  BY <1>1 DEF Transfers, Ended, CutOff
<1>5. QED
  BY <1>1, <1>3, <1>4 DEF Service!Announce, Service!Silence, Service!Says

LEMMA StartIsServed ==
  ASSUME PullInv, NEW j \in Jobs, StartTransfer(j)
  PROVE  Service!Begin(j)
<1>1. /\ pc[j] = "start" /\ UNCHANGED <<status, silent>>
      /\ rsync' = [rsync EXCEPT ![j] = "run"] /\ dest' = [dest EXCEPT ![j] = cwd[j]]
      /\ sub' = [sub EXCEPT ![j] = "run"]
  BY DEF StartTransfer, At, said
<1>3. /\ cwd[j] = Wanted /\ rsync[j] = "off"
      /\ status = [job |-> j, word |-> "running"] \/ j \in silent
  BY <1>1 DEF PullInv, StandsOnWanted, RecordedFirst, NotYetStarted, Says
<1>2. Transfers = {} /\ \A i \in Jobs : rsync[i] # "run"
  BY <1>1, <1>3, NoneWhileShellWaits DEF ShellLives
<1>4. ~CutOff(j)' /\ rsync'[j] = "run" /\ dest'[j] = Wanted /\ \A i \in Jobs : i # j => rsync'[i] = rsync[i]
  BY <1>1, <1>3 DEF PullInv, TypeOK, CutOff
<1>5. Transfers' = {[job |-> j, into |-> Wanted, cut |-> FALSE]}
  <2>1. CutOff(j)' = FALSE
    BY <1>4
  <2>2. \A i \in Jobs : rsync'[i] = "run" <=> i = j
    BY <1>2, <1>4
  <2>3. Transfers' = {[job |-> i, into |-> dest'[i], cut |-> CutOff(i)'] : i \in {j}}
    BY <2>2 DEF Transfers
  <2>4. QED
    BY <1>4, <2>1, <2>3
<1>6. Ended' = Ended /\ Ended[j] = None
  BY <1>3, <1>4 DEF Ended, Codes
<1>7. QED
  BY <1>1, <1>2, <1>3, <1>5, <1>6 DEF Service!Begin, Service!Announced, Service!Says

LEMMA EndIsServed ==
  ASSUME PullInv, NEW j \in Jobs, RsyncExits(j)
  PROVE  Service!End(j)
<1>1. PICK code \in Codes : rsync' = [rsync EXCEPT ![j] = code]
  BY DEF RsyncExits
<1>2. rsync[j] = "run" /\ dest' = dest /\ UNCHANGED <<status, silent>>
  BY DEF RsyncExits, said
<1>3. Transfers = {[job |-> j, into |-> dest[j], cut |-> CutOff(j)]}
  BY <1>2, OneTransferAtMost
<1>4. \A i \in Jobs : i # j => rsync[i] # "run"
  BY <1>2 DEF PullInv, OneHolder, Holding, Writing
<1>5. rsync'[j] = code /\ \A i \in Jobs : i # j => rsync'[i] = rsync[i]
  BY <1>1 DEF PullInv, TypeOK
<1>6. Transfers' = {}
  BY <1>4, <1>5 DEF Transfers, Codes
<1>7. Ended' = [Ended EXCEPT ![j] = code]
  BY <1>5 DEF Ended
<1>8. QED
  BY <1>2, <1>3, <1>6, <1>7 DEF Service!End, Codes

\* A death in the pipeline is one of the service's steps when rsync is left alone.
LEMMA DeathIsServed ==
  ASSUME PullInv, NEW j \in Jobs, SignalGroup(j) \/ KillSubshell(j) \/ KillReaders(j)
  PROVE  Service!Cut(j) \/ UNCHANGED Service!serviceVars
<1>1. /\ UNCHANGED <<rsync, dest, status, silent>>
      /\ deaf' \in {deaf, deaf \cup {j}} /\ deaf \subseteq Jobs
      /\ \A i \in Jobs \ {j} : sub'[i] = sub[i]
      /\ sub[j] = "killed" => sub'[j] = "killed"
  BY DEF SignalGroup, KillSubshell, KillReaders, SubshellDies, said, PullInv, TypeOK
<1>2. /\ \A i \in Jobs \ {j} : CutOff(i)' = CutOff(i)
      /\ CutOff(j) => CutOff(j)'
  BY <1>1 DEF CutOff
<1>3. Ended' = Ended
  BY <1>1 DEF Ended
<1>4. CASE rsync[j] = "run" /\ ~CutOff(j) /\ CutOff(j)'
  <2>1. Transfers = {[job |-> j, into |-> dest[j], cut |-> FALSE]}
    <3>1. CutOff(j) = FALSE
      BY <1>4
    <3>2. QED
      BY <1>4, <3>1, OneTransferAtMost
  <2>2. \A i \in Jobs : rsync[i] = "run" => i = j
    BY <1>4 DEF PullInv, OneHolder, Holding, Writing
  <2>3. Transfers' = {[job |-> j, into |-> dest[j], cut |-> TRUE]}
    <3>1. CutOff(j)' = TRUE
      BY <1>4
    <3>2. Transfers' = {[job |-> i, into |-> dest'[i], cut |-> CutOff(i)'] : i \in {j}}
      BY <1>1, <1>4, <2>2 DEF Transfers
    <3>3. QED
      BY <1>1, <3>1, <3>2
  <2>4. QED
    BY <1>1, <1>3, <2>1, <2>3 DEF Service!Cut
<1>5. CASE ~(rsync[j] = "run" /\ ~CutOff(j) /\ CutOff(j)')
  <2>1. Transfers' = Transfers
    <3>1. \A i \in Jobs : rsync[i] = "run" => CutOff(i)' = CutOff(i)
      <4>1. ASSUME NEW i \in Jobs, rsync[i] = "run" PROVE CutOff(i)' <=> CutOff(i)
        BY <1>2, <1>5, <4>1
      <4>2. \A i \in Jobs : CutOff(i) \in BOOLEAN /\ CutOff(i)' \in BOOLEAN
        BY DEF CutOff
      <4>3. QED
        BY <4>1, <4>2
    <3>2. QED
      BY <1>1, <3>1 DEF Transfers
  <2>2. QED
    BY <1>1, <1>3, <2>1 DEF Service!serviceVars
<1>6. QED
  BY <1>4, <1>5

LEMMA ServiceStep == PullInv /\ [Next]_vars => [Service!ServiceNext]_(Service!serviceVars)
<1> SUFFICES ASSUME PullInv, [Next]_vars PROVE [Service!ServiceNext]_(Service!serviceVars)
  OBVIOUS
<1>1. ASSUME NEW j \in Jobs, Report(j) \/ Fail(j) \/ HandleSignal(j) \/ RecordRunning(j)
                              \/ StartTransfer(j) \/ RsyncExits(j)
      PROVE  Service!ServiceNext
  BY <1>1, ReportIsServed, FailureIsServed, AnnouncementIsServed, StartIsServed, EndIsServed
  DEF Service!ServiceNext
<1>2. ASSUME NEW j \in Jobs,
             \/ Open(j) \/ SetTraps(j) \/ ReadConfig(j) \/ ChangeDirectory(j) \/ CheckMounts(j)
             \/ Query(j) \/ CheckMarker(j) \/ PrepareDestination(j) \/ ClearResult(j)
             \/ PipelineEnds(j) \/ Exit(j) \/ Signal(j) \/ KillShell(j)
      PROVE  UNCHANGED Service!serviceVars
  <2>1. UNCHANGED <<sub, deaf, rsync, dest, status, silent>>
    BY <1>2 DEF Open, SetTraps, ReadConfig, ChangeDirectory, CheckMounts, Query, CheckMarker,
       PrepareDestination, ClearResult, PipelineEnds, Exit, Signal, KillShell, pipeline, said
  <2>2. QED
    BY <2>1, Unobserved DEF CutOff
<1>3. ASSUME (\E v \in Volumes : Mount(v)) \/ Detach \/ UNCHANGED vars
      PROVE  UNCHANGED Service!serviceVars
  <2>1. UNCHANGED <<sub, deaf, rsync, dest, status, silent>>
    BY <1>3 DEF Mount, Detach, vars, pipeline, said
  <2>2. QED
    BY <2>1, Unobserved DEF CutOff
<1>5. ASSUME NEW j \in Jobs, WriteResult(j) PROVE UNCHANGED Service!serviceVars
  <2>1. /\ UNCHANGED <<deaf, rsync, dest, status, silent>>
        /\ sub' = [sub EXCEPT ![j] = "done"] /\ sub[j] = "run"
    BY <1>5 DEF WriteResult, said
  <2>2. \A i \in Jobs : CutOff(i)' = CutOff(i)
    BY <2>1 DEF CutOff, PullInv, TypeOK
  <2>3. QED
    BY <2>1, <2>2, Unobserved
<1>4. QED
  BY <1>1, <1>2, <1>3, <1>5, DeathIsServed
  DEF Next, Script, Transfer, Faults, Service!ServiceNext

\* Any number of copies of ls420d-pull that compete, and are signalled and killed,
\* a process at a time or the whole group, implement the one service of PullService.
THEOREM PullImplementsService == Spec => ImplementsService
<1>1. Spec => [][Service!ServiceNext]_(Service!serviceVars)
  BY PullInvariant, ServiceStep, PTL DEF Spec
<1>2. QED
  BY <1>1, ServiceInitially, PTL DEF Spec, ImplementsService, Service!ServiceSpec
=============================================================================
