----------------------------- MODULE BackupPull -----------------------------
(***************************************************************************)
(* The daily pull job (usr/sbin/ls420d-pull): copies of one shell script,  *)
(* started by cron or by hand, that compete for a flock, check which       *)
(* volume they stand on, run one rsync and leave its result in             *)
(* /var/run/ls420d-pull/status.                                            *)
(*                                                                         *)
(* The lock belongs to the open file of descriptor 9, which the shell's    *)
(* children inherit: it is held as long as the shell, the subshell that    *)
(* waits for rsync, or rsync itself lives.  The environment mounts and     *)
(* detaches volumes at the target, signals or kills processes, one of them *)
(* or the whole foreground group, and fills the RAM that the status is     *)
(* written to.                                                             *)
(*                                                                         *)
(* Abstracted: each step of the script is one action up to the next point  *)
(* where another process can matter; `record` (write, then rename) happens *)
(* at once or not at all; the readers of the log end at once when nobody   *)
(* is left to write to them (until then they hold the lock too).           *)
(***************************************************************************)
EXTENDS Naturals, Sequences

CONSTANTS Jobs,          \* processes running the script, one each
          Volumes,       \* Btrfs file systems that may be mounted
          Wanted,        \* the volume of ls420d-backup.main.volume_uuid
          Ram,           \* the directory of the RAM root under the mount
          None,
          ChangeLimit    \* bound on the number of mounts, detachments and records
                         \* that fail

ASSUME NamesAreDistinct == /\ Wanted \in Volumes
                            /\ Ram \notin Volumes
                            /\ None \notin {"0", "24", "23", "empty"}
                            /\ ChangeLimit \in Nat

VARIABLES
  mounts,    \* volumes mounted at the target, the covering one last
  marked,    \* volumes whose .ls420d-volume file holds their own UUID
  changes,   \* mounts, detachments and failed records so far
  pc,        \* the shell of each job
  term,      \* a trapped signal is pending in the shell
  cwd,       \* the shell's working directory
  sub,       \* the subshell of the pipeline that writes rsync.rc
  deaf,      \* jobs whose log readers were killed during the transfer
  rsync,     \* "off", "run" or its exit status
  dest,      \* the place rsync writes to
  rc,        \* the file rsync.rc
  status,    \* the file status: the job it speaks of, and the word
  silent     \* history: jobs that failed to write the status, at some time

vars == <<mounts, marked, changes, pc, term, cwd, sub, deaf, rsync, dest, rc, status, silent>>
environment == <<mounts, marked, changes>>
pipeline == <<sub, deaf, rsync, dest>>
said == <<status, silent>>

Places == Volumes \cup {Ram}
Codes == {"0", "24", "23"}
Early == {"config", "cd", "mounts", "query", "marker", "dest"}
Trapped == Early \cup {"record", "clear", "start", "pipe", "result", "exit"}

Top == IF mounts = <<>> THEN Ram ELSE mounts[Len(mounts)]
\* What line 64 makes of an exit status of rsync.
Outcome(code) == CASE code = "0" -> "ok" [] code = "24" -> "warn" [] OTHER -> "failed"

ShellLives(j) == pc[j] \notin {"idle", "refused", "gone"}
Writing(j) == sub[j] = "run" \/ rsync[j] = "run"
\* Nobody that the shell waits for is left, whatever rsync does.
CutOff(j) == sub[j] = "killed" /\ j \in deaf
HoldingByShell(j) == ShellLives(j)                                  \* mutant
\* Some process of job j has the locked descriptor 9 open.
Holding(j) == ShellLives(j) \/ Writing(j)
Locked == \E j \in Jobs : Holding(j)

Says(j, word) == [job |-> j, word |-> word]
\* Lines 12-15: nobody looks at whether it succeeds.
Record(j, word) == \/ /\ status' = Says(j, word)
                      /\ UNCHANGED <<changes, silent>>
                   \/ /\ changes < ChangeLimit
                      /\ changes' = changes + 1
                      /\ silent' = silent \cup {j}
                      /\ UNCHANGED status
At(j, here) == pc[j] = here /\ ~term[j]
Goto(j, there) == pc' = [pc EXCEPT ![j] = there]

-----------------------------------------------------------------------------
Init == /\ mounts \in {<<>>} \cup {<<v>> : v \in Volumes}
        /\ marked \in SUBSET Volumes
        /\ changes = 0
        /\ pc = [j \in Jobs |-> "idle"]
        /\ term = [j \in Jobs |-> FALSE]
        /\ cwd = [j \in Jobs |-> Ram]
        /\ sub = [j \in Jobs |-> "off"]
        /\ deaf = {}
        /\ rsync = [j \in Jobs |-> "off"]
        /\ dest = [j \in Jobs |-> None]
        /\ rc = None
        /\ status = Says(None, "none")
        /\ silent = {}

OpenReports(j) == /\ pc[j] = "idle"                               \* mutant
                  /\ Goto(j, IF Locked THEN "refused" ELSE "locked")
                  /\ status' = IF Locked THEN Says(j, "failed") ELSE status
                  /\ UNCHANGED <<environment, term, cwd, pipeline, rc, silent>>
OpenTrapped(j) == /\ pc[j] = "idle"                               \* mutant
                  /\ Goto(j, IF Locked THEN "refused" ELSE "locked")
                  /\ rc' = IF Locked THEN None ELSE rc
                  /\ UNCHANGED <<environment, term, cwd, pipeline, said>>

\* Lines 8-10: a job that finds the lock taken exits 75 with no trap set.
Open(j) == /\ pc[j] = "idle"
           /\ Goto(j, IF Locked THEN "refused" ELSE "locked")
           /\ UNCHANGED <<environment, term, cwd, pipeline, rc, said>>

SetTraps(j) == /\ pc[j] = "locked"
               /\ Goto(j, "config")
               /\ UNCHANGED <<environment, term, cwd, pipeline, rc, said>>

\* fail(): the checks of lines 24-52 that depend on nothing modelled here
\* (missing configuration, a read-only mount, a failed query, a symlink).
Fail(j) == /\ pc[j] \in Early /\ ~term[j]
           /\ Record(j, "failed")
           /\ Goto(j, "exit")
           /\ UNCHANGED <<mounts, marked, term, cwd, pipeline, rc>>

ReadConfig(j) == /\ At(j, "config")
                 /\ Goto(j, "cd")
                 /\ UNCHANGED <<environment, term, cwd, pipeline, rc, said>>

ChangeDirectory(j) == /\ At(j, "cd")
                      /\ cwd' = [cwd EXCEPT ![j] = Top]
                      /\ Goto(j, "mounts")
                      /\ UNCHANGED <<environment, term, pipeline, rc, said>>

\* /proc/mounts is searched for the path, not for the working directory.
CheckMounts(j) == /\ At(j, "mounts")
                  /\ mounts # <<>>
                  /\ Goto(j, "query")
                  /\ UNCHANGED <<environment, term, cwd, pipeline, rc, said>>

\* `btrfs filesystem show --mounted .` resolves "." to a path first, so it may
\* answer for a volume that was mounted over the working directory meanwhile.
Query(j) == /\ At(j, "query")
            /\ Wanted \in {cwd[j], Top}
            /\ Goto(j, "marker")
            /\ UNCHANGED <<environment, term, cwd, pipeline, rc, said>>

CheckNoMarker(j) == /\ At(j, "marker")                              \* mutant
                    /\ Goto(j, "dest")
                    /\ UNCHANGED <<environment, term, cwd, pipeline, rc, said>>

CheckMarker(j) == /\ At(j, "marker")
                  /\ cwd[j] = Wanted /\ cwd[j] \in marked
                  /\ Goto(j, "dest")
                  /\ UNCHANGED <<environment, term, cwd, pipeline, rc, said>>

PrepareDestination(j) == /\ At(j, "dest")
                         /\ Goto(j, "record")
                         /\ UNCHANGED <<environment, term, cwd, pipeline, rc, said>>

RecordRunning(j) == /\ At(j, "record")
                    /\ Record(j, "running")
                    /\ Goto(j, "clear")
                    /\ UNCHANGED <<mounts, marked, term, cwd, pipeline, rc>>

ClearNothing(j) == /\ At(j, "clear")                                \* mutant
                   /\ Goto(j, "start")
                   /\ UNCHANGED <<environment, term, cwd, pipeline, rc, said>>

\* Line 55: forget the result that a killed predecessor's subshell left.
ClearResult(j) == /\ At(j, "clear")
                  /\ rc' = None
                  /\ Goto(j, "start")
                  /\ UNCHANGED <<environment, term, cwd, pipeline, said>>

\* rsync writes to ./pull/ of the directory it inherits.
StartTransfer(j) == /\ At(j, "start")
                    /\ Goto(j, "pipe")
                    /\ sub' = [sub EXCEPT ![j] = "run"]
                    /\ rsync' = [rsync EXCEPT ![j] = "run"]
                    /\ dest' = [dest EXCEPT ![j] = cwd[j]]
                    /\ UNCHANGED <<environment, term, cwd, deaf, rc, said>>

-----------------------------------------------------------------------------
\* rsync ends by itself, after its --timeout, or killed.
RsyncExits(j) == /\ rsync[j] = "run"
                 /\ \E code \in Codes : rsync' = [rsync EXCEPT ![j] = code]
                 /\ UNCHANGED <<environment, pc, term, cwd, sub, deaf, dest, rc, said>>

WriteResult(j) == /\ sub[j] = "run" /\ rsync[j] \in Codes
                  /\ rc' = rsync[j]
                  /\ sub' = [sub EXCEPT ![j] = "done"]
                  /\ UNCHANGED <<environment, pc, term, cwd, deaf, rsync, dest, said>>

\* The shell waits for the subshell and the log readers, which end by themselves
\* only when both writers have, but not for rsync.
PipelineEnds(j) == /\ pc[j] = "pipe" /\ sub[j] # "run"
                   /\ rsync[j] = "run" => j \in deaf
                   /\ Goto(j, "result")
                   /\ UNCHANGED <<environment, term, cwd, pipeline, rc, said>>

\* Lines 62-68; a missing or empty rsync.rc is a failure.
Report(j) == /\ At(j, "result")
             /\ Record(j, Outcome(rc))
             /\ Goto(j, "exit")
             /\ UNCHANGED <<mounts, marked, term, cwd, pipeline, rc>>

\* The EXIT trap removes rsync.rc.
Exit(j) == /\ At(j, "exit")
           /\ rc' = None
           /\ Goto(j, "gone")
           /\ UNCHANGED <<environment, term, cwd, pipeline, said>>

\* INT, TERM or HUP for the shell: fatal before line 22, remembered after it.
Signal(j) == /\ \/ pc[j] = "locked" /\ Goto(j, "gone") /\ UNCHANGED term
                \/ pc[j] \in Trapped /\ term' = [term EXCEPT ![j] = TRUE] /\ UNCHANGED pc
             /\ UNCHANGED <<environment, cwd, pipeline, rc, said>>

HandleAtOnce(j) == /\ term[j] /\ pc[j] \in Trapped                      \* mutant
                   /\ Record(j, "failed")
                   /\ term' = [term EXCEPT ![j] = FALSE]
                   /\ Goto(j, "exit")
                   /\ UNCHANGED <<mounts, marked, cwd, pipeline, rc>>

\* The trap runs between two commands, so not while the pipeline does.
HandleSignal(j) == /\ term[j] /\ pc[j] \in Trapped \ {"pipe"}
                   /\ Record(j, "failed")
                   /\ term' = [term EXCEPT ![j] = FALSE]
                   /\ Goto(j, "exit")
                   /\ UNCHANGED <<mounts, marked, cwd, pipeline, rc>>

\* SIGKILL: no trap, and the children live on.
KillShell(j) == /\ ShellLives(j)
                /\ Goto(j, "gone")
                /\ term' = [term EXCEPT ![j] = FALSE]
                /\ UNCHANGED <<environment, cwd, pipeline, rc, said>>

\* The subshell may die inside its write of rsync.rc, or the write may fail.
SubshellDies(j) == /\ sub' = [sub EXCEPT ![j] = "killed"]
                   /\ \/ UNCHANGED rc
                      \/ rsync[j] \in Codes /\ rc' = "empty"

KillSubshell(j) == /\ sub[j] = "run" /\ SubshellDies(j)
                   /\ UNCHANGED <<environment, pc, term, cwd, deaf, rsync, dest, said>>

KillReaders(j) == /\ pc[j] = "pipe" /\ Writing(j)
                  /\ deaf' = deaf \cup {j}
                  /\ UNCHANGED <<environment, pc, term, cwd, sub, rsync, dest, rc, said>>

\* A Ctrl-C or a hangup of the terminal that the job was started from: the
\* subshell has no trap, and neither have tail and logger; rsync ends when it
\* has cleaned up.
SignalGroup(j) == /\ pc[j] = "pipe" /\ Writing(j)
                  /\ term' = [term EXCEPT ![j] = TRUE]
                  /\ deaf' = deaf \cup {j}
                  /\ IF sub[j] = "run" THEN SubshellDies(j) ELSE UNCHANGED <<sub, rc>>
                  /\ UNCHANGED <<environment, pc, cwd, rsync, dest, said>>

-----------------------------------------------------------------------------
\* Mounting covers what was there; a detached volume stays usable by the
\* processes that stand on it.
Mount(v) == /\ changes < ChangeLimit
            /\ \A i \in 1 .. Len(mounts) : mounts[i] # v
            /\ mounts' = Append(mounts, v)
            /\ changes' = changes + 1
            /\ UNCHANGED <<marked, pc, term, cwd, pipeline, rc, said>>

Detach == /\ changes < ChangeLimit
          /\ mounts # <<>>
          /\ mounts' = SubSeq(mounts, 1, Len(mounts) - 1)
          /\ changes' = changes + 1
          /\ UNCHANGED <<marked, pc, term, cwd, pipeline, rc, said>>

Script(j) == \/ Open(j) \/ SetTraps(j) \/ Fail(j) \/ ReadConfig(j)
             \/ ChangeDirectory(j) \/ CheckMounts(j) \/ Query(j) \/ CheckMarker(j)
             \/ PrepareDestination(j) \/ RecordRunning(j) \/ ClearResult(j)
             \/ StartTransfer(j) \/ PipelineEnds(j) \/ Report(j) \/ Exit(j)
             \/ HandleSignal(j)
Transfer(j) == RsyncExits(j) \/ WriteResult(j)
Faults(j) == \/ Signal(j) \/ SignalGroup(j)
             \/ KillShell(j) \/ KillSubshell(j) \/ KillReaders(j)

Next == \/ \E j \in Jobs : Script(j) \/ Transfer(j) \/ Faults(j)
        \/ \E v \in Volumes : Mount(v)
        \/ Detach

Spec == Init /\ [][Next]_vars
-----------------------------------------------------------------------------
TypeOK ==
  /\ mounts \in Seq(Volumes) /\ marked \subseteq Volumes /\ changes \in 0 .. ChangeLimit
  /\ pc \in [Jobs -> {"idle", "refused", "locked", "gone"} \cup Trapped]
  /\ term \in [Jobs -> BOOLEAN]
  /\ cwd \in [Jobs -> Places]
  /\ sub \in [Jobs -> {"off", "run", "done", "killed"}]
  /\ deaf \subseteq Jobs
  /\ rsync \in [Jobs -> {"off", "run"} \cup Codes]
  /\ dest \in [Jobs -> Places \cup {None}]
  /\ rc \in Codes \cup {None, "empty"}
  /\ status \in [job : Jobs \cup {None}, word : {"none", "running", "ok", "warn", "failed"}]
  /\ silent \subseteq Jobs

\* Two transfers never run at once, whatever processes of an earlier job were
\* killed or left behind: the lock outlives the shell that took it.
OneTransfer == \A i, j \in Jobs : Writing(i) /\ Writing(j) => i = j

\* rsync writes only to the configured volume, carrying its marker, however
\* mounts come and go between the checks and the transfer, or during it.
VerifiedVolume == \A j \in Jobs : rsync[j] = "run" => dest[j] = Wanted /\ Wanted \in marked

\* While a transfer runs the status file names its job and says "running",
\* also when its shell is dead: neither a contender nor a predecessor writes.
\* Exceptions: the job could not write it, or it speaks of a failure because
\* everybody in the pipeline but rsync was killed, as by a Ctrl-C.
StatusOfTransfer ==
  \A j \in Jobs : rsync[j] = "run" =>
     \/ status = Says(j, "running")
     \/ status = Says(j, "failed") /\ CutOff(j)
     \/ j \in silent

\* A job reports a result other than a failure only for the exit status of
\* its own rsync: never one left in rsync.rc by somebody else.
SuccessIsEarned ==
  [][\A j \in Jobs : status'.job = j /\ status'.word \in {"ok", "warn"}
        => status' = status \/ status'.word = Outcome(rsync[j])]_vars

\* A job whose subshell recorded rsync's exit status and whose shell was not
\* signalled reports that status, if it can write it: nobody removes or replaces
\* rsync.rc.
ResultNotLost ==
  [][\A j \in Jobs : pc[j] = "result" /\ pc'[j] = "exit" /\ ~term[j] /\ sub[j] = "done"
        => status' = Says(j, Outcome(rsync[j])) \/ changes' > changes]_vars

-----------------------------------------------------------------------------
Transfers == {[job |-> j, into |-> dest[j], cut |-> CutOff(j)] :
                j \in {i \in Jobs : rsync[i] = "run"}}
Ended == [j \in Jobs |-> IF rsync[j] \in Codes THEN rsync[j] ELSE None]
Service == INSTANCE PullService WITH transfers <- Transfers, ended <- Ended

\* Seen from outside, any number of jobs that compete, are signalled and are
\* killed, with their transfers left behind, are one service that announces a
\* transfer, makes it and speaks of its result, in this order, one job at a time.
ImplementsService == Service!ServiceSpec
=============================================================================
