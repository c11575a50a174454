# A TLA+ model of the LS420D firmware project

This directory specifies the parts of the repository that act over time or compute
something intricate: the fan service and the pull backup job that run on the NAS, the
workflow that proposes new OpenWrt pins, the chain from a build to a release draft, the
sources that go with a release from their collection to the offline rebuild, and the
companion image with the check that the kernel leaves it alone. Each module is
translated from the source files named below. TLC checks the modules on small
instances; TLAPS proves the main results for every value of the constants.

Run `tlc -config X.cfg MCX.tla` for a check and `tlapm X.tla` for the proofs of a
module. `PROJECT.json` lists the runs, which source lines every definition stands
for, the hazards each property is aimed at, and the theorems.

## 1. Inventory

| Component | State it keeps | Operations | Correct when |
|---|---|---|---|
| Fan curve (`ls420d-fan-policy.sh`) | none: the previous level is a parameter | `fan_curve` | hysteresis never lowers a level early, never chatters |
| Fan worker (`ls420d-fan worker`) | shell variables of one process: levels, drive cache, timers | one pass of the loop every 5 s, traps | the fan meets the hottest demand; blindness means full; shutdowns come on time and never without cause |
| Fan supervisor (`ls420d-fan supervise`, init script, procd) | child, heartbeat, `worker.pid`, `fault_start` | start, stop, respawn, poll, kill, retire | one worker; full speed whenever nobody drives; a stalled worker is replaced; a hopeless one ends in a shutdown |
| Pull job (`ls420d-pull`) | lock, `status`, `rsync.rc`, working directory | one run of the script | one transfer at a time, to the right volume only, an honest status |
| Lock bump (`bump-openwrt-lock.sh`, `lock-bump.yml`) | two lock files, proposal branches, pull requests | one weekly run | nobody's work overwritten, rejections respected, consistent proposals |
| Candidate (`build.sh`, `package-buffalo.sh`, `write-manifest.sh`, `stage-candidate.py`, `package-release-candidate.py`, `candidate.yml`) | checkout, directories, a draft release | build, stage, package, upload | firmware never without its own sources |
| Source collection (`collect-source-review.py`, `collect-notices.py`) | downloads, inventory, notices, members written | archive each download, discover and copy notices, seal | the notices are those of the archived sources, whatever changes meanwhile |
| Source restoration (`restore-source-review.py`) | bundle, extracted trees, `RESTORED.json` | verify, unpack, extract, resolve links | what is restored is whole and of one build; nothing leads out of a tree |
| Offline rebuild (`rebuild-offline.sh`, `compare-kernel-config.py`, `report-offline-products.py`, `check-offline-network.py`) | source tree, two reports created before they are filled | build, compare, package, report | one verdict, and a true one, however often it is killed and run again |
| Companion (`make_initrd.py`, `cpio_newc.py`, `backup_config.py`) | an archive, its keys, the output file | check the configuration, encode, decode, write | decode inverts encode; nobody logs in without a key; keys unpack privately |
| Kernel footprint (`check-kernel-footprint.py`) | three extremes | walk the program headers, judge | a kernel is accepted exactly if its memory does not reach the companion |
| Preparation (`prepare-openwrt.sh`, `lib.sh`) | source checkout | fetch, verify, patch | what is built is what is locked |
| Toolchain patch 110 | stamp file, build directories | compare and remove, under a lock | no sub-make removes what another builds |
| PHY workaround, first-boot scripts | none | one idempotent call | - |
| Audits, CI, kernel and OpenWrt patches | none | scans, image recipes | - |

How they interact. procd starts the supervisor and restarts it after 2 s; the
supervisor forks the worker and learns of it through `kill -0` and a heartbeat
file; both write the same cooling device. The pull job shares only the CPU with
them. Its copies meet in a lock on `/var/run/ls420d-pull/lock` and in the two
files beside it. The lock bump meets people on GitHub: pull requests, branches and
the `main` branch change between any two of its steps. The build scripts are
sequences that stop at the first error; what connects them are the files that one
leaves for the next.

What is hard. Signals and kills between two shell commands; processes that
outlive the one that made them; files and mounts that change between check and
use, or between two readings of the same file; commands whose failure looks like an
empty answer; readings that are old when they are used; timers made of second-granular
time stamps; a workflow that dies half way; two look-ups of the same thing at two
moments; reports that exist before they say anything; links that are harmless as
written and not once others exist. `PROJECT.json` lists these hazards one by one.

## 2. Modules

### FanCurve, FanSensor

`FanCurve` is `fan_curve` (policy lines 6-16) as a function of a reading, the
previous level and a curve (three thresholds and a hysteresis). `FanSensor` is one
sensor of the worker: `Read(t)` feeds the curve with its own last result, as lines
60-62 of `ls420d-fan` do. Beside it runs the specification: three independent
switches, `armed[k]`, that close at threshold k and open `hyst` below it.
`ThreeSwitches` says that the single remembered number is those three switches.

### FanWorker

One worker process. `Cycle(t, s)` is a whole pass of the loop (lines 19-121) at
time `t` with the sensor values `s`: the drive scan every `Refresh` seconds, the
counts of lines 48-57, `bad`, the three curves, the two emergency timers, the
reduction timer, the write to the device. `Fail` is a pass that returns 1,
`Terminate` the trap, `Kill` a SIGKILL, `Start` a new process with fresh variables.
`now` is bounded by `MaxNow` through the guard of `Decide`, so the behaviour stops
there. `demandAt`, `cleanAt`, `coolAt` and `known` are history for the properties; no
guard reads them. `MCFanWorker` puts this module and FanSensor into one instance, as
three scenarios of which a behaviour is one.

### FanSupervision

procd, the supervisor and any number of worker processes. The supervisor's program
counter has one place per point where a signal can matter: in particular `Fork` and
`Record` are two steps, as the `&` of line 146 and the `echo` of line 147 are. A
worker is born, works, writes the fan (any level: what it writes is FanWorker's
business), writes its heartbeat with the time its cycle began, sleeps, gets stuck
in a read, or dies. Times are kept as ages that `Tick` advances, up to the largest
value any comparison distinguishes. `ReadNow` and `Check` are the two reads of line
150 and what follows; the uptime may turn over between them, and then a heartbeat can
be one second ahead of the supervisor's `now`, which line 152 takes for a stall
(`Ahead`). A worker may be slow: it takes any time up to `MaxWork` to begin and for a
cycle, and `troubled` remembers when this alone can let its heartbeat grow too old
(`Slow`). `MaxShocks` bounds kills, hangs, stops and device failures.

### BackupPull, PullService

`PullService` says what any number of pull jobs promise together: announce a
transfer, make it, speak of its result, one job at a time; a job may disappear in
between, may fail to say something, and may call a transfer of its own failed that it
was cut off from (`Cut`). `BackupPull` implements it (`ImplementsService`). It has copies of
`ls420d-pull`. Each has a shell (`pc`), the subshell of the pipeline (`sub`), and
rsync. `Holding(j)` says that some process of job j has the descriptor of the lock
open, which is what flock means here: children inherit it. `mounts` is the stack of volumes at `/mnt/backup`; `cwd` is what a job entered with `cd`. The
marker files are truthful (a volume carries its own UUID or none), as the
documentation asks of the administrator. `Query` lets the UUID query answer for the
directory or for what covers it, because `btrfs` resolves the path itself.
Signals are remembered while the pipeline runs and handled after it. The shell waits in
line 61 for the subshell and the readers of the log, not for rsync. Readers end by
themselves when nobody is left to write to them, so that as a rule a shell outlives its
rsync; but they may be killed (`KillReaders`), and a Ctrl-C or a hangup of the terminal,
from which the job may be run by hand, ends them and the subshell together
(`SignalGroup`) while rsync still cleans up. A `record` may fail, which lines 12-15
do not look at; `silent` remembers it.

### LockBump

One workflow run at a time (concurrency group), as a program counter from `Start`
to `Propose`. `Decide` is the choice of lines 42-55 of the script. The script's
failure is not the run's failure, since `| tee` returns 0: `ScriptFails` leads on to
`Validate` with the tree as it is. Nor is a failure of `gh` in the test of line 68 the
run's: its empty answer is taken for no rejection (`LookUnanswered`). `Commit` fails when
nothing changed. `Push` is refused if the branch exists, unless its last commit is one
the checkout contains (`behind`), as that of a merged proposal is. People and
upstream act at any time; `PersonLimit`, `FaultLimit` and `MaxRelease` bound them.
A lock file is abstracted to the release it was written for.

### CandidatePair, DraftUpload, Candidate

`CandidatePair` follows files from the checkout to `build/release`. Three programs
have program counters: the build (`bpc`), the collection (`cpc`) and the packager
(`ppc`); a developer moves the checkout and removes directories between any two of
their steps. A file is the commit it was made from, or for a package list the list,
which several commits may have in common; a checksum is the content it is of;
a manifest is a commit, a configuration and the sums of three products. The packager
opens each file by name each time it looks at it, so every one of its checks is a step:
the inventory of the sources, the manifest's checksum (line 46), its fields (line 49),
the three products, the package list again (line 58), the copies, and the comparison of
the copies with what was read at first, which compares the copied manifest with the
inventory and not with the fields. `rewritten` is history: how often a build replaced
the manifest and the package list under one packager. Checks that
fail raise: the guard of the action that follows is not met, and only the abort of
that program remains. `MakeCompanion` has the refusal of line 94 of
`package-buffalo.sh` after the writes of lines 90 and 91, as in the script. A copy
of the packager may be torn (`FaultLimit` in one run of it); the sources and the output
are removed only while their writer is not running. `steady` is history: no checkout moved under a build or a
collection.

`DraftUpload` is the last step of `candidate.yml`: three looks at the draft around
two uploads, each asset arriving by itself, the job dying anywhere, somebody
publishing or deleting the release. `Candidate` composes the two: the upload starts
from a completed directory that one build and no move of the checkout made, as on a fresh
runner, and has the runner to itself.

### SourceReview, SourceRestore, SourceTree

`SourceReview` is the collection member by member. Each download is digested, added
to the archive and digested again (`DigestDownload`, `AddDownload`, `CheckDownload`);
the notices are discovered and then copied, each time between two digests of the
source. Meanwhile others check out a commit, change the configuration, compile a
kernel, end a build or replace a download. A SHA-256 is the content it is of.
`SourceRestore` delivers what was collected, whole or with one member damaged or lost,
and runs the checks of `restore()` over it. `quiet` and `swaps` are history: nobody
interfered; how often a download was replaced.

`SourceTree` is `extract_tree()`: the members of an archive are checked, placed, linked
one after the other in any order, and the links are resolved one by one. A path is
resolved as the system does it, as a walk of one step per component: `EnterLink` puts a
link's target in the place of its name, `PassComponent` goes up or down. A link is open
until its target is used up, and a walk that meets an open link is circular: the system
goes no further there. `resolve()` is not strict and does not stop. Up to Python 3.12 it
takes the rest of the path as it is written and asks for the status of what comes out
(`GiveUpCircle`, `LookAtResult`), so that `b -> b/..` is accepted and `b -> b` is not;
since 3.13 it passes the link as if it was none (`PassCircle`) and never raises. The
model has both, each circle at will. `Root` is where the directory lies; there are no links
above it, since `restore()` refuses them in the path of its output. A path may leave the
tree through `..` and come back under the tree's own name; the code accepts that, and the
model does, so a tree is confined where it was extracted and a copy of it
somewhere else need not be. `Read` is anybody who uses a path of the extracted tree.

### OfflineVerdict, OfflineRebuild

`OfflineVerdict` is what a rebuild promises: compile once, package once, and then say
at most once whether both came out the same. `OfflineRebuild` is the script with its
three helpers, stopped or killed at any step and started again in what it left. Python
creates each report before it fills it and ends with status 1 both for a mismatch and
for an uncaught error, which the script tells apart by the report alone
(`ComparisonFails`, `Continue`).

### NewcArchive, Companion, KernelFootprint

`NewcArchive` is the codec of `cpio_newc.py` with its offsets. An archive is the set of
fields written into it, with where each begins, how long it is and what it holds; what
lies between them is padding. `encode()` and `decode()` take one step per entry. The
archive may lose its end on the way, and lie at any offset of other data.
`Companion` runs `make_initrd.py` with `backup_config.py` on top of that codec: the
checks in their order, the key file line by line, the entries, encoding and decoding
them again, and the output, created exclusively and then written.
`KernelFootprint` reads the program headers one by one, keeps the three extremes, and
judges. `NewcSpec`, `CompanionSpec` and `FootprintSpec` start each of them from any
input and let it run alone; the proofs speak of these.

### Instances

Each `MC` module gives the constants of a component their values. `MCImage` and
`MCSources` hold several components that share nothing: each behaviour is one scenario,
`scenario` never changes, and the variables of the other scenarios keep one value.

## 3. What the runs check

| Run | Instance | Shows |
|---|---|---|
| `fan_worker` | *heat*: readable sensors, drives of 30/41/60 C, CPU up to 95 C, cycles of 1 or 2 ticks; *fault*: two drives, sensors and the monitor missing or alarming in any order; *sensor*: the CPU curve, 31 readings | `CoolingMeetsDemand`, `BlindMeansFull`, `ScannedBeforeSlowing`, `PromptShutdown`, `ReductionHeld`, `ShutdownJustified`; for the sensor `ThreeSwitches`, `NoChatter` |
| `fan_supervision` | three workers, two shocks, scaled times, slow workers | `FullBetweenWorkers`, `SecondWorkerUnrecorded`, `LowIsShortLived`, `StopLeavesFull`, `GivesUpInTime`, `PowerOffJustified`, `StallJustified` |
| `fan_supervision_live` | three workers, two shocks, short times | `Recovers` |
| `fan_one_worker` | as `fan_supervision` | `OneWorker` is violated, see section 6 |
| `backup_pull` | three jobs, two volumes, two changes of mounts or failed records | `OneTransfer`, `VerifiedVolume`, `StatusOfTransfer`, `SuccessIsEarned`, `ResultNotLost`, `ImplementsService` |
| `candidate` | two commits with one configuration and one package list, three builds, two moves of the checkout, one bad copy in each run of the packager | `CompletePair`, `SteadyPairMatches`, `ReleasedWithItsSources`, `RetainedWhole` |
| `candidate_moved` | as `candidate`, two builds | `MismatchRejected` is violated, see section 6 |
| `lock_bump` | two new releases, three human actions, two faults | `BranchIsItsVersion`, `NeverOverwritten`, `NeverDowngrades`, `RejectionHolds`, `MissingRequestMadeGood` |
| `lock_bump_reopen` | no faults | `NotReopened` is violated, see section 6 |
| `lock_bump_pair` | one fault | `LockPairProposed` is violated, see section 6 |
| `image` | *codec*: up to two entries of five names and four sizes; *companion*: about a hundred configurations, two runs; *kernel*: up to two program headers | `RoundTrip`; `LoginNeedsKeys`, `UnpacksPrivately`; `VerdictIsMemoryMap` |
| `sources` | *review*: two downloads, versions, commits and configurations, four changes; *tree*: archives of up to three members, paths of up to three names; *rebuild*: three attempts | `NoticesGenuine`, `RestoredConsistent`, `CollectedRestores`; `LinksConfined`; `OneTrueVerdict` |

That the variables keep their types is proved, not run, wherever a module states it.

Bounds, and why they suffice.

- *Worker.* Times are in ticks of the five seconds a cycle sleeps: `Refresh` is 4 ticks
  and `HotLimit` 2, exact; `Hold` (12) and `FaultLimit` (24) are scaled to 4 and 6,
  which keeps their order and leaves room for an interrupted count and a complete one
  before `MaxNow`. The readings are one or two on each side of the thresholds that
  decide, within and outside the hysteresis.
- *Supervision.* The runs scale the times (`Poll` 2, `Nap` 5, `Stall` 12, `FaultLimit`
  120) to 1, 3, 5, 6 and keep their order, `Poll + 1 < Nap <= Stall`. With `MaxWork = 2` a
  worker can be in time, at the limit and slow: `2 * MaxWork + Nap` exceeds `Stall`.
  Each worker that outlives its supervisor costs a shock, so that three workers are the
  most that two shocks can put side by side. Two shocks are also what it takes to have an
  orphan beside a hung child, in the live run too, whose third worker is the one that a
  replacement needs; it has 1, 3, 4 for the times, and one second of work. 4.0 and 2.0
  million states.
- *Pull job.* The third job meets both a killed job's transfer and a living contender;
  two changes suffice to cover the volume before one check and uncover it before the
  next, or to miss both records of a job. 3.2 million states.
- *Candidate.* To have the manifest replaced and put back under one packager takes a
  build before and two during it, so three builds, and two moves lead to the other commit
  and back. One configuration and one package list for both commits is the harder case,
  since different ones are refused. The sources are listed in one order, the manifest
  after the package list; the proofs leave the order open, and whether there is one.
  7.6 million states; without their exceptions (`rewritten`) TLC finds both
  `CompletePair` and `SteadyPairMatches` violated here.
- *Lock bump.* Release 3 arrives while 2 is being proposed; three human actions suffice
  to reject one proposal, correct another and merge it.
- *Image.* The names are equal once normalised, unsafe, or reserved; the sizes 0, 1, 3
  and 4 leave every kind of padding to four, the offsets 0 to 3 every alignment of the
  archive in its data, and a cut falls before, in and behind every field. One thing is
  wrong with a companion's configuration at a time, and the key file is every list of up
  to three keys, comments and bad lines. `MaxPayload` is 6144 bytes instead of 1 MiB,
  between an archive with one name server and one with many. Two program headers are
  what each comparison between extremes can tell apart; their addresses and sizes lie
  below, at and above each boundary of the small memory map.
- *Sources.* Two versions of two downloads, and four changes: a source replaced and put
  back around its first reading (two), and the same around its second (four, the case
  that `NoticesGenuine` names as its limit). Three members are a link, a link it leads
  through, and what lies behind; the targets go up, down and around, out of the tree by
  one and by two levels, and once out of it and in again through `Root`. A reader's paths
  have three names (`Depth`), one more than any member, so that a link is met first, last
  and between. Three attempts are one that is killed, one that meets
  what it left, and one more. Downloads, versions, commits and configurations are
  interchangeable; the symmetry says so.

What the properties except. Some claims hold of the code only with an exception; each is
named in the property, as narrow as TLC lets it be, and met in the run.

- `StallJustified`: the heartbeat carries the time a cycle began and stays for a sleep and
  the whole next cycle, so a worker whose cycles work for 4 seconds or more can be killed
  although it gets on (`Slow`); so can one that begins a cycle after the supervisor read
  the time in line 150, and ends it before the supervisor reads the heartbeat (`Ahead`).
- `Recovers`: a hung child is not replaced as long as an unrecorded worker beats in its
  place. The fan is written all the same, which is the first half of the property.
- `StopLeavesFull`: a TERM between the fork of line 146 and the assignment to `child`
  leaves a worker running that nobody told to end.
- `StatusOfTransfer`: the job could not write the status, or says `failed` because
  everybody in its pipeline but rsync was killed. `ResultNotLost` excepts the first.
- `RejectionHolds`: the run's own question for rejected proposals failed.
- `NeverOverwritten`: the branch's last commit is already part of `main`.
- `CompletePair`, `SteadyPairMatches`: builds replaced the manifest, or the package list,
  twice while one packager ran. Another build's manifest can then be there at line 49 and
  the first one again when line 63 copies it, and line 71 does not notice.

Fairness. `FanSupervision` assumes weak fairness of procd's respawn, of the
supervisor, of time and of every worker that can run: the Linux scheduler and the
script's own sleeps. It assumes nothing of a hung read (`WorkerUnstick`) and does not
oblige anybody to start the service. `LockBump` assumes that a run which no fault
stops goes on and that the weekly schedule keeps starting runs; faults and people
are bounded but not fair. The other components state no liveness: they are programs
that somebody starts, and that stop.

CHECK_DEADLOCK FALSE is set for the worker (its clock is bounded), for the pull job
(each process runs once), for the candidate (an upload ends), and for images and
sources (every script ends).

## 4. What is proved

`FanSensor`, `FanWorkerProofs`, `FanSupervisionProofs`, `BackupPullProofs`,
`CandidateProofs`, `LockBumpProofs`, `ImageProofs` and `SourceProofs` hold theorems. The proofs use only the named ASSUMEs on the constants.

*Curve.* `CurveClamps` gives the hysteresis in closed form: the previous level
clamped between what the reading asks for and what it would ask for `hyst` warmer.
`CurveIsThreeSwitches` and `NeverChatters` hold for every ascending curve, the
latter with the invariant that the peak reached the threshold of the level.

*Worker.* `WorkerTyped`, then the inductive invariant `WorkerInv`. The properties
are not inductive by themselves, since each timer is compared with a history of
when its condition was last interrupted. `WorkerInv` therefore adds what every
variable has to do with that history: the device shows the state and the state is at
least every sensor's level (`LevelWritten`); `since.low` is not before any later
demand (`LowTimer`); `since.fault` and `since.hot` start within one cycle of the last
clean or cool one (`FaultTimer`, `HotTimer`); `expected` is not below the largest
number of drives seen (`DrivesKnown`). From it follow `WorkerCools`,
`WorkerCoolsBlind`, `WorkerScansFirst`, `WorkerShutsDown`, and the action properties
`WorkerHolds` and `WorkerShutdownJustified`: for all curves, limits, periods and
cycle lengths, not only those of the runs.

*Supervision.* For any number of workers and shocks and any times that satisfy the
assumptions. `SupervisionTyped` comes first. `PidInv` says what `worker.pid` is worth at
each point of the script: a worker that lives is the one it names or was never recorded
(`Orphans`); nobody it names lives while a successor is being made (`Gone`); between
workers the fan is at full (`RestFull`). From it follow `FullBetweenWorkers` and
`SecondWorkerUnrecorded`. `LowInv` bounds `lowAge` by the wait that is left, one
`LongestWait` for every shock, from which `LowIsShortLived` follows. `StopInv` follows a
stop from the first shock to the end of both processes: every worker has its TERM but
one that is not the child yet, and as long as one can still lower the fan a trap is yet to
come (`StopLeavesFull`). `HealthInv` relates the age of the heartbeat to the place and age
of the worker that wrote it (`WellTimed`): untroubled, twice the one is at most `Stall`,
`Nap` and twice the other, so that it is never more than `Stall` old; from it follows the
action property `StallJustified`.
`GivesUpInTime` spans several attempts, none of which knows the earlier ones.
`PatienceInv` adds up their times at each point of the script: the age of the heartbeat,
what the age of the fault still allows, and the waits that lie ahead of the next
comparison together bound `quietAge`, and every step keeps or lowers the sum.
`PowerOffJustified` is the other direction. `ProgressInv` says that a fault is never
older than the last progress, which is inductive only with `NextCheckSees`: a child that
has completed a cycle sleeps until after the supervisor's next look, so that this look
finds a fresh heartbeat and resets the fault. It is here that `Poll + 1 < Nap` is used, the
one second being that which the uptime may turn over by between two reads. The property, and with it `progressAge`, counts a heartbeat as progress when the child wrote
it and every worker was recorded; a second, unrecorded worker can write over the file
between two looks.

*Pull job.* The inductive invariant `PullInv`: one job's processes hold the lock
(`OneHolder`); a shell outside its pipeline has no transfer running but one that it was
cut off from (`WaitsForPipeline`); a shell past the marker check stands on the wanted volume
(`StandsOnWanted`); the status is written before the transfer, if it can be (`RecordedFirst`);
`rsync.rc` is empty, missing or the job's own from line 55 to the report
(`ResultIsOwn`); a job that has not started a transfer never had one
(`NotYetStarted`). From it follow the three invariants and the two action properties
of the run, for any number of jobs, volumes and mount changes. `PullImplementsService`
maps each step to `PullService`: one of `RecordRunning`, `StartTransfer`, `RsyncExits`,
`Report`, `Fail`, `HandleSignal`, `SignalGroup`, `KillSubshell` and `KillReaders` to a step
of the service or a stutter, every other one to a stutter.

*Candidate.* The inductive invariant adds to `CompletePair` what each program knows
when it stands between two steps: a sealed collection is whole and its archive and
notices are of one commit (`SourcesInv`); the packager's `entries` are those of one such
collection, whatever happens to the directories (`EntriesInv`); after the verification the
staged copies equal what was read (`StagedInv`). That the `fields` are those of the same
manifest is not so, and `ManifestInv` counts what it costs that they are not: once line 46
has passed, a manifest other than the listed one is in the directory only after a
replacement, and, when such fields were read, the listed one is there again, or in the
copies, only after a second. `PackagesInv` says the same of the package list. `SteadyInv`
carries the commit through the chain as long as `steady` holds: tree, products, manifest,
collection, entries. `BuildsInv` bounds the replacements by the builds, one manifest each,
so that a runner of its own is clear of the exception; `UploadInv` orders the assets. From
these follow all four properties of the run, for any commits, configurations, numbers of builds, moves and
bad copies, and any two disjoint sets of assets.

*Lock bump.* `LockInv`: past the installation the tree is the checkout or holds the
proposed version (`TreeOfRun`), that version is newer than the lock (`NewerThanLock`),
and past the look for a rejection it was not among the rejected ones, unless that look
failed (`NotRefused`); what the checkout contains `main` contains (`BehindMerged`).
From it follow the invariant and the three action properties of the run, for any
number of releases, human actions and faults.
Two more theorems belong to what the runs do not settle. `LockRequestApproaches` is the
part of `MissingRequestMadeGood` that is no liveness: `StepsAhead` counts the steps to
the missing pull request, through this run or through its end and the next, and every
step of the workflow lowers it; only faults and people, both bounded, put it up again.
Fairness of `Workflow` does the rest. `LockPairedUnlessFailed` says what is left of the
refuted `LockPairProposed`: without a fault it holds, and with any number of them a
proposal's feeds are never newer than its OpenWrt (`PairInv`).

*Codec.* `CodecRoundTrip` holds for any entries, sizes and starting offsets.
The invariant has a witness that the code never computes: a function that gives for each
entry the offset at which `encode()` put it. The fields of two entries do not overlap,
and what is written so far ends where the next entry begins. `decode()` is at one of
these offsets whenever it starts an entry and has read exactly the entries before it; an
archive cut short has no trailer in reach, so that it never gets to `decoded`. The
assumption used is that normalising the trailer's name leaves it alone.

*Companion.* `CompanionInv` has three parts: `Stages` says which checks lie behind each
point of the script; `KeysFound` that the keys found so far are those of the lines read,
comments left out, each at the place of its first line; `Built` that the entries are the
list of directories, files and keys that `make_initrd.py` spells out. The rest is about
those lists: `CompanionLogin` derives who may log in from the key file and the field
check, `CompanionPrivate` that every directory precedes its contents and every key is
private, separately for the three lists there are (the example, a deployment, and one
with a backup job), for every configuration.

*Kernel footprint.* The three extremes are those of the loaded headers read so far, each
attained by one of them; from that `FootprintVerdict` derives that the comparison of
the extremes gives the verdict of the memory map, byte by byte, for every file, any
number of headers and any addresses.

*Collection and restoration.* For any number of downloads, versions and changes.
`ReviewInv` says what is written at each point of the collection (`WrittenInv`) and of
which downloads there are notices (`RecordsInv`). `SlipInv` counts: notices that are not
those of the archived source cost at least one replacement when they are found, and up
to four until they are sealed, since each digest in between must see the archived
version again; from it follows `NoticesAreGenuine`. `QuietInv` says what the members
hold as long as nobody interferes. `RestoreInv` says that what was accepted is what was
sealed: one member was damaged or lost at most, and the checksums of the others or the
file of checksums itself would show it.
From these follow `RestoredIsConsistent` and `CollectedIsRestored`. The assumption used,
`NothingIsContent`, keeps a missing and a damaged member apart from every content.

*Tree.* `TreeIsConfined`: for every archive, any links and targets, and paths of any
length. The check resolves each link by itself, and a reader meets them in
paths of his own; that the one says something about the other is the point of the proof.
`DiskInv` says what is on disk at each stage. `WalkInv` has a witness that the code does
not compute: a set K of walks, those the check has taken, that no step leads out of and
whose ends lie in the tree (`Closed`); a circular walk has no step and no end, so that it
closes the set as it is, however `resolve()` goes on from there (`ClosedCircle`). Every
link checked so far begins one of K (`Certified`). `ResolveLink` adds the walk it begins, each step
adds the next place, and `JudgeLink` closes the set. Until it comes to the link
itself, such a walk goes down through directories (`OnTheWay`). A reader's walk is always
one of K with names still to come (`Reading`): where the part in K ends, the next name is
a link, and its own walk is in K, or it is none, and the walk that ends there can be
added. So the induction over the length of a path or the depth of links is one over the
steps of the walk.

*Offline rebuild.* `RebuildImplementsVerdict`: an invariant says for each point of the
script what exists already; then `Make` is the abstract compilation, `PackageRebuilt`
the packaging, `FillResult` the verdict, and all other steps stutter, for any number of
attempts.

Only model-checked: the liveness properties `Recovers` and `MissingRequestMadeGood`,
since the provers here do not reason about fairness and ENABLED; what can be said
without fairness is proved as `SupervisionGivesUpInTime` and `LockRequestApproaches`.
Every other property of a run that passes is a theorem. The four properties of the runs
that end in a violation are refuted, not proved.

## 5. Not modelled

Device discovery, thermal-zone ownership, standby detection and the sensor parser
enter by their results. Logging, the status line of the fan and the wake alarm of
the emergency are left out. SSH, rsync, btrfs, git and GitHub are external: modelled by how the code
uses them.

In the candidate chain the OpenWrt and feed commits follow the project commit. In the
sources the limits on sizes, names and numbers of links, `.git`, and the metadata of
packages are left out, as is the syntax of the locks. `linux.config` is carried along
and compared nowhere before the offline rebuild, in the code as in the model. `SourceTree`
has one archive at a time: the code extracts the feeds with the same function into
`openwrt/feeds`, after the links of the OpenWrt tree around them were resolved, and what
one tree's links make of another's is not modelled. In the companion the syntax of a
field or of a key is a bit, and the uImage header, which is put on and taken off again,
is left out.

Not modelled at all:

- Source preparation (`prepare-openwrt.sh`, `lib.sh`): a straight sequence of external
  tools that stops at the first failure; what a fetch returns is checked against the
  locked commit, whoever it came from.
- Toolchain patch 110: a lock in OpenWrt's make rules; what it protects is code of
  OpenWrt.
- The PHY workaround and the first-boot scripts: one idempotent call each.
- Kernel and OpenWrt patches, CI, and the audits: other programs' code, a sequence of
  checks, and scanners without state.

## 6. Where the code and its documents differ

- `candidate_moved`: "`stage-candidate.py` verifies source and product inventories
  and rejects a mismatched build before pairing them" (`docs/distribution.md` lines
  42-43). The manifest records the commit that is checked out when the build ends; a
  commit made while it compiles is recorded, collected and paired with firmware made
  from the one before. What remains true is `SteadyPairMatches`. The workflow builds
  in a checkout of its own and is not affected.
- `fan_one_worker`: "One worker plus an independently scheduled supervisor"
  (`ls420d-fan` line 3). A SIGKILL of the supervisor between lines 146 and 147 leaves
  a worker that no file names; the next supervisor forks a second one, and both
  drive the fan. What remains true is checked as `SecondWorkerUnrecorded`: this is
  the only way to two workers.
- `lock_bump_reopen`: "closed unmerged proposal is not reopened" (`docs/build.md`
  line 97). A proposal closed between the look-ups of lines 68 and 85 of
  `lock-bump.yml` is proposed again. The run goes on in the same way when `gh` fails inside the test
  of line 68. What remains true is `RejectionHolds`.
- `lock_bump_pair`: the script "rewrites both lock files using the annotated release
  tag and that release's pinned feeds" (`docs/build.md` lines 87-88). When the second
  of its two installations fails, the pipe into `tee` hides it, and the run proposes
  the new `openwrt.lock` with the old `feeds.lock`. What remains true is
  `BranchIsItsVersion` and the theorem `LockPairedUnlessFailed`.

## 7. Plan

Done: all the modules of section 2 and the proofs of section 4. What could follow:

1. A fan service abstraction (full whenever nobody drives, else at least the
   demand), with FanSupervision composed with FanWorker's decisions shown to
   implement it.
2. The source chain as one refinement: collection, delivery and restoration against
   "what is restored is what one commit was built from".
3. The feeds' trees inside the OpenWrt tree: what the links of one make of the other's.
