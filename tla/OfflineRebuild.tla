---------------------------- MODULE OfflineRebuild ----------------------------
(***************************************************************************)
(* rebuild-offline.sh with compare-kernel-config.py and                    *)
(* report-offline-products.py, in a directory that                         *)
(* restore-source-review.py prepared, run again and again until somebody   *)
(* gives up.  The script stops at the first command that fails, with one   *)
(* exception (line 83), and may be killed at any step (StopRebuild).       *)
(*                                                                         *)
(* The two Python scripts open their reports exclusively and fill them     *)
(* afterwards.  Python ends with status 1 on any uncaught error, the       *)
(* status that the comparison gives to a mismatch.                         *)
(***************************************************************************)
EXTENDS Integers

CONSTANTS Unknown, Empty, Partial,  \* not there; there without a byte; there, cut off
          AttemptLimit              \* bound on the runs of the script

Reports == [valid : BOOLEAN, match : BOOLEAN]
Results == [passed : BOOLEAN]

ASSUME RebuildAssumption ==
  /\ AttemptLimit \in Nat
  /\ Unknown \notin {Empty, Partial} /\ Unknown \notin {"same", "different", "foreign"}
  /\ Unknown \notin BOOLEAN
  /\ Empty # Partial
  /\ {Unknown, Empty, Partial} \cap (Reports \cup Results) = {}

VARIABLES
  opc,         \* "done" when the script is not running
  moved,       \* the workflow moved openwrt to GITHUB_WORKSPACE/openwrt-src
  override,    \* OPENWRT_SOURCE_DIR: unset, that path or another one
  online,      \* the script was not started in an empty network namespace
  repository,  \* .git of the source tree: the baseline for applying the patches
  kernel,      \* the kernel's .config: Unknown, "same", "different" or "foreign" paths
  artifacts,   \* work/artifacts: Unknown, "same" or "different"
  config,      \* offline-config-result.json: Unknown, Empty, Partial or a report
  result,      \* offline-result.json: Unknown, Empty or all_checks_passed
  compared,    \* config_status
  attempts

rebuildVars == <<opc, moved, override, online, repository, kernel, artifacts, config, result, compared, attempts>>

RebuildInit ==
  /\ opc = "done" /\ moved \in BOOLEAN /\ override = "unset" /\ online = FALSE
  /\ repository = FALSE /\ kernel = Unknown /\ artifacts = Unknown
  /\ config = Unknown /\ result = Unknown /\ compared = 0
  /\ attempts = 0

Step(here, there) == opc = here /\ opc' = there

\* RESTORED.json is there, or there is nothing to start from.
StartRebuild ==
  /\ attempts < AttemptLimit /\ Step("done", "network")
  /\ attempts' = attempts + 1
  /\ override' \in {"unset", "workspace", "elsewhere"} /\ online' \in BOOLEAN
  /\ compared' = 0
  /\ UNCHANGED <<moved, repository, kernel, artifacts, config, result>>

\* check-offline-network.py and the choice of the source tree, lines 9-37.
CheckNetwork ==
  /\ Step("network", "root") /\ ~online
  /\ UNCHANGED <<moved, override, online, repository, kernel, artifacts, config, result, compared, attempts>>

CheckSourceRoot ==
  /\ Step("root", "fresh")
  /\ \/ override = "unset" /\ ~moved
     \/ override = "workspace" /\ moved
  /\ UNCHANGED <<moved, override, online, repository, kernel, artifacts, config, result, compared, attempts>>

\* Lines 51-57: git init, the baseline.
AnyTree ==                                                           \* mutant
  /\ Step("fresh", "build") /\ repository' = TRUE
  /\ UNCHANGED <<moved, override, online, kernel, artifacts, config, result, compared, attempts>>

Baseline ==
  /\ ~repository
  /\ Step("fresh", "build") /\ repository' = TRUE
  /\ UNCHANGED <<moved, override, online, kernel, artifacts, config, result, compared, attempts>>

\* Lines 59-80: patches, feeds, configuration, download, make.
Make ==
  /\ Step("build", "compare")
  /\ kernel' \in {"same", "different", "foreign"}
  /\ UNCHANGED <<moved, override, online, repository, artifacts, config, result, compared, attempts>>

-----------------------------------------------------------------------------
\* compare-kernel-config.py: exit 1 at once if the report is there already.
OpenComparison ==
  /\ opc = "compare"
  /\ IF config = Unknown
     THEN opc' = "fill" /\ config' = Empty /\ compared' = compared
     ELSE opc' = "compared" /\ config' = config /\ compared' = 1
  /\ UNCHANGED <<moved, override, online, repository, kernel, artifacts, result, attempts>>

Compared == [valid |-> kernel # "foreign", match |-> kernel = "same"]
FillComparison ==
  /\ Step("fill", "compared")
  /\ config' = Compared
  /\ compared' = IF ~Compared.valid THEN 2 ELSE IF ~Compared.match THEN 1 ELSE 0
  /\ UNCHANGED <<moved, override, online, repository, kernel, artifacts, result, attempts>>

\* The script fails: an input cannot be read, the report cannot be written.
ComparisonFails ==
  /\ opc \in {"compare", "fill"} /\ opc' = "compared"
  /\ config' \in IF opc = "fill" THEN {Empty, Partial} ELSE {config}
  /\ compared' = 1
  /\ UNCHANGED <<moved, override, online, repository, kernel, artifacts, result, attempts>>

\* Lines 87-89: only a mismatch goes on, and only with a report; check-atags.py.
Continue ==
  /\ Step("compared", "package")
  /\ compared <= 1 /\ config \notin {Unknown, Empty}
  /\ UNCHANGED <<moved, override, online, repository, kernel, artifacts, config, result, compared, attempts>>

\* package-buffalo.sh refuses a directory that holds a companion.
PackageRebuilt ==
  /\ Step("package", "audit") /\ artifacts = Unknown
  /\ artifacts' \in {"same", "different"}
  /\ UNCHANGED <<moved, override, online, repository, kernel, config, result, compared, attempts>>

AuditRootfs ==
  /\ Step("audit", "result")
  /\ UNCHANGED <<moved, override, online, repository, kernel, artifacts, config, result, compared, attempts>>

-----------------------------------------------------------------------------
\* report-offline-products.py: it reads the comparison before it opens its report.
AllMatch == config.valid /\ config.match /\ artifacts = "same"

OpenResult ==
  /\ config # Partial /\ result = Unknown
  /\ Step("result", "report") /\ result' = Empty
  /\ UNCHANGED <<moved, override, online, repository, kernel, artifacts, config, compared, attempts>>

FillResult ==
  /\ Step("report", "done")
  /\ result' = [passed |-> AllMatch]
  /\ UNCHANGED <<moved, override, online, repository, kernel, artifacts, config, compared, attempts>>

\* A command fails, or the script is killed.
StopRebuild ==
  /\ opc # "done" /\ opc' = "done"
  /\ UNCHANGED <<moved, override, online, repository, kernel, artifacts, config, result, compared, attempts>>

RebuildNext == \/ StartRebuild \/ CheckNetwork \/ CheckSourceRoot \/ Baseline \/ Make
               \/ OpenComparison \/ FillComparison \/ ComparisonFails \/ Continue
               \/ PackageRebuilt \/ AuditRootfs \/ OpenResult \/ FillResult \/ StopRebuild
RebuildSpec == RebuildInit /\ [][RebuildNext]_rebuildVars

-----------------------------------------------------------------------------
Truth(state) == IF state = Unknown THEN Unknown ELSE state = "same"
Abstract == INSTANCE OfflineVerdict WITH
  sameConfig <- Truth(kernel),
  sameProducts <- Truth(artifacts),
  verdict <- IF result \in {Unknown, Empty} THEN Unknown ELSE result.passed

\* However often the script is killed and started again: the tree is built once,
\* the result file says once, and truly, whether kernel configuration and
\* products came out the same.  A report of an earlier run is never taken for a
\* comparison of this one (lines 52 and 81-88).
OneTrueVerdict == Abstract!VerdictSpec

=============================================================================
