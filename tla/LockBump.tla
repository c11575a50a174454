------------------------------ MODULE LockBump ------------------------------
(***************************************************************************)
(* The weekly lock-bump workflow (.github/workflows/lock-bump.yml) and the *)
(* script it runs (scripts/bump-openwrt-lock.sh): look for a newer point   *)
(* release of the locked series, rewrite openwrt.lock and feeds.lock, push *)
(* them on a branch of their own and open a pull request.  Upstream        *)
(* releases and people (who reject, merge, correct or delete a proposal)   *)
(* act between any two steps; a run may die between any two steps.  Runs   *)
(* do not overlap (concurrency group, lines 13-15).                        *)
(*                                                                         *)
(* A release is its point number; a lock file is the release it was taken  *)
(* from.  The step that runs the script has no `shell:`, so its pipe into  *)
(* tee hides the script's exit status: a script that fails after it has    *)
(* printed UPDATE_AVAILABLE does not stop the run.                         *)
(***************************************************************************)
EXTENDS Naturals, FiniteSets

CONSTANTS MaxRelease,    \* bound on upstream releases
          PersonLimit,   \* bound on what people do
          FaultLimit,    \* bound on failures of the runner, git or a mirror
          NoBranch

ASSUME LimitsAreNumbers == /\ MaxRelease \in Nat \ {0}
                           /\ PersonLimit \in Nat /\ FaultLimit \in Nat
ASSUME NoBranchIsNone == NoBranch \notin [openwrt : Nat, feeds : Nat, by : {"bot", "person"}]

VARIABLES
  released,   \* the newest release upstream
  main,       \* the locks on the main branch
  branch,     \* the proposal branch of each release
  open,       \* releases with an open proposal
  rejected,   \* releases with a proposal closed without merging
  merged,     \* releases whose branch ends in a commit of the main branch
  enabled,    \* ENABLE_LOCK_BUMP_PR
  pc,         \* the step of the workflow run, "idle" between runs
  checkout,   \* the locks of the commit the run checked out
  tree,       \* the locks in its working tree
  version,    \* the release it proposes
  behind,     \* releases whose branch ends in a commit that the checkout contains
  refused,    \* the releases already rejected when it started (history)
  unanswered, \* its question for rejected proposals failed (history)
  people,     \* what people did so far, up to PersonLimit
  faults      \* faults so far, up to FaultLimit

upstream == <<released>>
repository == <<main, branch, open, rejected, merged, enabled>>
job == <<checkout, tree, version, behind, refused, unanswered>>
counters == <<people, faults>>
vars == <<released, main, branch, open, rejected, merged, enabled, pc, checkout, tree,
          version, behind, refused, unanswered, people, faults>>

Releases == 1 .. MaxRelease
Locks == [openwrt : Releases, feeds : Releases]
Branches == [openwrt : Releases, feeds : Releases, by : {"bot", "person"}]
Pushed(locks, who) == [openwrt |-> locks.openwrt, feeds |-> locks.feeds, by |-> who]

-----------------------------------------------------------------------------
Init == /\ released = 1
        /\ main = [openwrt |-> 1, feeds |-> 1]
        /\ branch = [r \in Releases |-> NoBranch]
        /\ open = {} /\ rejected = {} /\ merged = {}
        /\ enabled \in BOOLEAN
        /\ pc = "idle"
        /\ checkout = main /\ tree = main /\ version = 1
        /\ behind = {} /\ refused = {} /\ unanswered = FALSE
        /\ people = 0 /\ faults = 0

Start == /\ pc = "idle"
         /\ pc' = "list"
         /\ checkout' = main /\ tree' = main /\ behind' = merged
         /\ refused' = rejected /\ unanswered' = FALSE
         /\ UNCHANGED <<upstream, repository, version, counters>>

\* mutant: a mirror that lags behind the lock is believed (lines 52-53)
DecideAnyOther(newest) ==
  IF newest # checkout.openwrt /\ enabled
    THEN version' = newest /\ pc' = "bump"
    ELSE pc' = "idle" /\ UNCHANGED version

\* Lines 48-55: only a release newer than the lock goes on, and only if
\* proposals are enabled.  An error here has printed no version, so the
\* workflow skips its other steps.
Decide(newest) ==
  IF newest > checkout.openwrt /\ enabled
    THEN version' = newest /\ pc' = "bump"
    ELSE pc' = "idle" /\ UNCHANGED version

\* Release candidates and other suffixes do not count.
List == /\ pc = "list"
        /\ Decide(released)
        /\ UNCHANGED <<upstream, repository, checkout, tree, behind, refused, unanswered, counters>>

\* The canonical source is down and the fallback mirror lags behind.
ListStale == /\ pc = "list" /\ faults < FaultLimit
             /\ faults' = faults + 1
             /\ \E newest \in 1 .. released - 1 : Decide(newest)
             /\ UNCHANGED <<upstream, repository, checkout, tree, behind, refused, unanswered, people>>

InstallOpenwrt == /\ pc = "bump"
                  /\ tree' = [tree EXCEPT !.openwrt = version]
                  /\ pc' = "half"
                  /\ UNCHANGED <<upstream, repository, checkout, version, behind, refused, unanswered, counters>>

InstallFeeds == /\ pc = "half"
                /\ tree' = [tree EXCEPT !.feeds = version]
                /\ pc' = "validate"
                /\ UNCHANGED <<upstream, repository, checkout, version, behind, refused, unanswered, counters>>

\* The script fails after line 54: the fetch or its verification, the feeds
\* lock, or one of the two installations.  tee returns 0.
ScriptFails == /\ pc \in {"bump", "half"} /\ faults < FaultLimit
               /\ faults' = faults + 1
               /\ pc' = "validate"
               /\ UNCHANGED <<upstream, repository, job, people>>

\* test-scripts.sh and --verify-inputs accept any two well-formed lock files
\* whose commits can be fetched, whether or not they belong together.
Validate == /\ pc = "validate"
            /\ pc' = "rejected"
            /\ UNCHANGED <<upstream, repository, job, counters>>

LookForNothing == /\ pc = "rejected"                                \* mutant
                  /\ pc' = "branch"
                  /\ UNCHANGED <<upstream, repository, job, counters>>

LookForRejection == /\ pc = "rejected"
                    /\ pc' = IF version \in rejected THEN "idle" ELSE "branch"
                    /\ UNCHANGED <<upstream, repository, job, counters>>

\* A gh that fails prints nothing, which line 68 takes for no rejection.
LookUnanswered == /\ pc = "rejected" /\ faults < FaultLimit
                  /\ faults' = faults + 1
                  /\ pc' = "branch" /\ unanswered' = TRUE
                  /\ UNCHANGED <<upstream, repository, checkout, tree, version, behind, refused, people>>

KeepBranchAndStop == /\ pc = "branch"                               \* mutant
                     /\ branch[version] # NoBranch
                     /\ pc' = "idle"
                     /\ UNCHANGED <<upstream, repository, job, counters>>

KeepBranch == /\ pc = "branch"
              /\ branch[version] # NoBranch
              /\ pc' = "propose"
              /\ UNCHANGED <<upstream, repository, job, counters>>

CommitAnything == /\ pc = "branch" /\ branch[version] = NoBranch    \* mutant
                  /\ pc' = "push"
                  /\ UNCHANGED <<upstream, repository, job, counters>>

\* `git commit` fails when the working tree is what was checked out.
Commit == /\ pc = "branch" /\ branch[version] = NoBranch
          /\ pc' = IF tree = checkout THEN "idle" ELSE "push"
          /\ UNCHANGED <<upstream, repository, job, counters>>

\* `git fetch` fails although the branch exists: line 77 takes it as missing.
CommitBlindly == /\ pc = "branch" /\ branch[version] # NoBranch
                 /\ faults < FaultLimit
                 /\ faults' = faults + 1
                 /\ pc' = IF tree = checkout THEN "idle" ELSE "push"
                 /\ UNCHANGED <<upstream, repository, job, people>>

PushForce == /\ pc = "push"                                         \* mutant
             /\ branch' = [branch EXCEPT ![version] = Pushed(tree, "bot")]
             /\ merged' = merged \ {version} /\ behind' = behind \ {version}
             /\ pc' = "propose"
             /\ UNCHANGED <<upstream, main, open, rejected, enabled, checkout, tree, version,
                            refused, unanswered, counters>>

\* A push without --force is refused if the branch exists by now, unless the
\* checkout, and so the new commit, contains the commit it ends in.
Push == /\ pc = "push"
        /\ IF branch[version] = NoBranch \/ version \in behind
             THEN /\ branch' = [branch EXCEPT ![version] = Pushed(tree, "bot")]
                  /\ merged' = merged \ {version} /\ behind' = behind \ {version}
                  /\ pc' = "propose"
             ELSE pc' = "idle" /\ UNCHANGED <<branch, merged, behind>>
        /\ UNCHANGED <<upstream, main, open, rejected, enabled, checkout, tree, version,
                       refused, unanswered, counters>>

\* Lines 85-89; without its branch a pull request cannot be created.
Propose == /\ pc = "propose"
           /\ open' = IF branch[version] # NoBranch THEN open \cup {version} ELSE open
           /\ pc' = "idle"
           /\ UNCHANGED <<upstream, main, branch, rejected, merged, enabled, job, counters>>

\* The run dies: time limit, lost runner, any command that fails under -e.
Abort == /\ pc # "idle" /\ faults < FaultLimit
         /\ faults' = faults + 1
         /\ pc' = "idle"
         /\ UNCHANGED <<upstream, repository, job, people>>

-----------------------------------------------------------------------------
Release == /\ released < MaxRelease
           /\ released' = released + 1
           /\ UNCHANGED <<repository, pc, job, counters>>

Person == /\ people < PersonLimit /\ people' = people + 1
          /\ UNCHANGED <<upstream, pc, checkout, tree, version, refused, unanswered, faults>>

Reject(r) == /\ Person /\ r \in open
             /\ open' = open \ {r} /\ rejected' = rejected \cup {r}
             /\ UNCHANGED <<main, branch, merged, enabled, behind>>

\* By a merge commit, or squashed into a new one.
Merge(r) == /\ Person /\ r \in open /\ branch[r] # NoBranch
            /\ main' = [openwrt |-> branch[r].openwrt, feeds |-> branch[r].feeds]
            /\ open' = open \ {r}
            /\ merged' \in {merged, merged \cup {r}}
            /\ UNCHANGED <<branch, rejected, enabled, behind>>

Correct(r) == /\ Person /\ branch[r] # NoBranch
              /\ branch' = [branch EXCEPT ![r] = Pushed([openwrt |-> r, feeds |-> r], "person")]
              /\ merged' = merged \ {r} /\ behind' = behind \ {r}
              /\ UNCHANGED <<main, open, rejected, enabled>>

\* Deleting the branch of an open pull request closes it.
DeleteBranch(r) == /\ Person /\ branch[r] # NoBranch
                   /\ branch' = [branch EXCEPT ![r] = NoBranch]
                   /\ open' = open \ {r}
                   /\ rejected' = rejected \cup (open \cap {r})
                   /\ merged' = merged \ {r} /\ behind' = behind \ {r}
                   /\ UNCHANGED <<main, enabled>>

SetEnabled == /\ Person
              /\ enabled' = ~enabled
              /\ UNCHANGED <<main, branch, open, rejected, merged, behind>>

Workflow == \/ Start \/ List \/ InstallOpenwrt \/ InstallFeeds \/ Validate
            \/ LookForRejection \/ KeepBranch \/ Commit \/ Push \/ Propose
Faults == ListStale \/ ScriptFails \/ LookUnanswered \/ CommitBlindly \/ Abort
People == \/ \E r \in Releases : Reject(r) \/ Merge(r) \/ Correct(r) \/ DeleteBranch(r)
          \/ SetEnabled

Next == Workflow \/ Faults \/ Release \/ People

Spec == Init /\ [][Next]_vars

\* The schedule starts runs for ever, and a run that no fault stops goes on.
FairSpec == Spec /\ WF_vars(Workflow)
-----------------------------------------------------------------------------
TypeOK ==
  /\ released \in Releases
  /\ main \in Locks /\ checkout \in Locks /\ tree \in Locks
  /\ branch \in [Releases -> Branches \cup {NoBranch}]
  /\ open \subseteq Releases /\ rejected \subseteq Releases /\ refused \subseteq Releases
  /\ merged \subseteq Releases /\ behind \subseteq Releases
  /\ enabled \in BOOLEAN /\ unanswered \in BOOLEAN
  /\ pc \in {"idle", "list", "bump", "half", "validate", "rejected", "branch", "push", "propose"}
  /\ version \in Releases
  /\ people \in 0 .. PersonLimit /\ faults \in 0 .. FaultLimit

\* A branch is only ever rewritten by a person, also when the workflow
\* wrongly took it as missing or it appeared after the workflow looked;
\* otherwise the workflow has added to a branch that main contains.
NeverOverwritten ==
  [][\A r \in Releases : NoBranch \notin {branch[r], branch'[r]} /\ branch'[r] # branch[r]
        => branch'[r].by = "person" \/ r \in merged]_vars

\* A proposal branch holds the OpenWrt release of its name: a script that
\* failed behind tee pushes nothing under the new release's name.
BranchIsItsVersion == \A r \in Releases : branch[r] # NoBranch => branch[r].openwrt = r

\* The workflow never pushes an older release than its checkout has locked,
\* whatever a mirror lists.
NeverDowngrades ==
  [][\A r \in Releases : branch'[r] \notin {branch[r], NoBranch} /\ branch'[r].by = "bot"
        => r > checkout.openwrt]_vars

\* A proposal rejected before a run started is not reopened by that run, if
\* its question for rejected proposals was answered.
RejectionHolds ==
  [][\A r \in refused \ open : pc # "idle" /\ ~unanswered => r \notin open']_vars

\* The workflow does not reopen a rejected proposal at all.
NotReopened == [][\A r \in rejected \ open : r \notin open']_vars

\* The two lock files of a proposal belong to one release.
LockPairProposed == \A r \in Releases : branch[r] # NoBranch => branch[r].openwrt = branch[r].feeds

\* A branch left without its pull request (a run that died in between) gets
\* one from a later run, while it is still wanted.
Wanted(r) == /\ branch[r] # NoBranch /\ r = released /\ r > main.openwrt
             /\ enabled /\ r \notin rejected
MissingRequestMadeGood ==
  \A r \in Releases : Wanted(r) ~> (r \in open \/ ~Wanted(r))
=============================================================================
