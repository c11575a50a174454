---------------------------- MODULE LockBumpProofs ----------------------------
(***************************************************************************)
(* Proofs about LockBump for any number of releases, of human actions and  *)
(* of faults.                                                              *)
(*                                                                         *)
(* The argument: within a run the working tree is either what was checked  *)
(* out or carries the release to propose in openwrt.lock (TreeOfRun), that *)
(* release is newer than the lock (NewerThanLock), and past the look for a *)
(* rejection it is not one that was rejected before the run, unless that   *)
(* look failed (NotRefused).                                               *)
(* A variant, StepsAhead, shows that the workflow makes good what a run    *)
(* left undone; PairInv what becomes of the two lock files of a proposal.  *)
(***************************************************************************)
EXTENDS LockBump, TLAPS

Late == {"validate", "rejected", "branch", "push", "propose"}

TreeOfRun ==
  /\ pc \in {"list", "bump"} => tree = checkout
  /\ pc = "half" => tree.openwrt = version
  /\ pc \in Late => tree = checkout \/ tree.openwrt = version
  /\ pc = "push" => tree # checkout

NewerThanLock == pc \in {"bump", "half"} \cup Late => version > checkout.openwrt

NotRefused == /\ pc # "idle" => refused \subseteq rejected
              /\ pc \in {"branch", "push", "propose"} => version \notin refused \/ unanswered

\* What the checkout contains main contains, if nobody rewrote the branch.
BehindMerged == behind \subseteq merged

LockInv == TypeOK /\ TreeOfRun /\ NewerThanLock /\ NotRefused /\ BehindMerged /\ BranchIsItsVersion

-----------------------------------------------------------------------------
LEMMA LockInit == Init => LockInv
<1> SUFFICES ASSUME Init PROVE LockInv
  OBVIOUS
<1>1. 1 \in Releases /\ main \in Locks /\ main = checkout /\ main = tree
  BY LimitsAreNumbers DEF Init, Releases, Locks
<1>2. branch \in [Releases -> Branches \cup {NoBranch}] /\ BranchIsItsVersion
  BY DEF Init, BranchIsItsVersion
<1>3. people \in 0 .. PersonLimit /\ faults \in 0 .. FaultLimit
  BY LimitsAreNumbers DEF Init
<1>4. TypeOK
  BY <1>1, <1>2, <1>3 DEF Init, TypeOK
<1>5. TreeOfRun /\ NewerThanLock /\ NotRefused /\ BehindMerged
  BY DEF Init, TreeOfRun, NewerThanLock, NotRefused, BehindMerged, Late
<1>6. QED
  BY <1>2, <1>4, <1>5 DEF LockInv

LEMMA LockStep == LockInv /\ [Next]_vars => LockInv'
<1> SUFFICES ASSUME LockInv, [Next]_vars PROVE LockInv'
  OBVIOUS
<1> USE LimitsAreNumbers, NoBranchIsNone
        DEF LockInv, TypeOK, TreeOfRun, NewerThanLock, NotRefused, BehindMerged, BranchIsItsVersion, Late,
            upstream, repository, job, counters
<1>1. CASE Start
  BY <1>1 DEF Start
<1>2. ASSUME NEW newest \in Releases, Decide(newest), pc = "list",
             UNCHANGED <<upstream, repository, checkout, tree, behind, refused, unanswered>>,
             faults' \in 0 .. FaultLimit,
             UNCHANGED people
      PROVE  LockInv'
  BY <1>2 DEF Decide, Releases, Locks
<1>3. CASE List
  BY <1>2, <1>3 DEF List
<1>4. CASE ListStale
  <2>1. PICK newest \in 1 .. released - 1 : Decide(newest)
    BY <1>4 DEF ListStale
  <2>2. newest \in Releases /\ faults' \in 0 .. FaultLimit
    BY <1>4, <2>1 DEF ListStale, Releases
  <2>3. QED
    BY <1>2, <1>4, <2>1, <2>2 DEF ListStale
<1>5. CASE InstallOpenwrt
  BY <1>5 DEF InstallOpenwrt, Locks
<1>6. CASE InstallFeeds
  BY <1>6 DEF InstallFeeds, Locks
<1>7. CASE ScriptFails
  BY <1>7 DEF ScriptFails
<1>8. CASE Validate \/ LookForRejection \/ LookUnanswered \/ KeepBranch
  <2>1. CASE Validate
    BY <2>1 DEF Validate
  <2>2. CASE LookForRejection
    BY <2>2 DEF LookForRejection
  <2>3. CASE LookUnanswered
    <3>1. faults' \in 0 .. FaultLimit
      BY <2>3 DEF LookUnanswered
    <3>2. QED
      BY <2>3, <3>1 DEF LookUnanswered
  <2>4. CASE KeepBranch
    BY <2>4 DEF KeepBranch
  <2>5. QED
    BY <1>8, <2>1, <2>2, <2>3, <2>4
<1>9. CASE Commit \/ CommitBlindly
  BY <1>9 DEF Commit, CommitBlindly
<1>10. CASE Push
  <2>1. tree.openwrt = version
    BY <1>10 DEF Push
  <2>2. Pushed(tree, "bot") \in Branches /\ Pushed(tree, "bot").openwrt = version
    BY <2>1 DEF Pushed, Branches, Locks
  <2>3. branch' \in [Releases -> Branches \cup {NoBranch}]
    BY <1>10, <2>2 DEF Push
  <2>4. BranchIsItsVersion'
    BY <1>10, <2>2 DEF Push
  <2>5. QED
    BY <1>10, <2>3, <2>4 DEF Push
<1>11. CASE Propose
  BY <1>11 DEF Propose
<1>12. CASE Abort
  BY <1>12 DEF Abort
<1>13. CASE Release
  BY <1>13 DEF Release, Releases
<1>14. ASSUME NEW r \in Releases, Reject(r) \/ Merge(r) \/ Correct(r) \/ DeleteBranch(r)
       PROVE  LockInv'
  <2>1. people' \in 0 .. PersonLimit
    BY <1>14 DEF Reject, Merge, Correct, DeleteBranch, Person
  <2>2. main' \in Locks
    BY <1>14 DEF Reject, Merge, Correct, DeleteBranch, Person, Locks, Branches
  <2>3. Pushed([openwrt |-> r, feeds |-> r], "person") \in Branches
    BY DEF Pushed, Branches
  <2>4. /\ branch' \in [Releases -> Branches \cup {NoBranch}]
        /\ BranchIsItsVersion'
    BY <1>14, <2>3 DEF Reject, Merge, Correct, DeleteBranch, Person, Pushed
  <2>5. /\ open' \subseteq Releases /\ rejected' \subseteq Releases
        /\ rejected \subseteq rejected'
    BY <1>14 DEF Reject, Merge, Correct, DeleteBranch, Person
  <2>6. UNCHANGED <<released, enabled, pc, checkout, tree, version, refused, unanswered, faults>>
        /\ merged' \subseteq Releases /\ behind' \subseteq Releases /\ BehindMerged'
    BY <1>14 DEF Reject, Merge, Correct, DeleteBranch, Person
  <2>7. QED
    BY <2>1, <2>2, <2>4, <2>5, <2>6
<1>15. CASE SetEnabled
  BY <1>15 DEF SetEnabled, Person
<1>16. CASE UNCHANGED vars
  BY <1>16 DEF vars
<1>17. QED
  BY <1>1, <1>3, <1>4, <1>5, <1>6, <1>7, <1>8, <1>9, <1>10, <1>11, <1>12, <1>13, <1>14, <1>15, <1>16
  DEF Next, Workflow, Faults, People

LEMMA LockInvariant == Spec => []LockInv
BY LockInit, LockStep, PTL DEF Spec

-----------------------------------------------------------------------------
\* The types, for any number of releases.
THEOREM LockTyped == Spec => []TypeOK
BY LockInvariant, PTL DEF LockInv

\* A proposal branch holds the release of its name, although tee hides that the
\* script failed.
THEOREM LockBranchIsItsVersion == Spec => []BranchIsItsVersion
BY LockInvariant, PTL DEF LockInv

\* What a step does to the proposal branches.
LEMMA BranchStep ==
  ASSUME LockInv, [Next]_vars, NEW r \in Releases, branch'[r] # branch[r]
  PROVE  \/ Push /\ r = version /\ (branch[r] = NoBranch \/ r \in merged)
         \/ branch'[r] = NoBranch
         \/ branch[r] # NoBranch /\ branch'[r].by = "person"
<1> USE DEF LockInv, TypeOK, upstream, repository, job, counters
<1>1. CASE Push
  BY <1>1 DEF Push, BehindMerged
<1>2. ASSUME NEW q \in Releases, Reject(q) \/ Merge(q) \/ DeleteBranch(q)
      PROVE  branch'[r] = NoBranch
  BY <1>2 DEF Reject, Merge, DeleteBranch, Person
<1>3. ASSUME NEW q \in Releases, Correct(q)
      PROVE  branch[r] # NoBranch /\ branch'[r].by = "person"
  BY <1>3 DEF Correct, Person, Pushed
<1>4. CASE Start \/ List \/ InstallOpenwrt \/ InstallFeeds \/ Validate \/ LookForRejection
  BY <1>4 DEF Start, List, InstallOpenwrt, InstallFeeds, Validate, LookForRejection
<1>5. CASE KeepBranch \/ Commit \/ Propose \/ Release \/ SetEnabled
  BY <1>5 DEF KeepBranch, Commit, Propose, Release, SetEnabled, Person
<1>6. CASE Faults
  BY <1>6 DEF Faults, ListStale, ScriptFails, LookUnanswered, CommitBlindly, Abort
<1>7. CASE UNCHANGED vars
  BY <1>7 DEF vars
<1>8. QED
  BY <1>1, <1>2, <1>3, <1>4, <1>5, <1>6, <1>7 DEF Next, Workflow, People

\* A branch that exists is rewritten by a person only, or added to by the workflow
\* if its last commit is part of main.
THEOREM LockNeverOverwritten == Spec => NeverOverwritten
<1>1. LockInv /\ [Next]_vars =>
        [\A r \in Releases : NoBranch \notin {branch[r], branch'[r]} /\ branch'[r] # branch[r]
            => branch'[r].by = "person" \/ r \in merged]_vars
  BY BranchStep
<1>2. QED
  BY <1>1, LockInvariant, PTL DEF Spec, NeverOverwritten

\* No run pushes a release that is not newer than the lock it checked out.
THEOREM LockNeverDowngrades == Spec => NeverDowngrades
<1>1. LockInv /\ [Next]_vars =>
        [\A r \in Releases : branch'[r] \notin {branch[r], NoBranch} /\ branch'[r].by = "bot"
            => r > checkout.openwrt]_vars
  <2> SUFFICES ASSUME LockInv, [Next]_vars, NEW r \in Releases,
                      branch'[r] \notin {branch[r], NoBranch}, branch'[r].by = "bot"
               PROVE  r > checkout.openwrt
    OBVIOUS
  <2>1. Push /\ r = version
    BY BranchStep
  <2>2. QED
    BY <2>1 DEF Push, LockInv, NewerThanLock, Late
<1>2. QED
  BY <1>1, LockInvariant, PTL DEF Spec, NeverDowngrades

\* No run opens again what was rejected before it started, unless its question for
\* rejected proposals went unanswered.
THEOREM LockRejectionHolds == Spec => RejectionHolds
<1>1. LockInv /\ [Next]_vars => [\A r \in refused \ open : pc # "idle" /\ ~unanswered => r \notin open']_vars
  <2> SUFFICES ASSUME LockInv, Next, NEW r \in refused \ open, pc # "idle", ~unanswered
               PROVE  r \notin open'
    BY DEF vars
  <2> USE DEF upstream, repository, job, counters
  <2>1. CASE Propose
    BY <2>1 DEF Propose, LockInv, NotRefused
  <2>2. CASE People
    BY <2>2 DEF People, Reject, Merge, Correct, DeleteBranch, SetEnabled, Person
  <2>3. CASE Faults \/ Release
    BY <2>3 DEF Faults, Release, ListStale, ScriptFails, LookUnanswered, CommitBlindly, Abort
  <2>4. CASE Start \/ List \/ InstallOpenwrt \/ InstallFeeds \/ Validate
    BY <2>4 DEF Start, List, InstallOpenwrt, InstallFeeds, Validate
  <2>5. CASE LookForRejection \/ KeepBranch \/ Commit \/ Push
    BY <2>5 DEF LookForRejection, KeepBranch, Commit, Push
  <2>6. QED
    BY <2>1, <2>2, <2>3, <2>4, <2>5 DEF Next, Workflow
<1>2. QED
  BY <1>1, LockInvariant, PTL DEF Spec, RejectionHolds

-----------------------------------------------------------------------------
\* What a run will propose once it gets to it: an idle workflow and one that is
\* still at its list will find release r, a later one has r for its version and
\* is not about to push a branch that is there already.
LeadsTo(r) == \/ pc = "idle"
              \/ pc = "list" /\ checkout.openwrt < r
              \/ pc \in ({"bump", "half"} \cup Late) \ {"push"} /\ version = r

Place == [idle |-> 9, list |-> 8, bump |-> 7, half |-> 6, validate |-> 5, rejected |-> 4,
          branch |-> 3, push |-> 2, propose |-> 1]

\* The steps to the proposal of r: those of this run, or of this one to its end
\* and of the next.
StepsAhead(r) == IF LeadsTo(r) THEN Place[pc] ELSE Place["idle"] + Place[pc]

Approaches(r) == Wanted(r) /\ Wanted(r)' /\ r \notin open
                   => r \in open' \/ StepsAhead(r)' < StepsAhead(r)

\* A branch that lacks its pull request is at most two runs away from it, and no
\* step of the workflow goes astray: each brings the proposal nearer.  Only a fault
\* or a person sets it back, and the newer release ends the need.
THEOREM LockRequestApproaches ==
  Spec => [][Workflow => \A r \in Releases : Approaches(r)]_vars
<1>1. LockInv /\ [Next]_vars => [Workflow => \A r \in Releases : Approaches(r)]_vars
  <2> SUFFICES ASSUME LockInv, Workflow, NEW r \in Releases,
                      Wanted(r), Wanted(r)', r \notin open, r \notin open'
               PROVE  StepsAhead(r)' < StepsAhead(r)
    BY DEF Approaches
  <2> USE DEF StepsAhead, LeadsTo, Place, Late, Wanted, upstream, repository, job, counters
  <2>1. CASE Start
    BY <2>1 DEF Start, LockInv, TypeOK, Locks, Releases
  <2>2. CASE List
    BY <2>2 DEF List, Decide, LockInv, TypeOK, Locks, Releases
  <2>3. CASE InstallOpenwrt \/ InstallFeeds \/ Validate
    BY <2>3 DEF InstallOpenwrt, InstallFeeds, Validate
  <2>4. CASE LookForRejection
    BY <2>4 DEF LookForRejection
  <2>5. CASE KeepBranch \/ Commit
    BY <2>5 DEF KeepBranch, Commit, LockInv, TypeOK
  <2>6. CASE Push
    BY <2>6 DEF Push
  <2>7. CASE Propose
    BY <2>7 DEF Propose
  <2>8. QED
    BY <2>1, <2>2, <2>3, <2>4, <2>5, <2>6, <2>7 DEF Workflow
<1>2. QED
  BY <1>1, LockInvariant, PTL DEF Spec

-----------------------------------------------------------------------------
\* What is true of two lock files of which the second may be missing: the feeds
\* are never those of a later release, and before the first fault they are those of
\* the same one.
Paired(locks) == /\ locks.feeds <= locks.openwrt
                 /\ faults = 0 => locks.feeds = locks.openwrt

TreePaired ==
  /\ pc = "half" => tree.feeds = checkout.feeds
  /\ pc \in Late => \/ tree = checkout
                    \/ tree.feeds = version
                    \/ (tree.feeds = checkout.feeds /\ faults > 0)

ProposalsPaired == \A r \in Releases : branch[r] # NoBranch => Paired(branch[r])

FeedsNotAhead == \A r \in Releases : branch[r] # NoBranch => branch[r].feeds <= branch[r].openwrt

PairInv == Paired(main) /\ Paired(checkout) /\ TreePaired /\ ProposalsPaired

LEMMA PairStep == LockInv /\ LockInv' /\ PairInv /\ [Next]_vars => PairInv'
<1> SUFFICES ASSUME LockInv, PairInv, [Next]_vars, LockInv' PROVE PairInv'
  OBVIOUS
<1>0. faults \in Nat /\ faults' \in Nat /\ faults' >= faults
  <2>1. faults \in Nat /\ faults' \in Nat
    BY LimitsAreNumbers DEF LockInv, TypeOK
  <2>2. faults' = faults \/ faults' = faults + 1
    BY DEF Next, Workflow, Faults, People, Start, List, InstallOpenwrt, InstallFeeds, Validate,
        LookForRejection, KeepBranch, Commit, Push, Propose, ListStale, ScriptFails, LookUnanswered,
        CommitBlindly, Abort,
        Release, Reject, Merge, Correct, DeleteBranch, SetEnabled, Person, counters, vars
  <2>3. QED
    BY <2>1, <2>2
<1> USE <1>0 DEF PairInv, Paired, TreePaired, ProposalsPaired, Late, upstream, repository, job, counters
<1>1. CASE Start
  BY <1>1 DEF Start
<1>2. CASE List \/ ListStale
  BY <1>2 DEF List, ListStale, Decide
<1>3. CASE InstallOpenwrt
  BY <1>3 DEF InstallOpenwrt, LockInv, TypeOK, TreeOfRun, Locks
<1>4. CASE InstallFeeds
  BY <1>4 DEF InstallFeeds, LockInv, TypeOK, Locks
<1>5. CASE ScriptFails
  BY <1>5 DEF ScriptFails, LockInv, TreeOfRun
<1>6. CASE Validate \/ LookForRejection \/ LookUnanswered \/ KeepBranch \/ Commit \/ CommitBlindly
  BY <1>6 DEF Validate, LookForRejection, LookUnanswered, KeepBranch, Commit, CommitBlindly
<1>7. CASE Push
  <2>1. tree.openwrt = version /\ version > checkout.openwrt
    BY <1>7 DEF Push, LockInv, TreeOfRun, NewerThanLock, Late
  <2>2. tree.feeds = version \/ (tree.feeds = checkout.feeds /\ faults > 0)
    BY <1>7, <2>1 DEF Push, LockInv, TreeOfRun
  <2>3. checkout \in Locks /\ tree \in Locks /\ version \in Nat
    BY DEF LockInv, TypeOK, Releases
  <2>4. Paired(Pushed(tree, "bot"))
    BY <2>1, <2>2, <2>3 DEF Pushed, Locks, Releases
  <2>5. \A r \in Releases : branch'[r] = branch[r] \/ branch'[r] = Pushed(tree, "bot")
    BY <1>7 DEF Push, LockInv, TypeOK
  <2>6. QED
    BY <1>7, <2>4, <2>5 DEF Push
<1>8. CASE Propose \/ Abort \/ Release \/ SetEnabled
  BY <1>8 DEF Propose, Abort, Release, SetEnabled, Person
<1>9. ASSUME NEW r \in Releases, Reject(r) \/ Merge(r) \/ Correct(r) \/ DeleteBranch(r)
      PROVE  PairInv'
  <2>1. UNCHANGED <<pc, checkout, tree, version, faults>>
    BY <1>9 DEF Reject, Merge, Correct, DeleteBranch, Person
  <2>2. \A q \in Releases : \/ branch'[q] = branch[q] \/ branch'[q] = NoBranch
                            \/ branch'[q].openwrt = q /\ branch'[q].feeds = q
    BY <1>9 DEF Reject, Merge, Correct, DeleteBranch, Person, Pushed, LockInv, TypeOK
  <2>3. ProposalsPaired'
    BY <2>1, <2>2 DEF Releases
  <2>4. Paired(main)'
    BY <1>9, <2>1 DEF Reject, Merge, Correct, DeleteBranch, Person
  <2>5. QED
    BY <2>1, <2>3, <2>4
<1>10. CASE UNCHANGED vars
  BY <1>10 DEF vars
<1>11. QED
  BY <1>1, <1>2, <1>3, <1>4, <1>5, <1>6, <1>7, <1>8, <1>9, <1>10 DEF Next, Workflow, Faults, People

\* What remains of the claim that both lock files are rewritten together: no
\* proposal takes its feeds from a later release, and as long as nothing has failed
\* behind tee each takes them from its own.
THEOREM LockPairedUnlessFailed ==
  Spec => [](FeedsNotAhead /\ (faults = 0 => LockPairProposed))
<1>1. Init => PairInv
  BY DEF Init, PairInv, Paired, TreePaired, ProposalsPaired, Late
<1>2. PairInv => FeedsNotAhead /\ (faults = 0 => LockPairProposed)
  BY DEF PairInv, ProposalsPaired, Paired, FeedsNotAhead, LockPairProposed
<1>3. QED
  BY <1>1, <1>2, PairStep, LockInvariant, PTL DEF Spec

=============================================================================
