---------------------------- MODULE CandidatePair ----------------------------
(***************************************************************************)
(* Firmware and its sources, from the build to the seven release assets:   *)
(* build.sh with package-buffalo.sh and write-manifest.sh, then            *)
(* collect-source-review.py, then package-release-candidate.py with the    *)
(* staging of stage-candidate.py.  Each may run while a developer commits, *)
(* checks out another revision, cleans a directory or starts another one   *)
(* of them in a second terminal.                                           *)
(*                                                                         *)
(* A file is what it was made from: the project commit, for a package list *)
(* the list, Torn when a copy went wrong, None when absent.  A SHA-256 is  *)
(* the content it is of.                                                   *)
(* Abstracted: OpenWrt and feed commits follow the project commit; of the  *)
(* metadata that collect copies only the two manifests are kept; the       *)
(* limits on sizes, names and links are taken as met.                      *)
(***************************************************************************)
EXTENDS Naturals, FiniteSets

CONSTANTS Commits,      \* of the project, all of them clean to check out
          ConfigOf,     \* the OpenWrt configuration of a commit
          PackagesOf,   \* the package list of its firmware, often that of other commits too
          Place,        \* in the listing of the sources; equal places: any order
          None, Torn,
          BuildLimit,   \* bound on the number of builds
          MoveLimit,    \* bound on commits and check-outs
          FaultLimit    \* bound on the copies that go wrong in one run of the packager

Products == {"uImage.buffalo", "initrd.buffalo", "packages.manifest"}
Collected == {"project.tar", "THIRD-PARTY-NOTICES.tar", "packages.manifest", "build.manifest"}
Items == ({"artifacts"} \X (Products \cup {"build.manifest"})) \cup ({"sources"} \X Collected)
Assets == Products \cup {"build.manifest", "sources.tar", "THIRD-PARTY-NOTICES.tar"}

\* What whole files and archives of files can hold.
Of(n, c) == IF n = "packages.manifest" THEN PackagesOf[c] ELSE c
Files == Commits \cup {PackagesOf[c] : c \in Commits}
Manifests == [commit: Commits, config: {ConfigOf[c] : c \in Commits}, sums: [Products -> Files]]
Contents == Files \cup Manifests
Archives == [Collected -> Contents]

ASSUME ContentsAreDistinct == /\ None # Torn
                              /\ {None, Torn} \cap (Contents \cup Archives) = {}
                              /\ Files \cap Manifests = {}
ASSUME LimitsAreNumbers == {BuildLimit, MoveLimit, FaultLimit} \subseteq Nat

VARIABLES
  head,      \* the commit checked out in the project
  moves,
  tree,      \* openwrt-src: the commit it was prepared from, and whether it is compiled
  products,  \* build/artifacts
  manifest,  \* build/artifacts/build.manifest
  bpc,       \* build.sh
  builds,
  cpc,       \* collect-source-review.py
  reviewed,  \* its project_commit
  sources,   \* build/source-review; sealed by SHA256SUMS
  ppc,       \* package-release-candidate.py
  entries,   \* its inventory of the sources
  fields,    \* the ARTIFACT_SHA256 fields it read from the manifest
  staged,    \* the pair in its temporary directory
  output,    \* build/release; sealed by SHA256SUMS
  rewritten, \* history: how often a build replaced each file under the packager
  steady     \* history: the checkout never moved under a build or a collection

project == <<head, moves, steady>>
build == <<tree, products, manifest, bpc, builds>>
collection == <<cpc, reviewed, sources>>
packaging == <<ppc, entries, fields, staged, output>>
pairVars == <<project, build, collection, packaging, rewritten>>

Absent(names) == [n \in names |-> None]
NoTree == [commit |-> None, compiled |-> FALSE]
NoSources == [files |-> Absent(Collected), sealed |-> FALSE]
NoOutput == [files |-> Absent(Assets), sealed |-> FALSE]
\* A directory that package() did not finish: which of its files are whole, nobody looks.
Unfinished == [files |-> [a \in Assets |-> Torn], sealed |-> FALSE]
NoRewrites == [n \in {"build.manifest", "packages.manifest"} |-> 0]

PairInit == /\ head \in Commits /\ moves = 0 /\ steady = TRUE
            /\ tree = NoTree
            /\ products = Absent(Products) /\ manifest = None
            /\ bpc = "idle" /\ builds = 0
            /\ cpc = "idle" /\ reviewed = None /\ sources = NoSources
            /\ ppc = "idle" /\ entries = Absent(Collected) /\ fields = Absent(Products)
            /\ staged = Absent(Items) /\ output = NoOutput
            /\ rewritten = NoRewrites

-----------------------------------------------------------------------------
\* The developer.
Move(c) == /\ c # head /\ moves < MoveLimit
           /\ head' = c
           /\ moves' = moves + 1
           /\ steady' = (steady /\ bpc = "idle" /\ cpc = "idle")
           /\ UNCHANGED <<build, collection, packaging, rewritten>>

CleanArtifacts == /\ products' = Absent(Products) /\ manifest' = None
                  /\ UNCHANGED <<project, tree, bpc, builds, collection, packaging, rewritten>>

RemoveSources == /\ cpc = "idle"
                 /\ sources' = NoSources
                 /\ UNCHANGED <<project, build, cpc, reviewed, packaging, rewritten>>

RemoveOutput == /\ ppc = "idle"
                /\ output' = NoOutput /\ rewritten' = NoRewrites
                /\ UNCHANGED <<project, build, collection, ppc, entries, fields, staged>>

-----------------------------------------------------------------------------
\* build.sh.  The patches and the overlay are copied into the cleaned tree
\* here; what is compiled from now on no longer follows the checkout.
StartBuild == /\ bpc = "idle" /\ builds < BuildLimit
              /\ tree' = [commit |-> head, compiled |-> FALSE]
              /\ bpc' = "make"
              /\ builds' = builds + 1
              /\ UNCHANGED <<project, products, manifest, collection, packaging, rewritten>>

Compile == /\ bpc = "make"
           /\ tree' = [tree EXCEPT !.compiled = TRUE]
           /\ bpc' = "kernel"
           /\ UNCHANGED <<project, products, manifest, builds, collection, packaging, rewritten>>

\* A build replaces file n; a packager may be at work on it.
Rewrite(n) == rewritten' = [m \in DOMAIN rewritten |->
                              rewritten[m] + (IF m = n /\ ppc # "idle" THEN 1 ELSE 0)]

InstallProduct(n, here, there) ==
           /\ bpc = here
           /\ products' = [products EXCEPT ![n] = Of(n, tree.commit)]
           /\ Rewrite(n)
           /\ bpc' = there
           /\ UNCHANGED <<project, tree, manifest, builds, collection, packaging>>
InstallKernel == InstallProduct("uImage.buffalo", "kernel", "packages")
InstallPackages == InstallProduct("packages.manifest", "packages", "companion")

\* Line 94 wants a fresh directory, after lines 90 and 91 have written to it.
MakeCompanion == /\ bpc = "companion"
                 /\ products["initrd.buffalo"] = None
                 /\ products' = [products EXCEPT !["initrd.buffalo"] = head]
                 /\ bpc' = "manifest"
                 /\ UNCHANGED <<project, tree, manifest, builds, collection, packaging, rewritten>>

\* REPOSITORY_COMMIT is the checkout as it is now.
WriteManifest == /\ bpc = "manifest"
                 /\ \A n \in Products : products[n] # None
                 /\ manifest' = [commit |-> head, config |-> ConfigOf[tree.commit], sums |-> products]
                 /\ Rewrite("build.manifest")
                 /\ bpc' = "idle"
                 /\ UNCHANGED <<project, tree, products, builds, collection, packaging>>

\* An error or an interruption anywhere: what was written stays.
AbortBuild == /\ bpc # "idle"
              /\ bpc' = "idle"
              /\ UNCHANGED <<project, tree, products, manifest, builds, collection, packaging, rewritten>>

-----------------------------------------------------------------------------
\* collect-source-review.py.
CheckAnyBuild == /\ cpc = "idle" /\ sources = NoSources              \* mutant
                 /\ tree.compiled /\ manifest # None /\ products["packages.manifest"] # None
                 /\ reviewed' = head
                 /\ cpc' = "project"
                 /\ UNCHANGED <<project, build, sources, packaging, rewritten>>

\* Lines 112-151: the inputs are those of the build that the manifest records.
CheckInputs == /\ cpc = "idle" /\ sources = NoSources
               /\ tree.compiled /\ manifest # None /\ products["packages.manifest"] # None
               /\ manifest.commit = head /\ manifest.config = ConfigOf[tree.commit]
               /\ reviewed' = head
               /\ cpc' = "project"
               /\ UNCHANGED <<project, build, sources, packaging, rewritten>>

\* archive_git refuses a checkout that has moved since line 123.
ArchiveProject == /\ cpc = "project"
                  /\ head = reviewed
                  /\ sources' = [sources EXCEPT !.files["project.tar"] = reviewed]
                  /\ cpc' = "packages"
                  /\ UNCHANGED <<project, build, reviewed, packaging, rewritten>>

CopyMetadata(n, content, here, there) ==
                  /\ cpc = here /\ content # None
                  /\ sources' = [sources EXCEPT !.files[n] = content]
                  /\ cpc' = there
                  /\ UNCHANGED <<project, build, reviewed, packaging, rewritten>>
CopyPackages == CopyMetadata("packages.manifest", products["packages.manifest"], "packages", "manifest")
CopyManifest == CopyMetadata("build.manifest", manifest, "manifest", "seal")

\* Lines 170-188: the notices, then the inventory that completes the directory.
SealSources == /\ cpc = "seal"
               /\ sources' = [files |-> [sources.files EXCEPT !["THIRD-PARTY-NOTICES.tar"] = reviewed],
                              sealed |-> TRUE]
               /\ cpc' = "idle" /\ reviewed' = None
               /\ UNCHANGED <<project, build, packaging, rewritten>>

AbortCollection == /\ cpc # "idle"
                   /\ cpc' = "idle" /\ reviewed' = None
                   /\ UNCHANGED <<project, build, sources, packaging, rewritten>>

-----------------------------------------------------------------------------
\* package-release-candidate.py.  A check that fails raises, which is one of
\* the ways AbortPackage happens.
Content(i) == CASE i[1] = "sources" -> sources.files[i[2]]
                [] i = <<"artifacts", "build.manifest">> -> manifest
                [] OTHER -> products[i[2]]

\* A copy of c, or a torn one.
Copied(c) == {c} \cup (IF Cardinality({i \in Items : staged[i] = Torn}) < FaultLimit
                       THEN {Torn} ELSE {})

\* stage() lines 22-59 check the inputs before anything is written.  Each check
\* opens its file by name again: a build may have replaced it since.  Read while
\* install(1) writes it, a file has a checksum that nothing lists.
\* Lines 22-45: the sources are what their inventory lists, still so at line 44.
ReadInventory == /\ ppc = "idle" /\ output = NoOutput
                 /\ sources.sealed
                 /\ entries' = sources.files
                 /\ rewritten' = NoRewrites
                 /\ ppc' = "build.manifest"
                 /\ UNCHANGED <<project, build, collection, fields, staged, output>>

CheckFile(here, content, expected, there) ==
                 /\ ppc = here
                 /\ content # None /\ content = expected
                 /\ ppc' = there
                 /\ UNCHANGED <<project, build, collection, entries, fields, staged, output,
                               rewritten>>
CheckManifest == CheckFile("build.manifest", manifest, entries["build.manifest"], "fields")

\* Lines 48-53 read what is the manifest by now.
ReadFields == /\ ppc = "fields" /\ manifest # None
              /\ fields' = manifest.sums
              /\ ppc' = "uImage.buffalo"
              /\ UNCHANGED <<project, build, collection, entries, staged, output, rewritten>>

CheckProduct(n, there) == CheckFile(n, products[n], fields[n], there)
CheckPackages == CheckFile("packages", products["packages.manifest"],
                           entries["packages.manifest"], "copy")
CheckProducts == \/ CheckProduct("uImage.buffalo", "initrd.buffalo")
                 \/ CheckProduct("initrd.buffalo", "packages.manifest")
                 \/ CheckProduct("packages.manifest", "packages")
                 \/ CheckPackages

\* copytree takes the sources as the directory lists them; then the products one by one.
Before(i) == CASE i[1] = "sources" -> {"sources"} \X {n \in Collected : Place[n] < Place[i[2]]}
               [] i = <<"artifacts", "uImage.buffalo">> -> {"sources"} \X Collected
               [] i = <<"artifacts", "initrd.buffalo">> -> {<<"artifacts", "uImage.buffalo">>}
               [] i = <<"artifacts", "packages.manifest">> -> {<<"artifacts", "initrd.buffalo">>}
               [] i = <<"artifacts", "build.manifest">> -> {<<"artifacts", "packages.manifest">>}

\* Lines 60-63, in the order written there.
CopyItem(i) == /\ ppc = "copy" /\ staged[i] = None
               /\ \A j \in Before(i) : staged[j] # None
               /\ Content(i) # None
               /\ \E c \in Copied(Content(i)) : staged' = [staged EXCEPT ![i] = c]
               /\ UNCHANGED <<project, build, collection, ppc, entries, fields, output, rewritten>>

VerifyNothing == /\ ppc = "copy" /\ \A i \in Items : staged[i] # None   \* mutant
                 /\ ppc' = "pack"
                 /\ UNCHANGED <<project, build, collection, entries, fields, staged, output, rewritten>>

\* Lines 64-72: the copies, not the inputs, must be what was read.  The copied
\* manifest is compared with the inventory, not with the fields of line 49.
VerifyStaged == /\ ppc = "copy" /\ \A i \in Items : staged[i] # None
                /\ \A n \in Collected : staged[<<"sources", n>>] = entries[n]
                /\ \A n \in Products : staged[<<"artifacts", n>>] = fields[n]
                /\ staged[<<"artifacts", "build.manifest">>] = entries["build.manifest"]
                /\ ppc' = "pack"
                /\ UNCHANGED <<project, build, collection, entries, fields, staged, output, rewritten>>

PackagerEnds == /\ ppc' = "idle"
                /\ entries' = Absent(Collected) /\ fields' = Absent(Products)
                /\ staged' = Absent(Items)

\* What the assets should be: the staged pair, its sources in one archive.
Packed == [a \in Assets |->
             CASE a = "sources.tar" -> [n \in Collected |-> staged[<<"sources", n>>]]
               [] a = "THIRD-PARTY-NOTICES.tar" -> staged[<<"sources", a>>]
               [] OTHER -> staged[<<"artifacts", a>>]]

\* package() lines 30-42: the directory exists from here on, without inventory.
Pack == /\ ppc = "pack" /\ output = NoOutput
        /\ \E torn \in SUBSET Assets :
             /\ Cardinality(torn) <= FaultLimit
             /\ output' = [files |-> [a \in Assets |-> IF a \in torn THEN Torn ELSE Packed[a]],
                           sealed |-> FALSE]
        /\ ppc' = "seal"
        /\ UNCHANGED <<project, build, collection, entries, fields, staged, rewritten>>

\* Lines 39-57: every asset is compared with the verified pair, then listed.
SealOutput == /\ ppc = "seal"
              /\ output.files = Packed
              /\ output' = [output EXCEPT !.sealed = TRUE]
              /\ PackagerEnds
              /\ UNCHANGED <<project, build, collection, rewritten>>

AbortPackage == /\ ppc # "idle"
                /\ PackagerEnds /\ rewritten' = NoRewrites
                /\ output' = IF ppc = "seal" THEN Unfinished ELSE output
                /\ UNCHANGED <<project, build, collection>>

-----------------------------------------------------------------------------
Developer == (\E c \in Commits : Move(c)) \/ CleanArtifacts \/ RemoveSources \/ RemoveOutput
Build == StartBuild \/ Compile \/ InstallKernel \/ InstallPackages
           \/ MakeCompanion \/ WriteManifest \/ AbortBuild
Collect == CheckInputs \/ ArchiveProject \/ CopyPackages \/ CopyManifest
             \/ SealSources \/ AbortCollection
Stage == ReadInventory \/ CheckManifest \/ ReadFields \/ CheckProducts
Package == Stage \/ (\E i \in Items : CopyItem(i)) \/ VerifyStaged
             \/ Pack \/ SealOutput \/ AbortPackage
PairNext == Developer \/ Build \/ Collect \/ Package

-----------------------------------------------------------------------------
Made == Commits \cup {None}
IsCollection(f) == /\ f \in [Collected -> Contents \cup {None}]
                   /\ \A n \in Collected \ {"build.manifest"} : f[n] \in Files \cup {None}
                   /\ f["build.manifest"] \in Manifests \cup {None}

\* The variables of each program.
ProjectOK == head \in Commits /\ moves \in 0..MoveLimit /\ steady \in BOOLEAN
BuildOK == /\ tree \in [commit: Made, compiled: BOOLEAN]
           /\ products \in [Products -> Files \cup {None}]
           /\ manifest \in Manifests \cup {None}
           /\ bpc \in {"idle", "make", "kernel", "packages", "companion", "manifest"}
           /\ bpc # "idle" => tree.commit \in Commits
           /\ builds \in 0..BuildLimit
CollectionOK == /\ cpc \in {"idle", "project", "packages", "manifest", "seal"}
                /\ reviewed \in (IF cpc = "idle" THEN {None} ELSE Commits)
                /\ sources \in [files: [Collected -> Contents \cup {None}], sealed: BOOLEAN]
                /\ IsCollection(sources.files)
PackagingOK == /\ ppc \in {"idle", "build.manifest", "fields", "packages", "copy", "pack", "seal"}
                           \cup Products
               /\ IsCollection(entries) /\ fields \in [Products -> Files \cup {None}]
               /\ staged \in [Items -> Contents \cup {None, Torn}]
               /\ output \in [files: [Assets -> Contents \cup Archives \cup {None, Torn}],
                               sealed: BOOLEAN]

\* Files hold what their place in the scripts can give them: in particular only
\* the copies of the packager are ever torn (build.sh, the two Python scripts).
TypeOK == /\ ProjectOK /\ BuildOK /\ CollectionOK /\ PackagingOK
          /\ rewritten \in [{"build.manifest", "packages.manifest"} -> Nat]

\* A release directory with an inventory holds whole files: products with the
\* very checksums of its manifest, the sources of that manifest and their
\* notices, whatever builds, removals and bad copies happened meanwhile
\* (stage-candidate.py lines 43-72, package-release-candidate.py lines 39-57).
\* The code leaves one way round its checks: another build's manifest is there
\* at line 49 and the first one again at line 63 (likewise the package list at
\* lines 56 and 58).  That takes two replacements of the file under one
\* packager; with fewer the claim holds.
CompletePair ==
  output.sealed =>
    LET released == output.files
        inside == released["sources.tar"]
        listed == released["build.manifest"]
    IN /\ Torn \notin {released[a] : a \in Assets}
       /\ rewritten["build.manifest"] < 2 => \A n \in Products : released[n] = listed.sums[n]
       /\ inside["build.manifest"] = listed
       /\ rewritten["packages.manifest"] < 2 =>
            inside["packages.manifest"] = released["packages.manifest"]
       /\ inside["THIRD-PARTY-NOTICES.tar"] = released["THIRD-PARTY-NOTICES.tar"]
       /\ inside["project.tar"] = inside["THIRD-PARTY-NOTICES.tar"]

Matched(files) == \A n \in Products : files[n] = Of(n, files["sources.tar"]["project.tar"])

\* If nobody moved the checkout under a build or a collection, firmware is only
\* ever paired with the project sources it was compiled from, although builds
\* of other revisions came before, between and after, one of them even while
\* the packager ran.
SteadyPairMatches == output.sealed /\ steady /\ rewritten["build.manifest"] < 2 =>
                       Matched(output.files)

\* docs/distribution.md lines 42-43: "`stage-candidate.py` verifies source and
\* product inventories and rejects a mismatched build before pairing them."
MismatchRejected == output.sealed => Matched(output.files)

=============================================================================
