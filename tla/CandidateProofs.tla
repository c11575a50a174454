--------------------------- MODULE CandidateProofs ---------------------------
(***************************************************************************)
(* Proofs about Candidate: what a completed release directory and a        *)
(* release hold, for any set of commits, builds, check-outs and bad        *)
(* copies.                                                                 *)
(***************************************************************************)
EXTENDS Candidate, TLAPS

\* A collection as its inventory seals it.
Whole(f) == /\ f \in [Collected -> Contents]
            /\ \A n \in Collected \ {"build.manifest"} : f[n] \in Files
            /\ f["build.manifest"] \in Manifests
            /\ f["project.tar"] = f["THIRD-PARTY-NOTICES.tar"]

SourcesInv ==
  /\ sources.sealed => Whole(sources.files) /\ cpc = "idle"
  /\ cpc \in {"packages", "manifest", "seal"} => sources.files["project.tar"] = reviewed
  /\ cpc \in {"manifest", "seal"} => sources.files["packages.manifest"] \in Files
  /\ cpc = "seal" => sources.files["build.manifest"] \in Manifests

EntriesInv == ppc # "idle" => Whole(entries) /\ ~output.sealed

\* Once line 46 has compared the manifest with the inventory, another one is
\* found only after a replacement, and the first one again after a second.
FieldsRead == ppc \in Products \cup {"packages", "copy", "pack", "seal"}
ManifestInv ==
  LET times == rewritten["build.manifest"]
      listed == entries["build.manifest"]
  IN /\ ppc \notin {"idle", "build.manifest"} /\ manifest \notin {listed, None} => times >= 1
     /\ FieldsRead => fields \in [Products -> Files]
     /\ FieldsRead /\ fields # listed.sums =>
          /\ times >= 1
          /\ manifest = listed \/ staged[<<"artifacts", "build.manifest">>] = listed => times >= 2

\* The same of the package list, from lines 56 and 58 to its copy.
PackagesInv ==
  LET times == rewritten["packages.manifest"]
      now == products["packages.manifest"]
      field == fields["packages.manifest"]
  IN /\ ppc \in {"packages", "copy", "pack", "seal"} /\ now \notin {field, None} => times >= 1
     /\ ppc \in {"copy", "pack", "seal"} /\ entries["packages.manifest"] # field =>
          /\ times >= 1
          /\ now = field \/ staged[<<"artifacts", "packages.manifest">>] = field => times >= 2

StagedInv ==
  /\ ppc \notin {"copy", "pack", "seal"} => staged = Absent(Items)
  /\ ppc \in {"pack", "seal"} =>
       /\ \A n \in Collected : staged[<<"sources", n>>] = entries[n]
       /\ \A n \in Products : staged[<<"artifacts", n>>] = fields[n]
       /\ staged[<<"artifacts", "build.manifest">>] = entries["build.manifest"]

\* A manifest is written once in a build.
BuildsInv == /\ moves = 0 => steady
             /\ rewritten["build.manifest"] + (IF bpc = "idle" THEN 0 ELSE 1) <= builds

Uniform(m, c) == m.commit = c /\ \A n \in Products : m.sums[n] = Of(n, c)

SteadyInv ==
  steady =>
    /\ bpc # "idle" => tree.commit = head
    /\ bpc \in {"packages", "companion", "manifest"} => products["uImage.buffalo"] \in {head, None}
    /\ bpc \in {"companion", "manifest"} => products["packages.manifest"] \in {PackagesOf[head], None}
    /\ bpc = "manifest" => products["initrd.buffalo"] \in {head, None}
    /\ manifest # None => Uniform(manifest, manifest.commit)
    /\ cpc # "idle" => head = reviewed /\ (manifest # None => manifest.commit = reviewed)
    /\ cpc = "seal" => Uniform(sources.files["build.manifest"], reviewed)
    /\ sources.sealed => Uniform(sources.files["build.manifest"], sources.files["project.tar"])
    /\ ppc # "idle" => Uniform(entries["build.manifest"], entries["project.tar"])

InputsInv == EntriesInv /\ ManifestInv /\ PackagesInv /\ StagedInv
PairInv == SourcesInv /\ InputsInv /\ BuildsInv /\ CompletePair /\ SteadyInv /\ SteadyPairMatches

UploadInv == /\ UploadTypeOK
             /\ upc = "wait" => assets = {}
             /\ upc # "wait" => output.sealed /\ moves = 0 /\ builds = 1
             /\ upc = "sources" => assets \subseteq SourceAssets
             /\ upc = "firmware" /\ release # "deleted" => SourceAssets \subseteq assets
             /\ FirmwareWithSources

Inv == TypeOK /\ PairInv /\ UploadInv

-----------------------------------------------------------------------------
LEMMA CandidateInit == Init => Inv
<1> SUFFICES ASSUME Init PROVE Inv
  OBVIOUS
<1> USE DEF Init, PairInit, UploadInit, Absent, NoTree, NoSources, NoOutput
<1>1. TypeOK
  <2>1. IsCollection(sources.files) /\ IsCollection(entries)
    BY DEF IsCollection, Made, Collected
  <2> QED
    BY <2>1, LimitsAreNumbers DEF TypeOK, ProjectOK, BuildOK, CollectionOK, PackagingOK, Made, NoRewrites
<1>2. SourcesInv /\ InputsInv /\ BuildsInv
  BY DEF SourcesInv, InputsInv, EntriesInv, ManifestInv, PackagesInv, StagedInv, FieldsRead,
         Products, BuildsInv, NoRewrites
<1>3. CompletePair /\ SteadyPairMatches /\ SteadyInv
  BY DEF CompletePair, SteadyPairMatches, SteadyInv
<1>4. UploadInv
  BY DEF UploadInv, UploadTypeOK, FirmwareWithSources
<1> QED
  BY <1>1, <1>2, <1>3, <1>4 DEF Inv, PairInv

\* What the packager writes once the staged copies were verified.
LEMMA PackedIsChecked ==
  ASSUME EntriesInv, StagedInv, ManifestInv, ppc \in {"pack", "seal"}
  PROVE  /\ Packed \in [Assets -> Contents \cup Archives \cup {None, Torn}]
         /\ Packed["sources.tar"] = entries
         /\ Packed["THIRD-PARTY-NOTICES.tar"] = entries["THIRD-PARTY-NOTICES.tar"]
         /\ Packed["build.manifest"] = entries["build.manifest"]
         /\ \A n \in Products : Packed[n] = fields[n]
<1>1. /\ \A n \in Collected : staged[<<"sources", n>>] = entries[n]
      /\ \A n \in Products : staged[<<"artifacts", n>>] = fields[n]
      /\ staged[<<"artifacts", "build.manifest">>] = entries["build.manifest"]
  BY DEF StagedInv
<1>2. Whole(entries) /\ fields \in [Products -> Files]
  BY DEF EntriesInv, ManifestInv, FieldsRead
<1>3. Packed["sources.tar"] = entries
  <2>1. Packed["sources.tar"] = [n \in Collected |-> staged[<<"sources", n>>]]
    BY DEF Packed, Assets
  <2> QED
    BY <1>1, <1>2, <2>1 DEF Whole
<1>4. Packed["THIRD-PARTY-NOTICES.tar"] = entries["THIRD-PARTY-NOTICES.tar"]
  BY <1>1 DEF Packed, Assets, Collected
<1>5. Packed["build.manifest"] = entries["build.manifest"]
  BY <1>1 DEF Packed, Assets
<1>6. \A n \in Products : Packed[n] = fields[n]
  BY <1>1 DEF Packed, Assets, Products
<1>7. /\ entries \in Archives
      /\ entries["THIRD-PARTY-NOTICES.tar"] \in Contents
      /\ entries["build.manifest"] \in Contents
  BY <1>2 DEF Whole, Archives, Collected
<1>8. \A n \in Products : fields[n] \in Contents
  BY <1>2 DEF Contents
<1>9. \A a \in Assets : Packed[a] \in Contents \cup Archives
  BY <1>3, <1>4, <1>5, <1>6, <1>7, <1>8 DEF Assets, Products
<1>10. Packed = [a \in Assets |-> Packed[a]]
  BY DEF Packed
<1> QED
  BY <1>3, <1>4, <1>5, <1>6, <1>9, <1>10

-----------------------------------------------------------------------------
\* Types, in the parts that the programs change by themselves.
LEMMA PartsRest ==
  /\ ProjectOK /\ UNCHANGED project => ProjectOK'
  /\ BuildOK /\ UNCHANGED build => BuildOK'
  /\ CollectionOK /\ UNCHANGED collection => CollectionOK'
  /\ PackagingOK /\ UNCHANGED packaging => PackagingOK'
<1>1. ProjectOK /\ UNCHANGED project => ProjectOK'
  BY DEF ProjectOK, project
<1>2. BuildOK /\ UNCHANGED build => BuildOK'
  BY DEF BuildOK, build
<1>3. CollectionOK /\ UNCHANGED collection => CollectionOK'
  BY DEF CollectionOK, collection, IsCollection
<1>4. PackagingOK /\ UNCHANGED packaging => PackagingOK'
  BY DEF PackagingOK, packaging, IsCollection
<1> QED
  BY <1>1, <1>2, <1>3, <1>4

\* What a build's replacement of file n counts.
LEMMA RewriteCounts ==
  ASSUME TypeOK, NEW n, Rewrite(n)
  PROVE  /\ rewritten' \in [{"build.manifest", "packages.manifest"} -> Nat]
         /\ \A m \in {"build.manifest", "packages.manifest"} :
              rewritten'[m] = IF m = n /\ ppc # "idle" THEN rewritten[m] + 1 ELSE rewritten[m]
BY DEF TypeOK, Rewrite

LEMMA DeveloperTyped == TypeOK /\ Developer => TypeOK'
<1> SUFFICES ASSUME TypeOK, ProjectOK, BuildOK, CollectionOK, PackagingOK, Developer
             PROVE  ProjectOK' /\ BuildOK' /\ CollectionOK' /\ PackagingOK'
  BY DEF TypeOK, Developer, Move, CleanArtifacts, RemoveSources, RemoveOutput, NoRewrites
<1>1. ASSUME NEW c \in Commits, Move(c) PROVE ProjectOK'
  BY <1>1, LimitsAreNumbers DEF Move, ProjectOK
<1>2. CASE \E c \in Commits : Move(c)
  BY <1>1, <1>2, PartsRest DEF Move
<1>3. CASE CleanArtifacts
  <2>1. BuildOK'
    BY <1>3 DEF CleanArtifacts, BuildOK, Absent, Made
  <2> QED
    BY <1>3, <2>1, PartsRest DEF CleanArtifacts
<1>4. CASE RemoveSources
  <2>1. CollectionOK'
    BY <1>4 DEF RemoveSources, CollectionOK, NoSources, IsCollection, Absent, Made, Collected
  <2> QED
    BY <1>4, <2>1, PartsRest DEF RemoveSources
<1>5. CASE RemoveOutput
  <2>1. PackagingOK'
    BY <1>5 DEF RemoveOutput, PackagingOK, NoOutput, IsCollection, Absent
  <2> QED
    BY <1>5, <2>1, PartsRest DEF RemoveOutput
<1> QED
  BY <1>2, <1>3, <1>4, <1>5 DEF Developer

LEMMA BuildTyped == TypeOK /\ Build => TypeOK'
<1> SUFFICES ASSUME TypeOK, ProjectOK, BuildOK, CollectionOK, PackagingOK, Build
             PROVE  TypeOK'
  BY DEF TypeOK
<1>1. UNCHANGED <<project, collection, packaging>>
  BY DEF Build, StartBuild, Compile, InstallKernel, InstallPackages, InstallProduct,
         MakeCompanion, WriteManifest, AbortBuild
<1>2. BuildOK'
  <2>1. CASE StartBuild
    BY <2>1, LimitsAreNumbers DEF StartBuild, BuildOK, ProjectOK, Made
  <2>2. CASE Compile
    BY <2>2 DEF Compile, BuildOK
  <2>3. CASE InstallKernel
    BY <2>3 DEF InstallKernel, InstallProduct, BuildOK, Made, Of, Files
  <2>4. CASE InstallPackages
    BY <2>4 DEF InstallPackages, InstallProduct, BuildOK, Made, Of, Files
  <2>5. CASE MakeCompanion
    BY <2>5 DEF MakeCompanion, BuildOK, ProjectOK, Files
  <2>6. CASE WriteManifest
    <3>1. products \in [Products -> Files] /\ tree.commit \in Commits
      BY <2>6 DEF WriteManifest, BuildOK
    <3>2. manifest' \in Manifests
      BY <2>6, <3>1 DEF WriteManifest, BuildOK, ProjectOK, Manifests
    <3> QED
      BY <2>6, <3>2 DEF WriteManifest, BuildOK
  <2>7. CASE AbortBuild
    BY <2>7 DEF AbortBuild, BuildOK
  <2> QED
    BY <2>1, <2>2, <2>3, <2>4, <2>5, <2>6, <2>7 DEF Build
<1>3. rewritten' \in [{"build.manifest", "packages.manifest"} -> Nat]
  BY RewriteCounts DEF Build, StartBuild, Compile, InstallKernel, InstallPackages, InstallProduct,
         MakeCompanion, WriteManifest, AbortBuild, TypeOK
<1> QED
  BY <1>1, <1>2, <1>3, PartsRest DEF TypeOK

LEMMA CollectTyped == TypeOK /\ Collect => TypeOK'
<1> SUFFICES ASSUME TypeOK, ProjectOK, BuildOK, CollectionOK, PackagingOK, Collect
             PROVE  TypeOK'
  BY DEF TypeOK
<1>1. UNCHANGED <<project, build, packaging, rewritten>>
  BY DEF Collect, CheckInputs, ArchiveProject, CopyPackages, CopyManifest, CopyMetadata,
         SealSources, AbortCollection
<1>2. CollectionOK'
  <2>1. CASE CheckInputs
    BY <2>1 DEF CheckInputs, CollectionOK, ProjectOK
  <2>2. CASE ArchiveProject
    BY <2>2 DEF ArchiveProject, CollectionOK, IsCollection, Files, Contents, Collected
  <2>3. CASE CopyPackages
    <3>1. products["packages.manifest"] \in Files
      BY <2>3 DEF CopyPackages, CopyMetadata, BuildOK, Products
    <3> QED
      BY <2>3, <3>1 DEF CopyPackages, CopyMetadata, CollectionOK, IsCollection, Files, Contents, Collected
  <2>4. CASE CopyManifest
    BY <2>4 DEF CopyManifest, CopyMetadata, BuildOK, CollectionOK, IsCollection, Files, Contents, Collected
  <2>5. CASE SealSources
    BY <2>5 DEF SealSources, CollectionOK, IsCollection, Files, Contents, Collected
  <2>6. CASE AbortCollection
    BY <2>6 DEF AbortCollection, CollectionOK
  <2> QED
    BY <2>1, <2>2, <2>3, <2>4, <2>5, <2>6 DEF Collect
<1> QED
  BY <1>1, <1>2, PartsRest DEF TypeOK

\* What a copy can find.
LEMMA ContentTyped ==
  ASSUME TypeOK, NEW i \in Items
  PROVE  Content(i) \in Contents \cup {None}
<1>1. CASE i[1] = "sources"
  <2>1. i[2] \in Collected
    BY <1>1 DEF Items
  <2> QED
    BY <1>1, <2>1 DEF Content, TypeOK, CollectionOK
<1>2. CASE i[1] # "sources"
  <2>1. CASE i = <<"artifacts", "build.manifest">>
    BY <2>1 DEF Content, TypeOK, BuildOK, Contents
  <2>2. CASE i # <<"artifacts", "build.manifest">>
    <3>1. i[2] \in Products
      BY <1>2, <2>2 DEF Items
    <3>2. Content(i) = products[i[2]]
      BY <1>2, <2>2 DEF Content
    <3> QED
      BY <3>1, <3>2 DEF TypeOK, BuildOK, Contents
  <2> QED
    BY <2>1, <2>2
<1> QED
  BY <1>1, <1>2

LEMMA PackageTyped == TypeOK /\ InputsInv /\ Package => TypeOK'
<1> SUFFICES ASSUME TypeOK, InputsInv, Package PROVE TypeOK'
  OBVIOUS
<1>1. ProjectOK /\ BuildOK /\ CollectionOK /\ PackagingOK
  BY DEF TypeOK
<1>2. /\ UNCHANGED <<project, build, collection>>
      /\ rewritten' \in {rewritten, NoRewrites}
  BY DEF Package, Stage, ReadInventory, CheckManifest, ReadFields, CheckProducts, CheckProduct,
         CheckPackages, CheckFile, CopyItem, VerifyStaged, Pack, SealOutput, AbortPackage
<1>3. PackagingOK'
  <2>1. CASE ReadInventory
    BY <1>1, <2>1 DEF ReadInventory, PackagingOK, CollectionOK, IsCollection
  <2>2. CASE CheckManifest \/ CheckProducts
    BY <1>1, <2>2 DEF CheckManifest, CheckProducts, CheckProduct, CheckPackages, CheckFile,
                      PackagingOK, IsCollection, Products
  <2>3. CASE ReadFields
    <3>1. manifest.sums \in [Products -> Files]
      BY <1>1, <2>3 DEF ReadFields, BuildOK, Manifests
    <3> QED
      BY <1>1, <2>3, <3>1 DEF ReadFields, PackagingOK, IsCollection, Products
  <2>4. ASSUME NEW i \in Items, CopyItem(i) PROVE PackagingOK'
    <3>1. PICK c \in Copied(Content(i)) : staged' = [staged EXCEPT ![i] = c]
      BY <2>4 DEF CopyItem
    <3>2. c \in Contents \cup {None, Torn}
      BY <3>1, ContentTyped DEF Copied
    <3>3. UNCHANGED <<ppc, entries, fields, output>>
      BY <2>4 DEF CopyItem
    <3> QED
      BY <1>1, <3>1, <3>2, <3>3 DEF PackagingOK, IsCollection
  <2>5. CASE VerifyStaged
    BY <1>1, <2>5 DEF VerifyStaged, PackagingOK, IsCollection
  <2>6. CASE Pack
    <3>1. Packed \in [Assets -> Contents \cup Archives \cup {None, Torn}]
      BY <2>6, PackedIsChecked DEF Pack, InputsInv
    <3>2. PICK torn \in SUBSET Assets :
            output' = [files |-> [a \in Assets |-> IF a \in torn THEN Torn ELSE Packed[a]],
                       sealed |-> FALSE]
      BY <2>6 DEF Pack
    <3>3. UNCHANGED <<entries, fields, staged>> /\ ppc' = "seal"
      BY <2>6 DEF Pack
    <3> QED
      BY <1>1, <3>1, <3>2, <3>3 DEF PackagingOK, IsCollection
  <2>7. PackagerEnds => /\ ppc' = "idle"
                        /\ IsCollection(entries)' /\ fields' \in [Products -> Files \cup {None}]
                        /\ staged' \in [Items -> Contents \cup {None, Torn}]
    BY DEF PackagerEnds, IsCollection, Absent, Collected
  <2>8. CASE SealOutput
    BY <1>1, <2>7, <2>8 DEF SealOutput, PackagingOK
  <2>9. CASE AbortPackage
    <3>1. Unfinished \in [files: [Assets -> Contents \cup Archives \cup {None, Torn}], sealed: BOOLEAN]
      BY DEF Unfinished
    <3> QED
      BY <1>1, <2>7, <2>9, <3>1 DEF AbortPackage, PackagingOK
  <2> QED
    BY <2>1, <2>2, <2>3, <2>4, <2>5, <2>6, <2>8, <2>9 DEF Package, Stage
<1> QED
  BY <1>1, <1>2, <1>3, PartsRest DEF TypeOK, NoRewrites

-----------------------------------------------------------------------------
\* The parts of PairInv.
LEMMA SourcesStep == TypeOK /\ SourcesInv /\ PairNext => SourcesInv'
<1> SUFFICES ASSUME TypeOK, SourcesInv, PairNext PROVE SourcesInv'
  OBVIOUS
<1> USE DEF SourcesInv, project, build, collection, packaging
<1>1. CASE Developer
  BY <1>1 DEF Developer, Move, CleanArtifacts, RemoveSources, RemoveOutput, NoSources
<1>2. CASE Build
  BY <1>2 DEF Build, StartBuild, Compile, InstallKernel, InstallPackages, InstallProduct,
              MakeCompanion, WriteManifest, AbortBuild
<1>3. CASE Package
  BY <1>3 DEF Package, Stage, ReadInventory, CheckManifest, ReadFields, CheckProducts, CheckProduct,
              CheckPackages, CheckFile, CopyItem, VerifyStaged, Pack, SealOutput, AbortPackage
<1>4. CASE CheckInputs
  BY <1>4 DEF CheckInputs, NoSources
<1>5. CASE ArchiveProject
  BY <1>5 DEF ArchiveProject, TypeOK, CollectionOK, Collected
<1>6. CASE CopyPackages
  <2>1. products["packages.manifest"] \in Files
    BY <1>6 DEF CopyPackages, CopyMetadata, TypeOK, BuildOK, Products
  <2> QED
    BY <1>6, <2>1 DEF CopyPackages, CopyMetadata, TypeOK, CollectionOK, Collected
<1>7. CASE CopyManifest
  BY <1>7 DEF CopyManifest, CopyMetadata, TypeOK, BuildOK, CollectionOK, Collected
<1>8. CASE SealSources
  <2> DEFINE f == sources.files
  <2>1. /\ f["project.tar"] = reviewed /\ f["packages.manifest"] \in Files
        /\ f["build.manifest"] \in Manifests /\ reviewed \in Commits
    BY <1>8 DEF SealSources, TypeOK, CollectionOK
  <2>2. f \in [Collected -> Contents \cup {None}]
    BY DEF TypeOK, CollectionOK
  <2>3. sources'.files = [f EXCEPT !["THIRD-PARTY-NOTICES.tar"] = reviewed] /\ cpc' = "idle"
    BY <1>8 DEF SealSources
  <2>4. Whole(sources'.files)
    BY <2>1, <2>2, <2>3 DEF Whole, Collected, Contents, Files
  <2> QED
    BY <2>3, <2>4 DEF Whole
<1>9. CASE AbortCollection
  BY <1>9 DEF AbortCollection
<1> QED
  BY <1>1, <1>2, <1>3, <1>4, <1>5, <1>6, <1>7, <1>8, <1>9 DEF PairNext, Collect

\* The packager's own variables are its own, but for a removal of its output.
LEMMA OthersLeave ==
  Developer \/ Build \/ Collect =>
    /\ UNCHANGED <<ppc, entries, fields, staged>>
    /\ output' = output \/ (ppc = "idle" /\ output' = NoOutput)
BY DEF packaging, Developer, Move, CleanArtifacts, RemoveSources, RemoveOutput,
       Build, StartBuild, Compile, InstallKernel, InstallPackages, InstallProduct,
       MakeCompanion, WriteManifest, AbortBuild,
       Collect, CheckInputs, ArchiveProject, CopyPackages, CopyManifest, CopyMetadata,
       SealSources, AbortCollection

LEMMA EntriesStep == TypeOK /\ SourcesInv /\ EntriesInv /\ PairNext => EntriesInv'
<1> SUFFICES ASSUME TypeOK, SourcesInv, EntriesInv, PairNext PROVE EntriesInv'
  OBVIOUS
<1> USE DEF EntriesInv, Whole
<1>1. CASE Developer \/ Build \/ Collect
  BY <1>1, OthersLeave
<1>2. CASE ReadInventory
  BY <1>2 DEF ReadInventory, SourcesInv, NoOutput
<1>3. CASE Package /\ ~ReadInventory
  <2>1. ppc # "idle" /\ (ppc' = "idle" \/ (entries' = entries /\ ~output'.sealed))
    BY <1>3 DEF Package, Stage, ReadInventory, CheckManifest, ReadFields, CheckProducts, CheckProduct,
                CheckPackages, CheckFile, CopyItem, VerifyStaged, Pack, SealOutput,
                AbortPackage, PackagerEnds, Products
  <2> QED
    BY <2>1
<1> QED
  BY <1>1, <1>2, <1>3 DEF PairNext

LEMMA StagedStep == TypeOK /\ EntriesInv /\ StagedInv /\ PairNext => StagedInv'
<1> SUFFICES ASSUME TypeOK, EntriesInv, StagedInv, PairNext PROVE StagedInv'
  OBVIOUS
<1> USE DEF StagedInv
<1>1. CASE Developer \/ Build \/ Collect
  BY <1>1, OthersLeave
<1>2. CASE Stage
  BY <1>2 DEF Stage, ReadInventory, CheckManifest, ReadFields, CheckProducts, CheckProduct,
              CheckPackages, CheckFile, Products
<1>3. CASE \E i \in Items : CopyItem(i)
  BY <1>3 DEF CopyItem
<1>4. CASE VerifyStaged \/ Pack \/ SealOutput \/ AbortPackage
  BY <1>4 DEF VerifyStaged, Pack, SealOutput, AbortPackage, PackagerEnds
<1> QED
  BY <1>1, <1>2, <1>3, <1>4 DEF PairNext, Package

\* What the programs do to the two files that are read twice.
LEMMA FileChanges ==
  ASSUME TypeOK, PairNext, ppc # "idle"
  PROVE  /\ \/ rewritten'["build.manifest"] = rewritten["build.manifest"] /\ manifest' \in {manifest, None}
            \/ rewritten'["build.manifest"] = rewritten["build.manifest"] + 1
            \/ ppc' = "idle"
         /\ \/ /\ rewritten'["packages.manifest"] = rewritten["packages.manifest"]
               /\ products'["packages.manifest"] \in {products["packages.manifest"], None}
            \/ rewritten'["packages.manifest"] = rewritten["packages.manifest"] + 1
            \/ ppc' = "idle"
<1> DEFINE Kept == rewritten' = rewritten /\ manifest' \in {manifest, None}
                     /\ products'["packages.manifest"] \in {products["packages.manifest"], None}
<1>1. CASE Developer
  <2>1. Kept
    BY <1>1 DEF Developer, Move, CleanArtifacts, RemoveSources, RemoveOutput, build, Absent, Products
  <2> QED
    BY <2>1
<1>2. CASE InstallKernel \/ InstallPackages
  BY <1>2, RewriteCounts DEF InstallKernel, InstallPackages, InstallProduct, TypeOK, BuildOK, Products
<1>3. CASE WriteManifest
  BY <1>3, RewriteCounts DEF WriteManifest
<1>4. CASE StartBuild \/ Compile \/ MakeCompanion \/ AbortBuild
  <2>1. Kept
    BY <1>4 DEF StartBuild, Compile, MakeCompanion, AbortBuild, TypeOK, BuildOK, Products
  <2> QED
    BY <2>1
<1>5. CASE Collect
  <2>1. Kept
    BY <1>5 DEF Collect, CheckInputs, ArchiveProject, CopyPackages, CopyManifest, CopyMetadata,
                SealSources, AbortCollection, build
  <2> QED
    BY <2>1
<1>6. CASE Package
  <2>1. Kept \/ ppc' = "idle"
    BY <1>6 DEF Package, Stage, ReadInventory, CheckManifest, ReadFields, CheckProducts, CheckProduct,
                CheckPackages, CheckFile, CopyItem, VerifyStaged, Pack, SealOutput,
                AbortPackage, PackagerEnds, build
  <2> QED
    BY <2>1
<1> QED
  BY <1>1, <1>2, <1>3, <1>4, <1>5, <1>6 DEF PairNext, Build

LEMMA ManifestStep ==
  ASSUME TypeOK, EntriesInv, StagedInv, ManifestInv, PairNext
  PROVE  ManifestInv'
<1> DEFINE listed == entries["build.manifest"]
           times == rewritten["build.manifest"]
           copy == staged[<<"artifacts", "build.manifest">>]
<1>1. times \in Nat /\ (ppc # "idle" => listed # None)
  BY ContentsAreDistinct DEF TypeOK, EntriesInv, Whole, Contents
<1>2. ppc' = "idle" \/ ppc' = "build.manifest" => ManifestInv'
  BY DEF ManifestInv, FieldsRead, Products
<1>3. ASSUME ppc # "idle", ppc' # "idle", UNCHANGED <<entries, fields>>,
             copy' = copy \/ copy' \in {manifest, Torn} \/ copy' # listed,
             FieldsRead' => FieldsRead,
             ppc' \in {"build.manifest"} \/ ppc # "build.manifest" \/ manifest = listed
      PROVE  ManifestInv'
  <2>1. \/ times' = times /\ manifest' \in {manifest, None}
        \/ times' = times + 1
    BY <1>3, FileChanges
  <2>2. listed' = listed /\ fields' = fields
    BY <1>3
  <2>3. ppc # "build.manifest" /\ manifest \notin {listed, None} => times >= 1
    BY <1>3 DEF ManifestInv
  <2>4. FieldsRead /\ fields # listed.sums => times >= 1 /\ (manifest = listed \/ copy = listed => times >= 2)
    BY DEF ManifestInv
  <2>5. Torn # listed
    BY <1>3, ContentsAreDistinct DEF EntriesInv, Whole, Contents
  <2>6. ppc' # "build.manifest" /\ manifest' \notin {listed, None} => times' >= 1
    BY <1>1, <1>3, <2>1, <2>3
  <2>7. FieldsRead' /\ fields # listed.sums =>
           times' >= 1 /\ (manifest' = listed \/ copy' = listed => times' >= 2)
    BY <1>1, <1>3, <2>1, <2>4, <2>5
  <2>8. FieldsRead' => fields \in [Products -> Files]
    BY <1>3 DEF ManifestInv
  <2> QED
    BY <1>3, <2>2, <2>6, <2>7, <2>8 DEF ManifestInv
<1>4. CASE ppc # "idle" /\ (Developer \/ Build \/ Collect)
  BY <1>2, <1>3, <1>4, OthersLeave DEF FieldsRead
<1>5. CASE ppc = "idle" /\ (Developer \/ Build \/ Collect)
  BY <1>2, <1>5, OthersLeave
<1>6. CASE ReadInventory
  BY <1>2, <1>6 DEF ReadInventory
<1>7. CASE CheckManifest \/ CheckProducts
  BY <1>3, <1>7 DEF CheckManifest, CheckProducts, CheckProduct, CheckPackages, CheckFile,
                    FieldsRead, Products
<1>8. CASE ReadFields
  <2>1. manifest \in Manifests /\ manifest.sums \in [Products -> Files]
    BY <1>8 DEF ReadFields, TypeOK, BuildOK, Manifests
  <2>2. /\ UNCHANGED <<entries, staged, manifest, rewritten>>
        /\ fields' = manifest.sums /\ ppc = "fields" /\ ppc' = "uImage.buffalo"
    BY <1>8 DEF ReadFields, build
  <2>3. staged[<<"artifacts", "build.manifest">>] = None
    BY <2>2 DEF StagedInv, Absent, Items
  <2>4. manifest # None /\ (manifest # listed => times >= 1)
    BY <1>8, <2>2 DEF ReadFields, ManifestInv
  <2> QED
    BY <1>1, <2>1, <2>2, <2>3, <2>4 DEF ManifestInv
<1>9. ASSUME NEW i \in Items, CopyItem(i) PROVE ManifestInv'
  <2>1. PICK c \in Copied(Content(i)) : staged' = [staged EXCEPT ![i] = c]
    BY <1>9 DEF CopyItem
  <2>2. i = <<"artifacts", "build.manifest">> => c \in {manifest, Torn}
    BY <2>1 DEF Copied, Content
  <2>3. copy' = copy \/ copy' \in {manifest, Torn}
    BY <2>1, <2>2 DEF TypeOK, PackagingOK, Items
  <2> QED
    BY <1>3, <1>9, <2>3 DEF CopyItem, FieldsRead
<1>10. CASE VerifyStaged \/ Pack
  BY <1>3, <1>10 DEF VerifyStaged, Pack, FieldsRead
<1>11. CASE SealOutput \/ AbortPackage
  BY <1>2, <1>11 DEF SealOutput, AbortPackage, PackagerEnds
<1> QED
  BY <1>4, <1>5, <1>6, <1>7, <1>8, <1>9, <1>10, <1>11 DEF PairNext, Package, Stage

LEMMA PackagesStep ==
  ASSUME TypeOK, EntriesInv, StagedInv, ManifestInv, PackagesInv, PairNext
  PROVE  PackagesInv'
<1> DEFINE Late == ppc \in {"copy", "pack", "seal"}
           times == rewritten["packages.manifest"]
           now == products["packages.manifest"]
           listed == entries["packages.manifest"]
           field == fields["packages.manifest"]
           copy == staged[<<"artifacts", "packages.manifest">>]
<1>1. times \in Nat
  BY DEF TypeOK
<1>2. ~Late' /\ ppc' # "packages" => PackagesInv'
  BY DEF PackagesInv
<1>3. Late \/ ppc = "packages" => field \notin {None, Torn}
  BY ContentsAreDistinct DEF ManifestInv, FieldsRead, Products, Contents
<1>4. ASSUME Late, Late', UNCHANGED <<entries, fields>>,
             copy' = copy \/ copy' \in {now, Torn}
      PROVE  PackagesInv'
  <2>1. \/ times' = times /\ now' \in {now, None}
        \/ times' = times + 1
    BY <1>4, FileChanges
  <2>2. listed' = listed /\ field' = field
    BY <1>4
  <2>3. /\ now \notin {field, None} => times >= 1
        /\ listed # field => times >= 1 /\ (now = field \/ copy = field => times >= 2)
    BY <1>4 DEF PackagesInv
  <2>4. /\ now' \notin {field, None} => times' >= 1
        /\ listed # field => times' >= 1 /\ (now' = field \/ copy' = field => times' >= 2)
    BY <1>1, <1>3, <1>4, <2>1, <2>3
  <2> QED
    BY <2>2, <2>4 DEF PackagesInv
<1>5. ASSUME ppc = "packages", ppc' = "packages", UNCHANGED fields PROVE PackagesInv'
  <2>1. \/ times' = times /\ now' \in {now, None}
        \/ times' = times + 1
    BY <1>5, FileChanges
  <2>2. now \notin {field, None} => times >= 1
    BY <1>5 DEF PackagesInv
  <2>3. now' \notin {field', None} => times' >= 1
    BY <1>1, <1>5, <2>1, <2>2
  <2> QED
    BY <1>5, <2>3 DEF PackagesInv
<1>6. CASE Developer \/ Build \/ Collect
  BY <1>2, <1>4, <1>5, <1>6, OthersLeave
<1>7. CASE ReadInventory \/ CheckManifest \/ ReadFields
  BY <1>2, <1>7 DEF ReadInventory, CheckManifest, CheckFile, ReadFields
<1>8. CASE CheckProduct("uImage.buffalo", "initrd.buffalo")
           \/ CheckProduct("initrd.buffalo", "packages.manifest")
  BY <1>2, <1>8 DEF CheckProduct, CheckFile
<1>9. CASE CheckProduct("packages.manifest", "packages")
  BY <1>9 DEF CheckProduct, CheckFile, build, PackagesInv
<1>10. CASE CheckPackages
  <2>1. /\ ppc = "packages" /\ ppc' = "copy" /\ now = listed /\ now # None
        /\ UNCHANGED <<products, entries, fields, staged, rewritten>>
    BY <1>10 DEF CheckPackages, CheckFile, build
  <2>2. copy = None
    BY <2>1 DEF StagedInv, Absent, Items, Products
  <2>3. now # field => times >= 1
    BY <2>1 DEF PackagesInv
  <2> QED
    BY <1>3, <2>1, <2>2, <2>3 DEF PackagesInv
<1>11. ASSUME NEW i \in Items, CopyItem(i) PROVE PackagesInv'
  <2>1. PICK c \in Copied(Content(i)) : staged' = [staged EXCEPT ![i] = c]
    BY <1>11 DEF CopyItem
  <2>2. i = <<"artifacts", "packages.manifest">> => c \in {now, Torn}
    BY <2>1 DEF Copied, Content
  <2>3. copy' = copy \/ copy' \in {now, Torn}
    BY <2>1, <2>2 DEF TypeOK, PackagingOK, Items, Products
  <2> QED
    BY <1>4, <1>11, <2>3 DEF CopyItem
<1>12. CASE VerifyStaged \/ Pack
  BY <1>4, <1>12 DEF VerifyStaged, Pack
<1>13. CASE SealOutput \/ AbortPackage
  BY <1>2, <1>13 DEF SealOutput, AbortPackage, PackagerEnds
<1> QED
  BY <1>6, <1>7, <1>8, <1>9, <1>10, <1>11, <1>12, <1>13 DEF PairNext, Package, Stage, CheckProducts

LEMMA BuildsStep == TypeOK /\ BuildsInv /\ PairNext => BuildsInv'
<1> SUFFICES ASSUME TypeOK, BuildsInv, PairNext PROVE BuildsInv'
  OBVIOUS
<1>1. /\ moves \in Nat /\ builds \in Nat
      /\ rewritten \in [{"build.manifest", "packages.manifest"} -> Nat]
  BY LimitsAreNumbers DEF TypeOK, ProjectOK, BuildOK
<1> USE <1>1 DEF BuildsInv, project, build
<1>2. CASE Developer
  BY <1>2 DEF Developer, Move, CleanArtifacts, RemoveSources, RemoveOutput, NoRewrites
<1>3. CASE StartBuild \/ Compile \/ MakeCompanion \/ AbortBuild
  BY <1>3 DEF StartBuild, Compile, MakeCompanion, AbortBuild
<1>4. CASE InstallKernel \/ InstallPackages
  BY <1>4, RewriteCounts DEF InstallKernel, InstallPackages, InstallProduct
<1>5. CASE WriteManifest
  BY <1>5, RewriteCounts DEF WriteManifest
<1>6. CASE Collect
  BY <1>6 DEF Collect, CheckInputs, ArchiveProject, CopyPackages, CopyManifest, CopyMetadata,
              SealSources, AbortCollection
<1>7. CASE Package
  <2>1. rewritten'["build.manifest"] \in {rewritten["build.manifest"], 0} /\ UNCHANGED <<moves, steady, bpc, builds>>
    BY <1>7 DEF Package, Stage, ReadInventory, CheckManifest, ReadFields, CheckProducts, CheckProduct,
                CheckPackages, CheckFile, CopyItem, VerifyStaged, Pack, SealOutput, AbortPackage, NoRewrites
  <2> QED
    BY <2>1
<1> QED
  BY <1>2, <1>3, <1>4, <1>5, <1>6, <1>7 DEF PairNext, Build

\* Sealing is the only step that makes a directory complete.
LEMMA SealedOnlyWhole ==
  ASSUME TypeOK, InputsInv, SealOutput
  PROVE  /\ output'.files["sources.tar"] = entries
         /\ rewritten' = rewritten
         /\ rewritten["build.manifest"] < 2 =>
              \A n \in Products : output'.files[n] = entries["build.manifest"].sums[n]
         /\ CompletePair'
<1>1. ppc = "seal" /\ Whole(entries) /\ fields \in [Products -> Files]
  BY DEF SealOutput, InputsInv, EntriesInv, ManifestInv, FieldsRead
<1>2. output'.files = Packed /\ rewritten' = rewritten
  BY DEF SealOutput, TypeOK, PackagingOK
<1>3. /\ Packed["sources.tar"] = entries
      /\ Packed["THIRD-PARTY-NOTICES.tar"] = entries["THIRD-PARTY-NOTICES.tar"]
      /\ Packed["build.manifest"] = entries["build.manifest"]
      /\ \A n \in Products : Packed[n] = fields[n]
  BY PackedIsChecked DEF SealOutput, InputsInv
<1>4. \A a \in Assets : Packed[a] # Torn
  <2>1. entries \in Archives /\ entries["THIRD-PARTY-NOTICES.tar"] \in Contents
    BY <1>1 DEF Whole, Archives, Collected
  <2>2. entries["build.manifest"] \in Contents /\ \A n \in Products : fields[n] \in Contents
    BY <1>1 DEF Whole, Contents
  <2> QED
    BY <1>3, <2>1, <2>2, ContentsAreDistinct DEF Assets, Products
<1>5. rewritten["build.manifest"] \in Nat /\ rewritten["packages.manifest"] \in Nat
  BY DEF TypeOK
<1>6. rewritten["build.manifest"] < 2 => fields = entries["build.manifest"].sums
  <2>1. staged[<<"artifacts", "build.manifest">>] = entries["build.manifest"]
    BY <1>1 DEF InputsInv, StagedInv
  <2> QED
    BY <1>1, <1>5, <2>1 DEF InputsInv, ManifestInv, FieldsRead
<1>7. rewritten["packages.manifest"] < 2 => fields["packages.manifest"] = entries["packages.manifest"]
  <2>1. staged[<<"artifacts", "packages.manifest">>] = fields["packages.manifest"]
    BY <1>1 DEF InputsInv, StagedInv, Products
  <2> QED
    BY <1>1, <1>5, <2>1 DEF InputsInv, PackagesInv
<1>8. CompletePair'
  BY <1>1, <1>2, <1>3, <1>4, <1>6, <1>7 DEF CompletePair, Whole, Products
<1> QED
  BY <1>1, <1>2, <1>3, <1>6, <1>8

\* What a directory holds changes with its seal only, and so does the count.
LEMMA OutputChanges ==
  ASSUME TypeOK, EntriesInv, PairNext
  PROVE  \/ ~output'.sealed
         \/ output.sealed /\ output' = output /\ rewritten' = rewritten
         \/ SealOutput
<1> USE DEF EntriesInv
<1>1. CASE Developer
  BY <1>1 DEF Developer, Move, CleanArtifacts, RemoveSources, RemoveOutput, NoOutput, packaging,
              TypeOK, PackagingOK
<1>2. CASE Build \/ Collect
  <2>1. output' = output
    BY <1>2 DEF packaging, Build, StartBuild, Compile, InstallKernel, InstallPackages,
                InstallProduct, MakeCompanion, WriteManifest, AbortBuild,
                Collect, CheckInputs, ArchiveProject, CopyPackages, CopyManifest, CopyMetadata,
                SealSources, AbortCollection
  <2>2. rewritten' = rewritten \/ \E n \in {"uImage.buffalo", "packages.manifest", "build.manifest"} : Rewrite(n)
    BY <1>2 DEF Build, StartBuild, Compile, InstallKernel, InstallPackages,
                InstallProduct, MakeCompanion, WriteManifest, AbortBuild,
                Collect, CheckInputs, ArchiveProject, CopyPackages, CopyManifest, CopyMetadata,
                SealSources, AbortCollection
  <2>3. ppc = "idle" => rewritten' = rewritten
    BY <2>2 DEF Rewrite, TypeOK
  <2> QED
    BY <2>1, <2>3 DEF TypeOK, PackagingOK
<1>3. CASE ReadInventory
  BY <1>3 DEF ReadInventory, NoOutput
<1>4. CASE Package /\ ~ReadInventory /\ ~SealOutput
  BY <1>4 DEF Package, Stage, ReadInventory, CheckManifest, ReadFields, CheckProducts, CheckProduct,
              CheckPackages, CheckFile, CopyItem, VerifyStaged, Pack, SealOutput,
              AbortPackage, Unfinished, Products
<1> QED
  BY <1>1, <1>2, <1>3, <1>4 DEF PairNext

LEMMA CompleteStep == TypeOK /\ InputsInv /\ CompletePair /\ PairNext => CompletePair'
<1> SUFFICES ASSUME TypeOK, InputsInv, CompletePair, PairNext PROVE CompletePair'
  OBVIOUS
<1>1. CASE ~output'.sealed
  BY <1>1 DEF CompletePair
<1>2. CASE output.sealed /\ output' = output /\ rewritten' = rewritten
  BY <1>2 DEF CompletePair
<1>3. CASE SealOutput
  BY <1>3, SealedOnlyWhole
<1> QED
  BY <1>1, <1>2, <1>3, OutputChanges DEF InputsInv

\* Once the checkout has moved under a program, it has.
LEMMA SteadyOnce == PairNext /\ steady' => steady
BY DEF PairNext, project, Developer, Move, CleanArtifacts, RemoveSources, RemoveOutput,
       Build, StartBuild, Compile, InstallKernel, InstallPackages, InstallProduct,
       MakeCompanion, WriteManifest, AbortBuild,
       Collect, CheckInputs, ArchiveProject, CopyPackages, CopyManifest, CopyMetadata,
       SealSources, AbortCollection, Package,
       Stage, ReadInventory, CheckManifest, ReadFields, CheckProducts, CheckProduct,
       CheckPackages, CheckFile, CopyItem, VerifyStaged, Pack, SealOutput, AbortPackage

LEMMA SteadyStep ==
  ASSUME TypeOK, SourcesInv, EntriesInv, SteadyInv, PairNext, steady'
  PROVE  SteadyInv'
<1>0. steady
  BY SteadyOnce
<1> USE <1>0 DEF SteadyInv, project, build, collection, packaging
<1>1. CASE Developer
  <2>1. ASSUME NEW c \in Commits, Move(c) PROVE SteadyInv'
    <3>1. bpc' = "idle" /\ cpc' = "idle"
      BY <2>1 DEF Move
    <3> QED
      BY <2>1, <3>1 DEF Move
  <2>2. CASE CleanArtifacts
    <3>1. \A n \in Products : products'[n] = None
      BY <2>2 DEF CleanArtifacts, Absent
    <3> QED
      BY <2>2, <3>1 DEF CleanArtifacts, Products
  <2>3. CASE RemoveSources
    BY <2>3 DEF RemoveSources, NoSources
  <2>4. CASE RemoveOutput
    BY <2>4 DEF RemoveOutput
  <2> QED
    BY <1>1, <2>1, <2>2, <2>3, <2>4 DEF Developer
<1>2. CASE StartBuild
  BY <1>2 DEF StartBuild
<1>3. CASE Compile
  BY <1>3 DEF Compile, TypeOK, BuildOK
<1>4. CASE InstallKernel \/ InstallPackages
  BY <1>4 DEF InstallKernel, InstallPackages, InstallProduct, TypeOK, BuildOK, Products, Of
<1>5. CASE MakeCompanion
  BY <1>5 DEF MakeCompanion, TypeOK, ProjectOK, BuildOK, Products
<1>6. CASE WriteManifest
  <2>1. \A n \in Products : products[n] = Of(n, head)
    BY <1>6 DEF WriteManifest, Products, Of
  <2>2. manifest'.commit = head /\ \A n \in Products : manifest'.sums[n] = Of(n, head)
    BY <1>6, <2>1 DEF WriteManifest
  <2> QED
    BY <1>6, <2>2 DEF WriteManifest, Uniform
<1>7. CASE AbortBuild
  BY <1>7 DEF AbortBuild
<1>8. CASE CheckInputs
  BY <1>8 DEF CheckInputs
<1>9. CASE ArchiveProject
  BY <1>9 DEF ArchiveProject, SourcesInv
<1>10. CASE CopyPackages
  BY <1>10 DEF CopyPackages, CopyMetadata, SourcesInv
<1>11. CASE CopyManifest
  <2>1. sources'.files["build.manifest"] = manifest /\ manifest # None /\ reviewed' = reviewed
    BY <1>11 DEF CopyManifest, CopyMetadata, TypeOK, BuildOK, CollectionOK, Collected
  <2>2. Uniform(manifest, reviewed)
    BY <1>11, <2>1 DEF CopyManifest, CopyMetadata
  <2> QED
    BY <1>11, <2>1, <2>2 DEF CopyManifest, CopyMetadata, SourcesInv
<1>12. CASE SealSources
  <2>1. /\ sources'.files["build.manifest"] = sources.files["build.manifest"]
        /\ sources'.files["project.tar"] = reviewed
    BY <1>12 DEF SealSources, SourcesInv, TypeOK, CollectionOK, Collected
  <2> QED
    BY <1>12, <2>1 DEF SealSources
<1>13. CASE AbortCollection
  BY <1>13 DEF AbortCollection
<1>14. CASE ReadInventory
  BY <1>14 DEF ReadInventory
<1>15. CASE Package /\ ~ReadInventory
  BY <1>15 DEF Package, Stage, ReadInventory, CheckManifest, ReadFields, CheckProducts, CheckProduct,
               CheckPackages, CheckFile, CopyItem, VerifyStaged, Pack, SealOutput,
               AbortPackage, PackagerEnds, Products
<1> QED
  BY <1>1, <1>2, <1>3, <1>4, <1>5, <1>6, <1>7, <1>8, <1>9, <1>10, <1>11, <1>12, <1>13, <1>14, <1>15
  DEF PairNext, Build, Collect

LEMMA SteadyPairStep ==
  ASSUME TypeOK, InputsInv, SteadyInv, SteadyPairMatches, PairNext
  PROVE  SteadyPairMatches'
<1> SUFFICES ASSUME output'.sealed, steady', rewritten'["build.manifest"] < 2
             PROVE  Matched(output'.files)
  BY DEF SteadyPairMatches
<1>1. steady
  BY SteadyOnce
<1>2. CASE output.sealed /\ output' = output /\ rewritten' = rewritten
  BY <1>1, <1>2 DEF SteadyPairMatches
<1>3. CASE SealOutput
  <2>1. /\ output'.files["sources.tar"] = entries
        /\ \A n \in Products : output'.files[n] = entries["build.manifest"].sums[n]
    BY <1>3, SealedOnlyWhole
  <2>2. Uniform(entries["build.manifest"], entries["project.tar"])
    BY <1>1, <1>3 DEF SealOutput, SteadyInv
  <2> QED
    BY <2>1, <2>2 DEF Matched, Uniform
<1> QED
  BY <1>2, <1>3, OutputChanges DEF InputsInv

-----------------------------------------------------------------------------
\* The upload, and the whole.
LEMMA UploadStep == UploadInv /\ Next => UploadInv'
<1> SUFFICES ASSUME UploadInv, Next PROVE UploadInv'
  OBVIOUS
<1> USE DEF UploadInv, UploadTypeOK, FirmwareWithSources, uploadVars
<1>1. CASE Pairing
  BY <1>1 DEF Pairing
<1> SUFFICES ASSUME output.sealed, output' = output, moves = 0, builds = 1,
                    moves' = moves, builds' = builds, UploadNext
             PROVE  UploadInv'
  BY <1>1 DEF Next, Uploading, pairVars, packaging, project, build
<1>2. CASE LookBefore
  BY <1>2 DEF LookBefore, Look
<1>3. CASE UploadSources
  BY <1>3, UploadsAreDisjoint DEF UploadSources, Upload
<1>4. CASE LookBetween
  BY <1>4 DEF LookBetween, Look
<1>5. CASE UploadFirmware
  BY <1>5 DEF UploadFirmware, Upload
<1>6. CASE LookAfter
  BY <1>6 DEF LookAfter, Look
<1>7. CASE JobFails
  BY <1>7 DEF JobFails
<1>8. CASE Publish
  BY <1>8 DEF Publish
<1>9. CASE Delete
  BY <1>9 DEF Delete
<1> QED
  BY <1>2, <1>3, <1>4, <1>5, <1>6, <1>7, <1>8, <1>9 DEF UploadNext

LEMMA CandidateStep == Inv /\ [Next]_vars => Inv'
<1> SUFFICES ASSUME Inv, [Next]_vars PROVE Inv'
  OBVIOUS
<1> USE DEF Inv, PairInv
<1>1. CASE Pairing
  <2>1. PairNext
    BY <1>1 DEF Pairing
  <2>2. TypeOK'
    BY <2>1, DeveloperTyped, BuildTyped, CollectTyped, PackageTyped DEF PairNext
  <2>3. SourcesInv' /\ BuildsInv' /\ CompletePair'
    BY <2>1, SourcesStep, BuildsStep, CompleteStep
  <2>4. SteadyInv'
    BY <2>1, SteadyStep DEF SteadyInv, InputsInv
  <2>5. SteadyPairMatches'
    BY <2>1, SteadyPairStep
  <2>6. UploadInv'
    BY <1>1, UploadStep DEF Next
  <2>7. InputsInv'
    BY <2>1, EntriesStep, StagedStep, ManifestStep, PackagesStep DEF InputsInv
  <2> QED
    BY <2>2, <2>3, <2>4, <2>5, <2>6, <2>7
<1>2. CASE UNCHANGED pairVars /\ (Uploading \/ UNCHANGED vars)
  <2>1. TypeOK' /\ SourcesInv' /\ BuildsInv'
    BY <1>2, PartsRest DEF pairVars, project, build, collection, TypeOK, SourcesInv, BuildsInv
  <2>2. InputsInv'
    BY <1>2 DEF pairVars, build, packaging, InputsInv, EntriesInv, ManifestInv, PackagesInv,
                StagedInv, FieldsRead
  <2>3. CompletePair' /\ SteadyInv' /\ SteadyPairMatches'
    BY <1>2 DEF pairVars, project, build, collection, packaging, CompletePair,
                SteadyInv, SteadyPairMatches
  <2>4. UploadInv'
    <3>1. CASE Uploading
      BY <3>1, UploadStep DEF Next
    <3>2. CASE UNCHANGED vars
      BY <3>2 DEF vars, pairVars, project, build, packaging, uploadVars, UploadInv, UploadTypeOK,
                  FirmwareWithSources
    <3> QED
      BY <1>2, <3>1, <3>2
  <2> QED
    BY <2>1, <2>2, <2>3, <2>4
<1> QED
  BY <1>1, <1>2 DEF Next, vars, Uploading

LEMMA CandidateInvariant == Spec => []Inv
BY CandidateInit, CandidateStep, PTL DEF Spec

\* The variables keep their types: only the packager's copies are ever torn.
THEOREM CandidateTyped == Spec => []TypeOK
BY CandidateInvariant, PTL DEF Inv

\* A release directory with an inventory is whole and belongs together.
THEOREM CandidateComplete == Spec => []CompletePair
BY CandidateInvariant, PTL DEF Inv, PairInv

\* With a checkout that stays put under builds and collections, firmware is
\* paired with the sources it was compiled from.
THEOREM CandidateMatches == Spec => []SteadyPairMatches
BY CandidateInvariant, PTL DEF Inv, PairInv

\* No firmware in a release without its verified sources.
THEOREM CandidateReleased == Spec => []ReleasedWithItsSources
<1>1. ASSUME Inv, assets \cap FirmwareAssets # {}
      PROVE  SourceAssets \subseteq assets /\ output.sealed /\ CompletePair /\ Matched(output.files)
  <2>1. SourceAssets \subseteq assets /\ output.sealed /\ moves = 0 /\ builds = 1
    BY <1>1 DEF Inv, UploadInv, FirmwareWithSources
  <2>2. steady /\ rewritten["build.manifest"] < 2
    BY <1>1, <2>1 DEF Inv, PairInv, BuildsInv, TypeOK
  <2> QED
    BY <1>1, <2>1, <2>2 DEF Inv, PairInv, SteadyPairMatches
<1>2. Inv => ReleasedWithItsSources
  BY <1>1 DEF ReleasedWithItsSources
<1> QED
  BY <1>2, CandidateInvariant, PTL

\* A job that succeeds leaves all seven assets in what was a draft.
THEOREM CandidateRetained == Spec => RetainedWhole
<1>1. Inv /\ [Next]_vars =>
        [upc # "done" /\ upc' = "done" =>
           release = "draft" /\ assets = SourceAssets \cup FirmwareAssets]_uploadVars
  <2> SUFFICES ASSUME Inv, Next, upc # "done", upc' = "done"
               PROVE  release = "draft" /\ assets = SourceAssets \cup FirmwareAssets
    BY DEF vars, uploadVars
  <2>1. LookAfter
    BY DEF Next, Pairing, Uploading, UploadNext, uploadVars, LookBefore, LookBetween, Look,
           UploadSources, UploadFirmware, Upload, JobFails, Publish, Delete
  <2>2. SourceAssets \subseteq assets /\ assets \subseteq SourceAssets \cup FirmwareAssets
    BY <2>1 DEF Inv, UploadInv, UploadTypeOK, LookAfter, Look
  <2> QED
    BY <2>1, <2>2 DEF LookAfter, Look
<1> QED
  BY <1>1, CandidateInvariant, PTL DEF Spec, RetainedWhole

=============================================================================
