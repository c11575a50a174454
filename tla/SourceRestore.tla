---------------------------- MODULE SourceRestore ----------------------------
(***************************************************************************)
(* restore-source-review.py: the collected sources, delivered as a ZIP,    *)
(* checked and unpacked into a fresh directory.                            *)
(***************************************************************************)
EXTENDS SourceReview

VARIABLES spc,      \* "wait", "given", "unpack", "trees", "report", "restored", "refused"
          zip,      \* the members in the ZIP
          pin,      \* the ZIP that the given digest is of
          bundle,   \* output/bundle
          trees,    \* output/project, openwrt and downloads
          restored  \* RESTORED.json

restorer == <<spc, zip, pin, bundle, trees, restored>>
sourceVars == <<reviewVars, restorer>>

RestoreInit == /\ spc = "wait" /\ zip = None /\ pin = None
               /\ bundle = None /\ trees = None /\ restored = FALSE

\* What arrives is what was collected, whole or in part, or that with one member
\* damaged, lost or left behind from elsewhere; the digest was noted at the
\* origin, or taken from what arrived.
Deliver == /\ spc = "wait" /\ rpc \in {"sealed", "failed"}
           /\ zip' \in {files} \cup (IF rpc = "failed" THEN {} ELSE
                {[files EXCEPT ![m] = c] : m \in Members, c \in {None, Torn}})
           /\ pin' \in {files, zip'}
           /\ spc' = "given"
           /\ UNCHANGED <<reviewVars, bundle, trees, restored>>

-----------------------------------------------------------------------------
\* restore(), lines 100-126: pinned, complete, as inventoried.
IntactWithNotices == zip = pin /\ Members = Present(zip)             \* mutant
Intact == /\ zip = pin
          /\ Members \ {"THIRD-PARTY-NOTICES.tar"} \subseteq Present(zip)
          /\ zip["SHA256SUMS"] # Torn
          /\ DOMAIN zip["SHA256SUMS"] = Present(zip) \ {"SHA256SUMS"}
          /\ \A m \in DOMAIN zip["SHA256SUMS"] : zip["SHA256SUMS"][m] = zip[m]

\* Lines 127-132: of one build.
OneBuildAnyConfig ==                                                 \* mutant
  zip["build.manifest"].commit = zip["source-review.json"].commit
OneBuild == /\ zip["build.manifest"].commit = zip["source-review.json"].commit
            /\ zip["build.manifest"].config = zip["SHA256SUMS"]["openwrt.config"]

Acceptable == Intact /\ OneBuild

VerifyZip == /\ spc = "given" /\ Acceptable
             /\ spc' = "unpack"
             /\ UNCHANGED <<reviewVars, zip, pin, bundle, trees, restored>>

UnpackBundle == /\ spc = "unpack" /\ spc' = "trees"
                /\ bundle' = zip
                /\ UNCHANGED <<reviewVars, zip, pin, trees, restored>>

ExtractTrees == /\ spc = "trees" /\ spc' = "downloads"
                /\ trees' = [project |-> bundle["project.tar"], downloads |-> bundle["downloads.tar"]]
                /\ UNCHANGED <<reviewVars, zip, pin, bundle, restored>>

\* Lines 146-156.
DownloadsAsListed == trees.downloads = bundle["source-review.json"].downloads

CheckDownloads == /\ spc = "downloads" /\ DownloadsAsListed
                  /\ spc' = "report"
                  /\ UNCHANGED <<reviewVars, zip, pin, bundle, trees, restored>>

WriteRestored == /\ spc = "report" /\ spc' = "restored"
                 /\ restored' = TRUE
                 /\ UNCHANGED <<reviewVars, zip, pin, bundle, trees>>

\* A check fails, or the run is killed.  The directory is there, and refused by
\* the next run (line 98).
StopRestore == /\ spc \notin {"wait", "restored", "refused"} /\ spc' = "refused"
               /\ UNCHANGED <<reviewVars, zip, pin, bundle, trees, restored>>

Restoring == \/ VerifyZip \/ UnpackBundle \/ ExtractTrees \/ CheckDownloads \/ WriteRestored \/ StopRestore

SourcesNext == \/ ReviewNext /\ UNCHANGED restorer
               \/ Deliver \/ Restoring

SourcesSpec == ReviewInit /\ RestoreInit /\ [][SourcesNext]_sourceVars

-----------------------------------------------------------------------------
\* What bears RESTORED.json is whole and of one build: the project is the one the
\* manifest and the report name, the configuration the one the manifest was
\* written for, each download the one listed.  These three are found out here
\* if a build, a checkout or a replaced download mixed them up while they were
\* collected, a download replaced and put back under archive_downloads()
\* included.  linux.config is bound to nothing: another build's goes through.
RestoredConsistent == restored =>
  LET record == bundle["build.manifest"]
      report == bundle["source-review.json"]
  IN /\ trees.project = record.commit /\ report.commit = record.commit
     /\ bundle["openwrt.config"] = record.config
     /\ trees.downloads = report.downloads
     /\ Torn \notin {bundle[m] : m \in Members}

\* What was collected with nobody interfering, and arrived as it was sent, is
\* restored: no check of the second script refuses what the first one writes.
CollectedRestores == rpc = "sealed" /\ quiet /\ zip = files /\ pin = files =>
  /\ spc = "given" => Acceptable
  /\ spc = "downloads" => DownloadsAsListed

=============================================================================
