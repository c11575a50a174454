----------------------------- MODULE DraftUpload -----------------------------
(***************************************************************************)
(* The last step of candidate.yml: a release draft, created before the     *)
(* build, receives the assets in two uploads with three looks at whether   *)
(* it is still a draft.  gh sends the files of one upload in parallel, so  *)
(* any part of an upload may have arrived when the job dies.  Somebody     *)
(* with write access may publish or delete the draft at any moment.        *)
(***************************************************************************)
CONSTANTS SourceAssets,    \* of the first upload: sources, notices, manifests
          FirmwareAssets   \* of the second

ASSUME UploadsAreDisjoint == SourceAssets \cap FirmwareAssets = {}

VARIABLES
  upc,      \* the step: "wait", "sources", "firmware", then "done" or "failed"
  release,  \* "draft", "public" or "deleted"
  assets    \* the assets that have arrived

uploadVars == <<upc, release, assets>>

UploadInit == upc = "wait" /\ release = "draft" /\ assets = {}

\* Lines 96, 101 and 105: `gh release view` must answer that it is a draft.
Look(here, needed, there) == /\ upc = here
                             /\ needed \subseteq assets
                             /\ release = "draft"
                             /\ upc' = there
                             /\ UNCHANGED <<release, assets>>
LookBefore == Look("wait", {}, "sources")
LookBetweenEarly == Look("sources", {}, "firmware")                 \* mutant
LookBetween == Look("sources", SourceAssets, "firmware")
LookAfterAll ==                                                     \* mutant
  upc = "firmware" /\ FirmwareAssets \subseteq assets /\ upc' = "done" /\ UNCHANGED <<release, assets>>
LookAfter == Look("firmware", FirmwareAssets, "done")

Upload(here, part) == /\ upc = here
                      /\ release # "deleted"
                      /\ \E a \in part \ assets : assets' = assets \cup {a}
                      /\ UNCHANGED <<upc, release>>
UploadSources == Upload("sources", SourceAssets)
UploadFirmware == Upload("firmware", FirmwareAssets)

\* A look or an upload that fails ends the job (set -e); so does a cancellation.
JobFails == /\ upc \notin {"done", "failed"}
            /\ upc' = "failed"
            /\ UNCHANGED <<release, assets>>

Publish == /\ release = "draft"
           /\ release' = "public"
           /\ UNCHANGED <<upc, assets>>

Delete == /\ release # "deleted"
          /\ release' = "deleted"
          /\ assets' = {}
          /\ UNCHANGED upc

UploadNext == \/ LookBefore \/ UploadSources \/ LookBetween \/ UploadFirmware \/ LookAfter
              \/ JobFails \/ Publish \/ Delete

-----------------------------------------------------------------------------
UploadTypeOK == /\ upc \in {"wait", "sources", "firmware", "done", "failed"}
                /\ release \in {"draft", "public", "deleted"}
                /\ assets \subseteq SourceAssets \cup FirmwareAssets

\* However the job ends, and whoever publishes meanwhile, no asset of the
\* firmware is there without every asset of its sources (candidate.yml line 97).
FirmwareWithSources == assets \cap FirmwareAssets # {} => SourceAssets \subseteq assets

\* A run that succeeds leaves all assets in a release that was a draft when it
\* looked last (candidate.yml line 105).
RetainedWhole == [][upc # "done" /\ upc' = "done" =>
                      release = "draft" /\ assets = SourceAssets \cup FirmwareAssets]_uploadVars

=============================================================================
