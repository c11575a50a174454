------------------------------ MODULE Candidate ------------------------------
(***************************************************************************)
(* A candidate from its build to its release draft: CandidatePair, then    *)
(* DraftUpload of the directory that it completed.  Pairs are made on a    *)
(* developer's machine, where anything may happen meanwhile, or by the     *)
(* job that uploads, on a runner of its own: one check-out, one build, and *)
(* nothing else acts on the directories.                                   *)
(***************************************************************************)
EXTENDS CandidatePair, DraftUpload

vars == <<pairVars, uploadVars>>

Init == PairInit /\ UploadInit
\* A draft that is gone or public by the first look gets nothing: when, is the same.
Pairing == upc = "wait" /\ release = "draft" /\ PairNext /\ UNCHANGED uploadVars
Uploading == /\ moves = 0 /\ builds = 1
             /\ bpc = "idle" /\ cpc = "idle" /\ ppc = "idle" /\ output.sealed
             /\ UploadNext /\ UNCHANGED pairVars
Next == Pairing \/ Uploading
Spec == Init /\ [][Next]_vars

-----------------------------------------------------------------------------
\* Firmware in the release, published or not, lies beside its complete sources,
\* those it was compiled from: the order of the uploads (candidate.yml lines
\* 97-104), the checks of the collector and of the packager together.
ReleasedWithItsSources == assets \cap FirmwareAssets # {} =>
                            /\ SourceAssets \subseteq assets
                            /\ output.sealed /\ CompletePair /\ Matched(output.files)

=============================================================================
