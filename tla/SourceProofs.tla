---------------------------- MODULE SourceProofs ----------------------------
(***************************************************************************)
(* Collecting the sources, restoring them and rebuilding from them, for    *)
(* any number of downloads, versions, commits, configurations and runs.    *)
(*                                                                         *)
(* Notices.  The collector reads each source three times: for the          *)
(* inventory, to find its notices and to copy them; the latter two         *)
(* between two digests.  SlipCost counts what it takes to have wrong       *)
(* notices where it stands: one replacement before the first reading, one  *)
(* to restore the source for the digest after it, and as many again for    *)
(* the second reading.                                                     *)
(*                                                                         *)
(* Restoration.  The members are not consistent when they are collected.   *)
(* What is proved of the collection is what each of them says and that     *)
(* SHA256SUMS lists them as they are; the rest is found out on the way     *)
(* back: what is accepted is what was sealed (AcceptedIsSealed), and then  *)
(* the checks of restore() compare exactly what could differ.              *)
(*                                                                         *)
(* Rebuild.  git init of the source tree is the point of no return.        *)
(* Before it nothing of a result exists (Untouched); after it no run gets  *)
(* past the check for a fresh tree, so the one run that passed it is the   *)
(* only one that ever writes, and finds at each of its steps what its own  *)
(* earlier steps have left and nothing else (Progress).                    *)
(*                                                                         *)
(* Tree.  A set of walks that no step leads out of (Closed) stands for     *)
(* what the check of the links has seen.  A reader's walk is always one of *)
(* these walks with names still to come (Reading), for the next name is a  *)
(* link, whose own check is in the set, or nothing that leads anywhere.    *)
(***************************************************************************)
EXTENDS SourceRestore, SourceTree, OfflineRebuild, SequenceTheorems, TLAPS

\* The collection.
Places == {"commit", "manifest", "inputs", "project", "config", "linux", "copy manifest",
           "downloads", "add", "digest", "discover", "find notices", "discovered",
           "collect", "copy notices", "copied", "seal", "sealed", "failed"}
Noticing == {"discover", "find notices", "discovered", "collect", "copy notices", "copied"}
Reported == Noticing \cup {"seal", "sealed"}
Opening == {"commit", "manifest", "inputs", "project", "config", "linux", "copy manifest"}
Downloading == {"downloads", "add", "digest"}
AtSource == {"find notices", "discovered", "copy notices", "copied"}

Holds(m, S) == files[m] \in S \cup {None}

\* The collector's place and what it has read.
ReviewTyped ==
  /\ head \in Commits /\ conf \in Configs /\ linux \in Configs /\ manifest \in Manifests
  /\ dl \in Inventories /\ swaps \in Nat /\ quiet \in BOOLEAN
  /\ rpc \in Places /\ reviewed \in Commits \cup {None}
  /\ todo \subseteq Downloads /\ item \in Downloads \cup {None} /\ checksum \in Versions \cup {None}
  /\ inventory \in Inventories /\ records \in Inventories /\ selection \in Selections \cup {None}
  /\ fields \in Manifests \cup {None}

\* The members written so far.
FilesTyped ==
  /\ files = [m \in Members |-> files[m]]
  /\ Holds("project.tar", Commits) /\ Holds("openwrt.config", Configs)
  /\ Holds("linux.config", Configs) /\ Holds("build.manifest", Manifests)
  /\ Holds("downloads.tar", Inventories)
  /\ Holds("source-review.json", [commit: Commits, downloads: Inventories])
  /\ Holds("THIRD-PARTY-NOTICES.tar", Inventories)

\* What is written where the collector stands.
WrittenInv ==
  /\ rpc \notin {"commit", "failed"} => reviewed # None
  /\ rpc \in {"add", "digest"} \cup AtSource => item \in todo
  /\ rpc \in {"config", "linux", "copy manifest"} \cup Downloading \cup Reported =>
       files["project.tar"] = reviewed
  /\ rpc \in Reported =>
       files["source-review.json"] = [commit |-> reviewed, downloads |-> inventory]
  /\ rpc \in Noticing => selection # None
  /\ rpc \notin {"seal", "sealed", "failed"} => files["THIRD-PARTY-NOTICES.tar"] = None
  /\ rpc \in {"seal", "sealed"} => files["THIRD-PARTY-NOTICES.tar"] \in {None, records}
  /\ rpc # "sealed" => files["SHA256SUMS"] = None
  /\ rpc = "sealed" =>
       files["SHA256SUMS"] = [m \in Present(files) \ {"SHA256SUMS"} |-> files[m]]

Slipped(d) == records[d] # None /\ records[d] # inventory[d]
Noticed == rpc \in {"seal", "sealed"} /\ files["THIRD-PARTY-NOTICES.tar"] # None

\* Notices were found of the sources that are through with being searched, and
\* are copied of all that are listed.
RecordsInv ==
  /\ rpc \notin Noticing \cup {"seal", "sealed", "failed"} => records = NoDownloads
  /\ rpc \in Noticing => todo \subseteq Listed
  /\ rpc \in {"discover", "find notices", "discovered"} => \A d \in Downloads :
       /\ d \in Listed \ todo \/ (rpc = "discovered" /\ d = item) => records[d] # None
       /\ records[d] # None => d \in Listed
  /\ rpc \in {"collect", "copy notices", "copied"} \/ Noticed => \A d \in Downloads :
       records[d] # None <=> d \in Listed

\* The replacements it takes to bring the collector where it stands with the
\* wrong notices of d.
SlipCost(d) ==
  /\ rpc \in Noticing => swaps >= 1
  /\ rpc \in Noticing /\ dl[d] = inventory[d] => swaps >= 2
  /\ rpc \in Noticing /\ ~(rpc = "discovered" /\ item = d) /\ dl[d] # inventory[d] => swaps >= 3
  /\ rpc = "copied" /\ item = d => swaps >= 3 /\ (dl[d] = inventory[d] => swaps >= 4)
  /\ Noticed \/ (rpc \in {"collect", "copy notices", "copied"} /\ d \notin todo) => swaps >= 4

SlipInv ==
  /\ rpc = "find notices" => dl[item] = inventory[item] \/ swaps >= 1
  /\ \A d \in Downloads : Slipped(d) => SlipCost(d)

\* What the members say while nobody interferes.
QuietInv == quiet =>
  /\ manifest = [commit |-> head, config |-> conf]
  /\ rpc \notin {"commit", "failed"} => reviewed = head
  /\ rpc \in {"linux", "copy manifest"} \cup Downloading \cup Reported => files["openwrt.config"] = conf
  /\ rpc \in {"copy manifest"} \cup Downloading \cup Reported => files["linux.config"] # None
  /\ rpc \in Downloading \cup Reported => files["build.manifest"] = manifest
  /\ rpc \in Downloading => \A d \in Downloads :
       Archived[d] = IF rpc = "digest" /\ d = item THEN dl[d] ELSE inventory[d]
  /\ rpc \in Opening => inventory = NoDownloads /\ files["downloads.tar"] = None
  /\ rpc \in Opening \ {"commit", "manifest", "inputs"} => todo # {}
  /\ rpc \in {"downloads", "add"} /\ files["downloads.tar"] = None => todo # {}
  /\ rpc = "digest" => files["downloads.tar"] # None
  /\ rpc \in {"add", "digest"} => checksum = dl[item]
  /\ rpc \in Reported => files["downloads.tar"] = inventory

Accepted == {"unpack", "trees", "downloads", "report", "restored"}

ReviewInv == ReviewTyped /\ FilesTyped /\ WrittenInv /\ RecordsInv /\ SlipInv /\ QuietInv

\* The ZIP is what was collected, but for one member at most; once accepted, it is
\* what was sealed.
RestoreInv ==
  /\ spc \in {"wait", "given", "refused"} \cup Accepted
  /\ spc # "wait" => rpc \in {"sealed", "failed"}
  /\ spc # "wait" =>
       zip = files \/ (rpc = "sealed" /\ \E m \in Members, c \in {None, Torn} : zip = [files EXCEPT ![m] = c])
  /\ spc \in Accepted => rpc = "sealed" /\ zip = files /\ Acceptable
  /\ spc \in Accepted \ {"unpack"} => bundle = zip
  /\ spc \in Accepted \ {"unpack", "trees"} =>
       trees = [project |-> bundle["project.tar"], downloads |-> bundle["downloads.tar"]]
  /\ spc \in {"report", "restored"} => DownloadsAsListed
  /\ restored => spc = "restored"

SourcesInv == ReviewInv /\ RestoreInv

-----------------------------------------------------------------------------
LEMMA Nothing == {None, Torn} \cap (Commits \cup Configs \cup Manifests \cup Inventories) = {}
BY NothingIsContent DEF Contents

LEMMA SameInventory == \A f, g \in Inventories : (\A d \in Downloads : f[d] = g[d]) => f = g
BY DEF Inventories

LEMMA Replaced ==
  ASSUME swaps \in Nat, swaps' = swaps + 1
  PROVE  /\ swaps' \in Nat /\ swaps' >= 1
         /\ swaps >= 1 => swaps' >= 2
         /\ swaps >= 2 => swaps' >= 3
         /\ swaps >= 3 => swaps' >= 3 /\ swaps' >= 4
         /\ swaps >= 4 => swaps' >= 4
OBVIOUS

LEMMA NotReplaced == ASSUME swaps \in Nat, swaps' = swaps + 0 PROVE swaps' = swaps
OBVIOUS

LEMMA WrittenFile ==
  ASSUME files = [m \in Members |-> files[m]], NEW k \in Members, NEW c, Written(k, c)
  PROVE  /\ files' = [m \in Members |-> files'[m]]
         /\ files'[k] = c /\ \A m \in Members \ {k} : files'[m] = files[m]
BY DEF Written

LEMMA TypedStep == ReviewInv /\ [ReviewNext]_reviewVars => ReviewTyped'
<1> SUFFICES ASSUME ReviewInv, [ReviewNext]_reviewVars PROVE ReviewTyped'
  OBVIOUS
<1> USE ReviewAssumption DEF ReviewInv, ReviewTyped, world, collector, Goto, Places, Noticing,
      AtSource, NoDownloads, Inventories, Manifests, WrittenInv, Listed
<1>1. CASE ReadCommit
  BY <1>1 DEF ReadCommit
<1>2. CASE ReadManifest
  BY <1>2 DEF ReadManifest
<1>3. CASE CheckInputs
  BY <1>3 DEF CheckInputs
<1>4. CASE ArchiveProject
  BY <1>4, WrittenFile DEF ArchiveProject, Copy
<1>5. CASE CopyConfig
  BY <1>5, WrittenFile DEF CopyConfig, Copy
<1>6. CASE CopyLinux
  BY <1>6, WrittenFile DEF CopyLinux, Copy
<1>7. CASE CopyManifest
  BY <1>7, WrittenFile DEF CopyManifest, Copy
<1>8. CASE \E d \in Downloads : DigestDownload(d)
  BY <1>8 DEF DigestDownload, Take
<1>9. CASE AddDownload
  BY <1>9, WrittenFile DEF AddDownload
<1>10. CASE CheckDownload
  BY <1>10 DEF CheckDownload
<1>11. CASE WriteReport
  BY <1>11, WrittenFile DEF WriteReport
<1>12. CASE \E d \in Downloads : OpenSource(d, "discover", "find notices")
  BY <1>12 DEF OpenSource, Take
<1>13. CASE \E d \in Downloads : OpenSource(d, "collect", "copy notices")
  BY <1>13 DEF OpenSource, Take
<1>14. CASE Discover
  BY <1>14 DEF Discover, Chosen
<1>15. CASE CloseSource("discovered", "discover")
  BY <1>15 DEF CloseSource
<1>16. CASE CopyNotices
  BY <1>16 DEF CopyNotices
<1>17. CASE CloseSource("copied", "collect")
  BY <1>17 DEF CloseSource
<1>18. CASE BeginCopying
  BY <1>18 DEF BeginCopying, Chosen
<1>19. CASE WriteNotices
  BY <1>19, WrittenFile DEF WriteNotices, Copy
<1>20. CASE SealReview
  BY <1>20, WrittenFile DEF SealReview, Copy
<1>21. CASE StopReview
  BY <1>21 DEF StopReview
<1>22. CASE \E c \in Commits : Checkout(c)
  <2>1. /\ head' \in Commits /\ conf' \in Configs /\ linux' \in Configs /\ manifest' \in Manifests
        /\ quiet' = FALSE
    BY <1>22 DEF Checkout, Disturb, Manifests
  <2>2. UNCHANGED collector /\ (swaps' = swaps + 0 \/ swaps' = swaps + 1)
    BY <1>22 DEF Checkout, Disturb
  <2>3. swaps' \in Nat
    BY <2>2, Replaced, NotReplaced
  <2>4. dl' \in Inventories
    BY <1>22 DEF Checkout, Disturb
  <2> QED
    BY <2>1, <2>2, <2>3, <2>4
<1>23. CASE \E c \in Configs : Configure(c)
  <2>1. /\ head' \in Commits /\ conf' \in Configs /\ linux' \in Configs /\ manifest' \in Manifests
        /\ quiet' = FALSE
    BY <1>23 DEF Configure, Disturb, Manifests
  <2>2. UNCHANGED collector /\ (swaps' = swaps + 0 \/ swaps' = swaps + 1)
    BY <1>23 DEF Configure, Disturb
  <2>3. swaps' \in Nat
    BY <2>2, Replaced, NotReplaced
  <2>4. dl' \in Inventories
    BY <1>23 DEF Configure, Disturb
  <2> QED
    BY <2>1, <2>2, <2>3, <2>4
<1>24. CASE CompileKernel
  <2>1. /\ head' \in Commits /\ conf' \in Configs /\ linux' \in Configs /\ manifest' \in Manifests
        /\ quiet' = FALSE
    BY <1>24 DEF CompileKernel, Disturb, Manifests
  <2>2. UNCHANGED collector /\ (swaps' = swaps + 0 \/ swaps' = swaps + 1)
    BY <1>24 DEF CompileKernel, Disturb
  <2>3. swaps' \in Nat
    BY <2>2, Replaced, NotReplaced
  <2>4. dl' \in Inventories
    BY <1>24 DEF CompileKernel, Disturb
  <2> QED
    BY <2>1, <2>2, <2>3, <2>4
<1>25. CASE EndBuild
  <2>1. /\ head' \in Commits /\ conf' \in Configs /\ linux' \in Configs /\ manifest' \in Manifests
        /\ quiet' = FALSE
    BY <1>25 DEF EndBuild, Disturb, Manifests
  <2>2. UNCHANGED collector /\ (swaps' = swaps + 0 \/ swaps' = swaps + 1)
    BY <1>25 DEF EndBuild, Disturb
  <2>3. swaps' \in Nat
    BY <2>2, Replaced, NotReplaced
  <2>4. dl' \in Inventories
    BY <1>25 DEF EndBuild, Disturb
  <2> QED
    BY <2>1, <2>2, <2>3, <2>4
<1>26. CASE \E d \in Downloads, v \in Versions \cup {None} : Replace(d, v)
  <2>1. /\ head' \in Commits /\ conf' \in Configs /\ linux' \in Configs /\ manifest' \in Manifests
        /\ quiet' = FALSE
    BY <1>26 DEF Replace, Disturb, Manifests
  <2>2. UNCHANGED collector /\ (swaps' = swaps + 0 \/ swaps' = swaps + 1)
    BY <1>26 DEF Replace, Disturb
  <2>3. swaps' \in Nat
    BY <2>2, Replaced, NotReplaced
  <2>4. dl' \in Inventories
    <3>1. PICK d \in Downloads, v \in Versions \cup {None} : Replace(d, v)
      BY <1>26
    <3>2. [dl EXCEPT ![d] = v] \in Inventories
      BY <3>1 DEF Inventories
    <3> QED
      BY <3>1, <3>2 DEF Replace
  <2> QED
    BY <2>1, <2>2, <2>3, <2>4
<1>27. CASE UNCHANGED reviewVars
  BY <1>27 DEF reviewVars
<1> QED
  BY <1>1, <1>2, <1>3, <1>4, <1>5, <1>6, <1>7, <1>8, <1>9, <1>10, <1>11, <1>12, <1>13, <1>14, <1>15,
     <1>16, <1>17, <1>18, <1>19, <1>20, <1>21, <1>22, <1>23, <1>24, <1>25, <1>26, <1>27
  DEF ReviewNext, Collecting, Notices, Disturbing

LEMMA FilesStep == ReviewInv /\ [ReviewNext]_reviewVars => FilesTyped'
<1> SUFFICES ASSUME ReviewInv, [ReviewNext]_reviewVars PROVE FilesTyped'
  OBVIOUS
<1> USE ReviewAssumption DEF ReviewInv, ReviewTyped, FilesTyped, world, collector, Goto, Members,
      Holds
<1>1. CASE ReadCommit
  BY <1>1 DEF ReadCommit
<1>2. CASE ReadManifest
  BY <1>2 DEF ReadManifest
<1>3. CASE CheckInputs
  BY <1>3 DEF CheckInputs
<1>4. CASE ArchiveProject
  <2>1. Written("project.tar", head)
    BY <1>4 DEF ArchiveProject, Copy
  <2>2. /\ files' = [m \in Members |-> files'[m]] /\ files'["project.tar"] = head
        /\ \A m \in Members \ {"project.tar"} : files'[m] = files[m]
    BY <2>1, WrittenFile
  <2> QED
    BY <2>2
<1>5. CASE CopyConfig
  <2>1. Written("openwrt.config", conf)
    BY <1>5 DEF CopyConfig, Copy
  <2>2. /\ files' = [m \in Members |-> files'[m]] /\ files'["openwrt.config"] = conf
        /\ \A m \in Members \ {"openwrt.config"} : files'[m] = files[m]
    BY <2>1, WrittenFile
  <2> QED
    BY <2>2
<1>6. CASE CopyLinux
  <2>1. Written("linux.config", linux)
    BY <1>6 DEF CopyLinux, Copy
  <2>2. /\ files' = [m \in Members |-> files'[m]] /\ files'["linux.config"] = linux
        /\ \A m \in Members \ {"linux.config"} : files'[m] = files[m]
    BY <2>1, WrittenFile
  <2> QED
    BY <2>2
<1>7. CASE CopyManifest
  <2>1. Written("build.manifest", manifest)
    BY <1>7 DEF CopyManifest, Copy
  <2>2. /\ files' = [m \in Members |-> files'[m]] /\ files'["build.manifest"] = manifest
        /\ \A m \in Members \ {"build.manifest"} : files'[m] = files[m]
    BY <2>1, WrittenFile
  <2> QED
    BY <2>2
<1>8. CASE \E d \in Downloads : DigestDownload(d)
  BY <1>8 DEF DigestDownload, Take
<1>9. CASE AddDownload
  <2>1. item \in Downloads /\ dl \in Inventories /\ Archived \in Inventories
    BY <1>9 DEF AddDownload, Archived, WrittenInv, AtSource, NoDownloads, Inventories
  <2>2. [Archived EXCEPT ![item] = dl[item]] \in Inventories
    BY <2>1 DEF Inventories
  <2> QED
    BY <1>9, <2>2, WrittenFile DEF AddDownload
<1>10. CASE CheckDownload
  BY <1>10 DEF CheckDownload
<1>11. CASE WriteReport
  <2>1. [commit |-> reviewed, downloads |-> inventory] \in [commit: Commits, downloads: Inventories]
    BY <1>11 DEF WriteReport, WrittenInv
  <2> QED
    BY <1>11, <2>1, WrittenFile DEF WriteReport
<1>12. CASE \E d \in Downloads : OpenSource(d, "discover", "find notices")
  BY <1>12 DEF OpenSource, Take
<1>13. CASE \E d \in Downloads : OpenSource(d, "collect", "copy notices")
  BY <1>13 DEF OpenSource, Take
<1>14. CASE Discover
  BY <1>14 DEF Discover, Chosen
<1>15. CASE CloseSource("discovered", "discover")
  BY <1>15 DEF CloseSource
<1>16. CASE CopyNotices
  BY <1>16 DEF CopyNotices
<1>17. CASE CloseSource("copied", "collect")
  BY <1>17 DEF CloseSource
<1>18. CASE BeginCopying
  BY <1>18 DEF BeginCopying, Chosen
<1>19. CASE WriteNotices
  BY <1>19, WrittenFile DEF WriteNotices, Copy
<1>20. CASE SealReview
  BY <1>20, WrittenFile DEF SealReview, Copy
<1>21. CASE StopReview
  BY <1>21 DEF StopReview
<1>22. CASE \E c \in Commits : Checkout(c)
  BY <1>22 DEF Checkout, Disturb
<1>23. CASE \E c \in Configs : Configure(c)
  BY <1>23 DEF Configure, Disturb
<1>24. CASE CompileKernel
  BY <1>24 DEF CompileKernel, Disturb
<1>25. CASE EndBuild
  BY <1>25 DEF EndBuild, Disturb
<1>26. CASE \E d \in Downloads, v \in Versions \cup {None} : Replace(d, v)
  BY <1>26 DEF Replace, Disturb
<1>27. CASE UNCHANGED reviewVars
  BY <1>27 DEF reviewVars
<1> QED
  BY <1>1, <1>2, <1>3, <1>4, <1>5, <1>6, <1>7, <1>8, <1>9, <1>10, <1>11, <1>12, <1>13, <1>14, <1>15,
     <1>16, <1>17, <1>18, <1>19, <1>20, <1>21, <1>22, <1>23, <1>24, <1>25, <1>26, <1>27
  DEF ReviewNext, Collecting, Notices, Disturbing

LEMMA WrittenStep == ReviewInv /\ [ReviewNext]_reviewVars => WrittenInv'
<1> SUFFICES ASSUME ReviewInv, [ReviewNext]_reviewVars PROVE WrittenInv'
  OBVIOUS
<1> USE ReviewAssumption DEF ReviewInv, ReviewTyped, FilesTyped, world, collector, Goto, Members,
      WrittenInv, Places, Noticing, Reported, Downloading, AtSource
<1>1. CASE ReadCommit
  BY <1>1, Nothing DEF ReadCommit
<1>2. CASE ReadManifest
  BY <1>2 DEF ReadManifest
<1>3. CASE CheckInputs
  BY <1>3 DEF CheckInputs
<1>4. CASE ArchiveProject
  BY <1>4, WrittenFile DEF ArchiveProject, Copy
<1>5. CASE CopyConfig
  BY <1>5, WrittenFile DEF CopyConfig, Copy
<1>6. CASE CopyLinux
  BY <1>6, WrittenFile DEF CopyLinux, Copy
<1>7. CASE CopyManifest
  BY <1>7, WrittenFile DEF CopyManifest, Copy
<1>8. CASE \E d \in Downloads : DigestDownload(d)
  BY <1>8 DEF DigestDownload, Take
<1>9. CASE AddDownload
  BY <1>9, WrittenFile DEF AddDownload
<1>10. CASE CheckDownload
  BY <1>10 DEF CheckDownload
<1>11. CASE WriteReport
  BY <1>11, WrittenFile DEF WriteReport
<1>12. CASE \E d \in Downloads : OpenSource(d, "discover", "find notices")
  BY <1>12 DEF OpenSource, Take
<1>13. CASE \E d \in Downloads : OpenSource(d, "collect", "copy notices")
  BY <1>13 DEF OpenSource, Take
<1>14. CASE Discover
  BY <1>14 DEF Discover, Chosen
<1>15. CASE CloseSource("discovered", "discover")
  BY <1>15 DEF CloseSource
<1>16. CASE CopyNotices
  BY <1>16 DEF CopyNotices
<1>17. CASE CloseSource("copied", "collect")
  BY <1>17 DEF CloseSource
<1>18. CASE BeginCopying
  BY <1>18 DEF BeginCopying, Chosen
<1>19. CASE WriteNotices
  BY <1>19, WrittenFile DEF WriteNotices, Copy
<1>20. CASE SealReview
  <2>1. Present(files') \ {"SHA256SUMS"} = Present(files) /\ \A m \in Present(files) : files'[m] = files[m]
    BY <1>20, WrittenFile DEF SealReview, Copy, Present
  <2>2. files'["SHA256SUMS"] = [m \in Present(files') \ {"SHA256SUMS"} |-> files'[m]]
    BY <1>20, <2>1, WrittenFile DEF SealReview, Copy
  <2> QED
    BY <1>20, <2>2, WrittenFile DEF SealReview, Copy
<1>21. CASE StopReview
  BY <1>21 DEF StopReview
<1>22. CASE \E c \in Commits : Checkout(c)
  BY <1>22 DEF Checkout, Disturb
<1>23. CASE \E c \in Configs : Configure(c)
  BY <1>23 DEF Configure, Disturb
<1>24. CASE CompileKernel
  BY <1>24 DEF CompileKernel, Disturb
<1>25. CASE EndBuild
  BY <1>25 DEF EndBuild, Disturb
<1>26. CASE \E d \in Downloads, v \in Versions \cup {None} : Replace(d, v)
  BY <1>26 DEF Replace, Disturb
<1>27. CASE UNCHANGED reviewVars
  BY <1>27 DEF reviewVars
<1> QED
  BY <1>1, <1>2, <1>3, <1>4, <1>5, <1>6, <1>7, <1>8, <1>9, <1>10, <1>11, <1>12, <1>13, <1>14, <1>15,
     <1>16, <1>17, <1>18, <1>19, <1>20, <1>21, <1>22, <1>23, <1>24, <1>25, <1>26, <1>27
  DEF ReviewNext, Collecting, Notices, Disturbing

LEMMA RecordsStep == ReviewInv /\ [ReviewNext]_reviewVars => RecordsInv'
<1> SUFFICES ASSUME ReviewInv, [ReviewNext]_reviewVars PROVE RecordsInv'
  OBVIOUS
<1> USE ReviewAssumption DEF ReviewInv, ReviewTyped, FilesTyped, world, collector, Goto, WrittenInv,
      RecordsInv, Places, Noticing, AtSource, Noticed, Listed, Inventories
<1>1. CASE ReadCommit
  BY <1>1 DEF ReadCommit
<1>2. CASE ReadManifest
  BY <1>2 DEF ReadManifest
<1>3. CASE CheckInputs
  BY <1>3 DEF CheckInputs
<1>4. CASE ArchiveProject
  BY <1>4, WrittenFile DEF ArchiveProject, Copy
<1>5. CASE CopyConfig
  BY <1>5, WrittenFile DEF CopyConfig, Copy
<1>6. CASE CopyLinux
  BY <1>6, WrittenFile DEF CopyLinux, Copy
<1>7. CASE CopyManifest
  BY <1>7, WrittenFile DEF CopyManifest, Copy
<1>8. CASE \E d \in Downloads : DigestDownload(d)
  BY <1>8 DEF DigestDownload, Take
<1>9. CASE AddDownload
  BY <1>9, WrittenFile DEF AddDownload
<1>10. CASE CheckDownload
  BY <1>10 DEF CheckDownload
<1>11. CASE WriteReport
  BY <1>11, WrittenFile DEF WriteReport, NoDownloads, Members
<1>12. CASE \E d \in Downloads : OpenSource(d, "discover", "find notices")
  BY <1>12 DEF OpenSource, Take
<1>13. CASE \E d \in Downloads : OpenSource(d, "collect", "copy notices")
  BY <1>13 DEF OpenSource, Take
<1>14. CASE Discover
  BY <1>14 DEF Discover, Chosen
<1>15. CASE CloseSource("discovered", "discover")
  BY <1>15 DEF CloseSource
<1>16. CASE CopyNotices
  BY <1>16 DEF CopyNotices
<1>17. CASE CloseSource("copied", "collect")
  BY <1>17 DEF CloseSource
<1>18. CASE BeginCopying
  BY <1>18 DEF BeginCopying, Chosen
<1>19. CASE WriteNotices
  BY <1>19, WrittenFile DEF WriteNotices, Copy
<1>20. CASE SealReview
  BY <1>20, WrittenFile DEF SealReview, Copy, Members
<1>21. CASE StopReview
  BY <1>21 DEF StopReview
<1>22. CASE \E c \in Commits : Checkout(c)
  BY <1>22 DEF Checkout, Disturb
<1>23. CASE \E c \in Configs : Configure(c)
  BY <1>23 DEF Configure, Disturb
<1>24. CASE CompileKernel
  BY <1>24 DEF CompileKernel, Disturb
<1>25. CASE EndBuild
  BY <1>25 DEF EndBuild, Disturb
<1>26. CASE \E d \in Downloads, v \in Versions \cup {None} : Replace(d, v)
  BY <1>26 DEF Replace, Disturb
<1>27. CASE UNCHANGED reviewVars
  BY <1>27 DEF reviewVars
<1> QED
  BY <1>1, <1>2, <1>3, <1>4, <1>5, <1>6, <1>7, <1>8, <1>9, <1>10, <1>11, <1>12, <1>13, <1>14, <1>15,
     <1>16, <1>17, <1>18, <1>19, <1>20, <1>21, <1>22, <1>23, <1>24, <1>25, <1>26, <1>27
  DEF ReviewNext, Collecting, Notices, Disturbing

LEMMA SlipStep == ReviewInv /\ [ReviewNext]_reviewVars => SlipInv'
<1> SUFFICES ASSUME ReviewInv, [ReviewNext]_reviewVars PROVE SlipInv'
  OBVIOUS
<1> USE ReviewAssumption DEF ReviewInv, ReviewTyped, FilesTyped, world, collector, Goto, SlipInv,
      SlipCost, Slipped, Places, Noticing, Noticed, Listed, Inventories
<1>1. CASE ReadCommit
  BY <1>1 DEF ReadCommit
<1>2. CASE ReadManifest
  BY <1>2 DEF ReadManifest
<1>3. CASE CheckInputs
  BY <1>3 DEF CheckInputs
<1>4. CASE ArchiveProject
  BY <1>4, WrittenFile DEF ArchiveProject, Copy
<1>5. CASE CopyConfig
  BY <1>5, WrittenFile DEF CopyConfig, Copy
<1>6. CASE CopyLinux
  BY <1>6, WrittenFile DEF CopyLinux, Copy
<1>7. CASE CopyManifest
  BY <1>7, WrittenFile DEF CopyManifest, Copy
<1>8. CASE \E d \in Downloads : DigestDownload(d)
  BY <1>8 DEF DigestDownload, Take
<1>9. CASE AddDownload
  BY <1>9, WrittenFile DEF AddDownload
<1>10. CASE CheckDownload
  BY <1>10 DEF CheckDownload
<1>11. CASE WriteReport
  BY <1>11, WrittenFile DEF WriteReport, NoDownloads, Members, RecordsInv, WrittenInv
<1>12. CASE \E d \in Downloads : OpenSource(d, "discover", "find notices")
  BY <1>12 DEF OpenSource, Take
<1>13. CASE \E d \in Downloads : OpenSource(d, "collect", "copy notices")
  BY <1>13 DEF OpenSource, Take
<1>14. CASE Discover
  BY <1>14 DEF Discover, Chosen
<1>15. CASE CloseSource("discovered", "discover")
  BY <1>15 DEF CloseSource
<1>16. CASE CopyNotices
  BY <1>16 DEF CopyNotices
<1>17. CASE CloseSource("copied", "collect")
  BY <1>17 DEF CloseSource
<1>18. CASE BeginCopying
  BY <1>18 DEF BeginCopying, RecordsInv
<1>19. CASE WriteNotices
  BY <1>19, WrittenFile DEF WriteNotices, Copy
<1>20. CASE SealReview
  BY <1>20, WrittenFile DEF SealReview, Copy, Members
<1>21. CASE StopReview
  BY <1>21 DEF StopReview
<1>22. CASE \E c \in Commits : Checkout(c)
  <2>1. UNCHANGED <<dl, collector>> /\ swaps' = swaps + 0
    BY <1>22 DEF Checkout, Disturb
  <2>2. swaps' = swaps
    BY <2>1, NotReplaced
  <2> QED
    BY <2>1, <2>2
<1>23. CASE \E c \in Configs : Configure(c)
  <2>1. UNCHANGED <<dl, collector>> /\ swaps' = swaps + 0
    BY <1>23 DEF Configure, Disturb
  <2>2. swaps' = swaps
    BY <2>1, NotReplaced
  <2> QED
    BY <2>1, <2>2
<1>24. CASE CompileKernel
  <2>1. UNCHANGED <<dl, collector>> /\ swaps' = swaps + 0
    BY <1>24 DEF CompileKernel, Disturb
  <2>2. swaps' = swaps
    BY <2>1, NotReplaced
  <2> QED
    BY <2>1, <2>2
<1>25. CASE EndBuild
  <2>1. UNCHANGED <<dl, collector>> /\ swaps' = swaps + 0
    BY <1>25 DEF EndBuild, Disturb
  <2>2. swaps' = swaps
    BY <2>1, NotReplaced
  <2> QED
    BY <2>1, <2>2
<1>26. CASE \E d \in Downloads, v \in Versions \cup {None} : Replace(d, v)
  <2>1. PICK e \in Downloads, v \in Versions \cup {None} : Replace(e, v)
    BY <1>26
  <2>2. UNCHANGED collector /\ swaps' = swaps + 1
    BY <2>1 DEF Replace, Disturb
  <2>3. swaps' >= 1
    BY <2>2, Replaced
  <2>4. ASSUME NEW d \in Downloads, Slipped(d)'
        PROVE  SlipCost(d)'
    <3>1. Slipped(d) /\ SlipCost(d)
      BY <2>2, <2>4
    <3>2. swaps >= 1 => swaps' >= 2
      BY <2>2, Replaced
    <3>3. swaps >= 2 => swaps' >= 3
      BY <2>2, Replaced
    <3>4. swaps >= 3 => swaps' >= 3 /\ swaps' >= 4
      BY <2>2, Replaced
    <3>5. swaps >= 4 => swaps' >= 4
      BY <2>2, Replaced
    <3>6. dl'[d] = dl[d] \/ d = e
      BY <2>1 DEF Replace
    <3>7. rpc \in Noticing => swaps' >= 2
      BY <3>1, <3>2, <3>3
    <3>8. rpc \in Noticing /\ dl[d] = inventory[d] => swaps' >= 3
      BY <3>1, <3>3
    <3>9. rpc \in Noticing /\ ~(rpc = "discovered" /\ item = d) => swaps' >= 3
      BY <3>1, <3>3, <3>4
    <3>10. rpc = "copied" /\ item = d => swaps' >= 4 /\ swaps' >= 3
      BY <3>1, <3>3, <3>4, <3>9
    <3>11. Noticed \/ (rpc \in {"collect", "copy notices", "copied"} /\ d \notin todo) => swaps' >= 4
      BY <3>1, <3>5
    <3> QED
      BY <2>2, <2>3, <3>7, <3>8, <3>9, <3>10, <3>11
  <2> QED
    BY <2>2, <2>3, <2>4
<1>27. CASE UNCHANGED reviewVars
  BY <1>27 DEF reviewVars
<1> QED
  BY <1>1, <1>2, <1>3, <1>4, <1>5, <1>6, <1>7, <1>8, <1>9, <1>10, <1>11, <1>12, <1>13, <1>14, <1>15,
     <1>16, <1>17, <1>18, <1>19, <1>20, <1>21, <1>22, <1>23, <1>24, <1>25, <1>26, <1>27
  DEF ReviewNext, Collecting, Notices, Disturbing

LEMMA QuietStep == ReviewInv /\ [ReviewNext]_reviewVars => QuietInv'
<1> SUFFICES ASSUME ReviewInv, [ReviewNext]_reviewVars PROVE QuietInv'
  OBVIOUS
<1> USE ReviewAssumption DEF ReviewInv, ReviewTyped, FilesTyped, world, collector, Goto, QuietInv,
      Members, Places, Opening, Downloading, Reported, Noticing, AtSource, WrittenInv, Archived
<1>1. CASE ReadCommit
  BY <1>1 DEF ReadCommit
<1>2. CASE ReadManifest
  BY <1>2 DEF ReadManifest
<1>3. CASE CheckInputs
  BY <1>3 DEF CheckInputs
<1>4. CASE ArchiveProject
  BY <1>4, WrittenFile DEF ArchiveProject, Copy
<1>5. CASE CopyConfig
  BY <1>5, WrittenFile DEF CopyConfig, Copy
<1>6. CASE CopyLinux
  <2>1. files'["linux.config"] # None /\ \A m \in Members \ {"linux.config"} : files'[m] = files[m]
    <3>1. Written("linux.config", linux) /\ linux # None
      BY <1>6, Nothing DEF CopyLinux, Copy
    <3>2. files'["linux.config"] = linux /\ \A m \in Members \ {"linux.config"} : files'[m] = files[m]
      BY <3>1, WrittenFile
    <3> QED
      BY <3>1, <3>2
  <2> QED
    BY <1>6, <2>1 DEF CopyLinux, Copy
<1>7. CASE CopyManifest
  <2>1. files'["build.manifest"] = manifest /\ \A m \in Members \ {"build.manifest"} : files'[m] = files[m]
    BY <1>7, WrittenFile DEF CopyManifest, Copy
  <2> QED
    BY <1>7, <2>1 DEF CopyManifest, Copy
<1>8. CASE \E d \in Downloads : DigestDownload(d)
  BY <1>8 DEF DigestDownload, Take
<1>9. CASE AddDownload
  <2>1. item \in Downloads /\ Archived \in Inventories /\ dl \in Inventories
    BY <1>9 DEF AddDownload, NoDownloads, Inventories, Holds
  <2>2. [Archived EXCEPT ![item] = dl[item]] \in Inventories
    BY <2>1 DEF Inventories
  <2>3. /\ files'["downloads.tar"] = [Archived EXCEPT ![item] = dl[item]]
        /\ \A m \in Members \ {"downloads.tar"} : files'[m] = files[m]
    BY <1>9, WrittenFile DEF AddDownload
  <2>4. files'["downloads.tar"] # None /\ Archived' = files'["downloads.tar"]
    BY <2>2, <2>3, Nothing
  <2>5. ASSUME quiet, NEW d \in Downloads PROVE Archived'[d] = IF d = item THEN dl[d] ELSE inventory[d]
    BY <1>9, <2>1, <2>3, <2>4, <2>5 DEF AddDownload, Inventories
  <2> QED
    BY <1>9, <2>3, <2>4, <2>5 DEF AddDownload
<1>10. CASE CheckDownload
  <2>1. item \in Downloads /\ inventory \in Inventories
    BY <1>10 DEF CheckDownload
  <2>2. ASSUME quiet, NEW d \in Downloads PROVE Archived[d] = inventory'[d]
    BY <1>10, <2>1, <2>2 DEF CheckDownload, Inventories
  <2> QED
    BY <1>10, <2>2 DEF CheckDownload
<1>11. CASE WriteReport
  <2>1. ASSUME quiet PROVE files["downloads.tar"] = inventory
    <3>1. files["downloads.tar"] # None /\ \A d \in Downloads : files["downloads.tar"][d] = inventory[d]
      BY <1>11, <2>1 DEF WriteReport
    <3>2. files["downloads.tar"] \in Inventories /\ inventory \in Inventories
      BY <3>1 DEF Holds
    <3> QED
      BY <3>1, <3>2, SameInventory
  <2> QED
    BY <1>11, <2>1, WrittenFile DEF WriteReport
<1>12. CASE \E d \in Downloads : OpenSource(d, "discover", "find notices")
  <2>1. PICK d \in Downloads : OpenSource(d, "discover", "find notices")
    BY <1>12
  <2>2. rpc' \in Noticing /\ UNCHANGED <<world, reviewed, inventory, files>>
    BY <2>1 DEF OpenSource, Take
  <2>3. rpc \in Noticing
    BY <2>1 DEF OpenSource, Take
  <2> QED
    BY <2>2, <2>3
<1>13. CASE \E d \in Downloads : OpenSource(d, "collect", "copy notices")
  <2>1. PICK d \in Downloads : OpenSource(d, "collect", "copy notices")
    BY <1>13
  <2>2. rpc' \in Noticing /\ UNCHANGED <<world, reviewed, inventory, files>>
    BY <2>1 DEF OpenSource, Take
  <2>3. rpc \in Noticing
    BY <2>1 DEF OpenSource, Take
  <2> QED
    BY <2>2, <2>3
<1>14. CASE Discover
  BY <1>14 DEF Discover, Chosen
<1>15. CASE CloseSource("discovered", "discover")
  BY <1>15 DEF CloseSource
<1>16. CASE CopyNotices
  BY <1>16 DEF CopyNotices
<1>17. CASE CloseSource("copied", "collect")
  BY <1>17 DEF CloseSource
<1>18. CASE BeginCopying
  BY <1>18 DEF BeginCopying, Chosen
<1>19. CASE WriteNotices
  BY <1>19, WrittenFile DEF WriteNotices, Copy
<1>20. CASE SealReview
  BY <1>20, WrittenFile DEF SealReview, Copy
<1>21. CASE StopReview
  BY <1>21 DEF StopReview
<1>22. CASE \E c \in Commits : Checkout(c)
  <2>1. quiet' = FALSE
    BY <1>22 DEF Checkout, Disturb
  <2> QED
    BY <2>1
<1>23. CASE \E c \in Configs : Configure(c)
  <2>1. quiet' = FALSE
    BY <1>23 DEF Configure, Disturb
  <2> QED
    BY <2>1
<1>24. CASE CompileKernel
  <2>1. quiet' = FALSE
    BY <1>24 DEF CompileKernel, Disturb
  <2> QED
    BY <2>1
<1>25. CASE EndBuild
  <2>1. quiet' = FALSE
    BY <1>25 DEF EndBuild, Disturb
  <2> QED
    BY <2>1
<1>26. CASE \E d \in Downloads, v \in Versions \cup {None} : Replace(d, v)
  <2>1. quiet' = FALSE
    BY <1>26 DEF Replace, Disturb
  <2> QED
    BY <2>1
<1>27. CASE UNCHANGED reviewVars
  BY <1>27 DEF reviewVars
<1> QED
  BY <1>1, <1>2, <1>3, <1>4, <1>5, <1>6, <1>7, <1>8, <1>9, <1>10, <1>11, <1>12, <1>13, <1>14, <1>15,
     <1>16, <1>17, <1>18, <1>19, <1>20, <1>21, <1>22, <1>23, <1>24, <1>25, <1>26, <1>27
  DEF ReviewNext, Collecting, Notices, Disturbing


-----------------------------------------------------------------------------
LEMMA ReviewInvInit == ReviewInit => ReviewInv
<1> SUFFICES ASSUME ReviewInit PROVE ReviewInv
  OBVIOUS
<1> USE ReviewAssumption DEF ReviewInit
<1>1. ReviewTyped
  BY DEF ReviewTyped, Manifests, Inventories, NoDownloads, Places, Noticing
<1>2. FilesTyped
  BY DEF FilesTyped, Holds, Members
<1>3. WrittenInv
  BY DEF WrittenInv, Reported, Noticing, Downloading, AtSource, Members
<1>4. RecordsInv
  BY DEF RecordsInv, Noticing, Noticed
<1>5. SlipInv
  BY DEF SlipInv, Slipped, NoDownloads
<1>6. QuietInv
  BY DEF QuietInv, Opening, Downloading, Reported, Noticing, Members
<1> QED
  BY <1>1, <1>2, <1>3, <1>4, <1>5, <1>6 DEF ReviewInv

LEMMA ReviewInvStep == ReviewInv /\ [ReviewNext]_reviewVars => ReviewInv'
BY TypedStep, FilesStep, WrittenStep, RecordsStep, SlipStep, QuietStep DEF ReviewInv

-----------------------------------------------------------------------------
\* What is accepted is what was sealed: a damaged member contradicts its checksum,
\* a lost or an added one the list of them, and a damaged list is refused.
LEMMA AcceptedIsSealed ==
  ASSUME FilesTyped, WrittenInv, RestoreInv, spc = "given", Acceptable
  PROVE  rpc = "sealed" /\ zip = files
<1>1. {"SHA256SUMS", "THIRD-PARTY-NOTICES.tar"} \subseteq Members /\ "SHA256SUMS" # "THIRD-PARTY-NOTICES.tar"
  BY DEF Members
<1>2. /\ zip["SHA256SUMS"] # None /\ zip["SHA256SUMS"] # Torn
      /\ DOMAIN zip["SHA256SUMS"] = Present(zip) \ {"SHA256SUMS"}
      /\ \A m \in DOMAIN zip["SHA256SUMS"] : zip["SHA256SUMS"][m] = zip[m]
  BY <1>1 DEF Acceptable, Intact, Present
<1>3. CASE zip = files
  <2>1. rpc = "sealed"
    BY <1>2, <1>3 DEF WrittenInv
  <2> QED
    BY <1>3, <2>1
<1>4. CASE rpc = "sealed" /\ \E m \in Members, c \in {None, Torn} : zip = [files EXCEPT ![m] = c]
  <2>1. PICK k \in Members, c \in {None, Torn} : zip = [files EXCEPT ![k] = c]
    BY <1>4
  <2>2. files = [m \in Members |-> files[m]]
    BY DEF FilesTyped
  <2>3. zip[k] = c /\ \A m \in Members \ {k} : zip[m] = files[m]
    BY <2>1, <2>2
  <2>4. k # "SHA256SUMS"
    BY <1>2, <2>3
  <2>5. files["SHA256SUMS"] = [m \in Present(files) \ {"SHA256SUMS"} |-> files[m]]
    BY <1>4 DEF WrittenInv
  <2>6. zip["SHA256SUMS"] = files["SHA256SUMS"]
    BY <1>1, <2>3, <2>4
  <2>7. Present(zip) \ {"SHA256SUMS"} = Present(files) \ {"SHA256SUMS"}
    BY <1>2, <2>5, <2>6
  <2>8. files[k] = c
    <3>1. CASE k \in Present(zip)
      BY <1>2, <2>3, <2>4, <2>5, <2>6, <2>7, <3>1
    <3>2. CASE k \notin Present(zip)
      BY <2>3, <2>4, <2>7, <3>2 DEF Present
    <3> QED
      BY <3>1, <3>2
  <2>9. zip = files
    BY <2>1, <2>2, <2>8
  <2> QED
    BY <1>4, <2>9
<1> QED
  BY <1>3, <1>4 DEF RestoreInv

LEMMA ReviewEnded == ReviewInv /\ rpc \in {"sealed", "failed"} /\ [ReviewNext]_reviewVars => UNCHANGED reviewVars
BY DEF ReviewNext, Collecting, Notices, Disturbing, Disturb, Goto, ReadCommit, ReadManifest, CheckInputs,
       ArchiveProject, CopyConfig, CopyLinux, CopyManifest, Copy, DigestDownload, Take, AddDownload, CheckDownload,
       WriteReport, OpenSource, Discover, CopyNotices, CloseSource, BeginCopying, WriteNotices, SealReview,
       StopReview, Checkout, Configure, CompileKernel, EndBuild, Replace, reviewVars

LEMMA RestoreStep == ReviewInv /\ RestoreInv /\ [SourcesNext]_sourceVars => RestoreInv'
<1> SUFFICES ASSUME ReviewInv, RestoreInv, [SourcesNext]_sourceVars PROVE RestoreInv'
  OBVIOUS
<1> USE DEF ReviewInv
<1>1. CASE ReviewNext /\ UNCHANGED restorer
  <2>1. CASE spc = "wait"
    BY <1>1, <2>1 DEF RestoreInv, restorer, Accepted
  <2>2. CASE spc # "wait"
    <3>1. UNCHANGED reviewVars /\ UNCHANGED restorer
      BY <1>1, <2>2, ReviewEnded DEF RestoreInv
    <3> QED
      BY <3>1 DEF RestoreInv, reviewVars, restorer, collector, Acceptable, Intact, OneBuild, DownloadsAsListed, Present
  <2> QED
    BY <2>1, <2>2
<1>2. CASE Deliver
  <2>1. /\ spc = "wait" /\ spc' = "given" /\ rpc \in {"sealed", "failed"}
        /\ UNCHANGED <<files, rpc, restored>>
    BY <1>2 DEF Deliver, reviewVars, collector
  <2>2. zip' = files \/ (rpc = "sealed" /\ \E m \in Members, c \in {None, Torn} : zip' = [files EXCEPT ![m] = c])
    BY <1>2, <2>1 DEF Deliver
  <2> QED
    BY <2>1, <2>2 DEF RestoreInv, Accepted
<1>3. CASE VerifyZip
  <2>1. rpc = "sealed" /\ zip = files /\ Acceptable
    BY <1>3, AcceptedIsSealed DEF VerifyZip
  <2>2. Acceptable'
    BY <1>3, <2>1 DEF VerifyZip, Acceptable, Intact, OneBuild, Present
  <2> QED
    BY <1>3, <2>1, <2>2 DEF VerifyZip, RestoreInv, Accepted, reviewVars, collector
<1>4. CASE UnpackBundle
  <2>1. Acceptable => Acceptable'
    BY <1>4 DEF UnpackBundle, Acceptable, Intact, OneBuild, Present
  <2> QED
    BY <1>4, <2>1 DEF UnpackBundle, RestoreInv, Accepted, reviewVars, collector
<1>5. CASE ExtractTrees
  <2>1. Acceptable => Acceptable'
    BY <1>5 DEF ExtractTrees, Acceptable, Intact, OneBuild, Present
  <2> QED
    BY <1>5, <2>1 DEF ExtractTrees, RestoreInv, Accepted, reviewVars, collector
<1>6. CASE CheckDownloads
  <2>1. Acceptable => Acceptable'
    BY <1>6 DEF CheckDownloads, Acceptable, Intact, OneBuild, Present
  <2> QED
    BY <1>6, <2>1 DEF CheckDownloads, RestoreInv, Accepted, reviewVars, collector, DownloadsAsListed
<1>7. CASE WriteRestored
  <2>1. Acceptable => Acceptable'
    BY <1>7 DEF WriteRestored, Acceptable, Intact, OneBuild, Present
  <2> QED
    BY <1>7, <2>1 DEF WriteRestored, RestoreInv, Accepted, reviewVars, collector, DownloadsAsListed
<1>8. CASE StopRestore
  BY <1>8 DEF StopRestore, RestoreInv, Accepted, reviewVars, collector
<1>9. CASE UNCHANGED sourceVars
  BY <1>9 DEF sourceVars, RestoreInv, reviewVars, restorer, collector, Acceptable, Intact, OneBuild, DownloadsAsListed, Present
<1> QED
  BY <1>1, <1>2, <1>3, <1>4, <1>5, <1>6, <1>7, <1>8, <1>9 DEF SourcesNext, Restoring

LEMMA SourcesInvariant == SourcesSpec => []SourcesInv
<1>1. ReviewInit /\ RestoreInit => SourcesInv
  BY ReviewInvInit DEF SourcesInv, RestoreInit, RestoreInv, Accepted
<1>2. SourcesInv /\ [SourcesNext]_sourceVars => SourcesInv'
  <2>1. [SourcesNext]_sourceVars => [ReviewNext]_reviewVars
    BY DEF SourcesNext, sourceVars, Deliver, Restoring, VerifyZip, UnpackBundle, ExtractTrees, CheckDownloads,
           WriteRestored, StopRestore
  <2> QED
    BY <2>1, ReviewInvStep, RestoreStep DEF SourcesInv
<1> QED
  BY <1>1, <1>2, PTL DEF SourcesSpec

-----------------------------------------------------------------------------
\* The notices that end up beside the sources are those of the sources the
\* inventory names, for any number of downloads, if fewer than four of them
\* were replaced while collect-source-review.py ran.
THEOREM NoticesAreGenuine == SourcesSpec => []NoticesGenuine
<1>1. ReviewInv => NoticesGenuine
  <2> SUFFICES ASSUME ReviewInv, rpc = "sealed", swaps < 4, files["THIRD-PARTY-NOTICES.tar"] # None
               PROVE files["THIRD-PARTY-NOTICES.tar"] = files["source-review.json"].downloads
    BY DEF NoticesGenuine
  <2>1. files["THIRD-PARTY-NOTICES.tar"] = records /\ files["source-review.json"].downloads = inventory
    BY DEF ReviewInv, WrittenInv, Reported
  <2>2. Noticed
    BY DEF Noticed
  <2>3. \A d \in Downloads : ~Slipped(d)
    <3>1. ~(swaps >= 4)
      BY DEF ReviewInv, ReviewTyped
    <3> QED
      BY <2>2, <3>1 DEF ReviewInv, SlipInv, SlipCost
  <2>4. \A d \in Downloads : records[d] = inventory[d]
    BY <2>2, <2>3 DEF ReviewInv, RecordsInv, Slipped, Listed
  <2>5. records = inventory
    BY <2>4, SameInventory DEF ReviewInv, ReviewTyped
  <2> QED
    BY <2>1, <2>5
<1> QED
  BY <1>1, SourcesInvariant, PTL DEF SourcesInv

\* A restored directory is whole and of one build, whatever a build, a checkout or
\* a replaced download did to the collection, and whatever happened to the ZIP.
THEOREM RestoredIsConsistent == SourcesSpec => []RestoredConsistent
<1>1. SourcesInv => RestoredConsistent
  <2> SUFFICES ASSUME SourcesInv, restored PROVE RestoredConsistent
    BY DEF RestoredConsistent
  <2>1. /\ spc = "restored" /\ rpc = "sealed" /\ zip = files /\ bundle = files /\ Acceptable
        /\ trees = [project |-> bundle["project.tar"], downloads |-> bundle["downloads.tar"]]
        /\ DownloadsAsListed
    BY DEF SourcesInv, RestoreInv, Accepted
  <2>2. /\ files["project.tar"] = reviewed
        /\ files["source-review.json"] = [commit |-> reviewed, downloads |-> inventory]
        /\ files["SHA256SUMS"] = [m \in Present(files) \ {"SHA256SUMS"} |-> files[m]]
    BY <2>1 DEF SourcesInv, ReviewInv, WrittenInv, Reported
  <2>3. "openwrt.config" \in Present(files) \ {"SHA256SUMS"}
    BY <2>1 DEF Acceptable, Intact, Members
  <2>4. files["openwrt.config"] = files["build.manifest"].config /\ files["build.manifest"].commit = reviewed
    BY <2>1, <2>2, <2>3 DEF Acceptable, OneBuild
  <2>5. \A m \in Members \ {"SHA256SUMS"} : files[m] \in Contents \cup {None}
    BY DEF SourcesInv, ReviewInv, FilesTyped, Holds, Members, Contents
  <2>6. \A m \in Members \ {"SHA256SUMS"} : files[m] # Torn
    BY <2>5, NothingIsContent
  <2>7. files["SHA256SUMS"] # Torn
    BY <2>1 DEF Acceptable, Intact
  <2>8. Torn \notin {bundle[m] : m \in Members}
    BY <2>1, <2>6, <2>7
  <2> QED
    BY <2>1, <2>2, <2>4, <2>8 DEF RestoredConsistent, DownloadsAsListed
<1> QED
  BY <1>1, SourcesInvariant, PTL

\* What was collected while nothing changed, and arrived as it was sent, passes
\* every check of restore-source-review.py.
THEOREM CollectedIsRestored == SourcesSpec => []CollectedRestores
<1>1. SourcesInv => CollectedRestores
  <2> SUFFICES ASSUME SourcesInv, rpc = "sealed", quiet, zip = files, pin = files
               PROVE /\ spc = "given" => Acceptable
                     /\ spc = "downloads" => DownloadsAsListed
    BY DEF CollectedRestores
  <2>1. /\ files["project.tar"] = reviewed /\ reviewed # None
        /\ files["source-review.json"] = [commit |-> reviewed, downloads |-> inventory]
        /\ files["SHA256SUMS"] = [m \in Present(files) \ {"SHA256SUMS"} |-> files[m]]
    BY DEF SourcesInv, ReviewInv, WrittenInv, Reported
  <2>2. /\ files["openwrt.config"] = conf /\ files["linux.config"] # None
        /\ files["build.manifest"] = manifest /\ files["downloads.tar"] = inventory
        /\ manifest = [commit |-> head, config |-> conf] /\ reviewed = head
    BY DEF SourcesInv, ReviewInv, QuietInv, Reported
  <2>3. conf # None /\ manifest # None /\ inventory # None
    BY Nothing DEF SourcesInv, ReviewInv, ReviewTyped
  <2>4. files["source-review.json"] \in Contents
    BY <2>1 DEF SourcesInv, ReviewInv, ReviewTyped, Contents
  <2>5. files["source-review.json"] # None
    BY <2>4, NothingIsContent
  <2>6. \A m \in Members \ {"SHA256SUMS"} : files[m] \in Contents \cup {None}
    BY DEF SourcesInv, ReviewInv, FilesTyped, Holds, Members, Contents
  <2>7. files["SHA256SUMS"] \in [Present(files) \ {"SHA256SUMS"} -> Contents]
    BY <2>1, <2>6 DEF Present
  <2>8. files["SHA256SUMS"] # None /\ files["SHA256SUMS"] # Torn
    <3>1. Present(files) \ {"SHA256SUMS"} \in SUBSET Members
      BY DEF Present
    <3> QED
      BY <2>7, <3>1, NothingIsContent
  <2>9. Members \ {"THIRD-PARTY-NOTICES.tar"} \subseteq Present(files)
    BY <2>1, <2>2, <2>3, <2>5, <2>8 DEF Present, Members
  <2>10. Intact
    BY <2>1, <2>8, <2>9 DEF Intact
  <2>11. "openwrt.config" \in Present(files) \ {"SHA256SUMS"}
    BY <2>9 DEF Members
  <2>12. OneBuild
    BY <2>1, <2>2, <2>11 DEF OneBuild
  <2>13. spc = "downloads" => DownloadsAsListed
    BY <2>1, <2>2 DEF SourcesInv, RestoreInv, Accepted, DownloadsAsListed
  <2> QED
    BY <2>10, <2>12, <2>13 DEF Acceptable
<1> QED
  BY <1>1, SourcesInvariant, PTL

-----------------------------------------------------------------------------
\* rebuild-offline.sh.
Waiting == {"done", "network", "root", "fresh"}
Building == {"build", "compare", "fill", "compared", "package", "audit", "result", "report"}

RebuildTyped ==
  /\ opc \in Waiting \cup Building
  /\ repository \in BOOLEAN
  /\ kernel \in {Unknown, "same", "different", "foreign"}
  /\ artifacts \in {Unknown, "same", "different"}
  /\ config \in {Unknown, Empty, Partial} \cup Reports
  /\ result \in {Unknown, Empty} \cup Results

Untouched == ~repository => /\ opc \in Waiting
                            /\ kernel = Unknown /\ artifacts = Unknown
                            /\ config = Unknown /\ result = Unknown

Progress ==
  /\ opc \in {"build", "compare", "fill", "compared", "package"} => artifacts = Unknown
  /\ opc \in {"build", "compare", "fill", "compared", "package", "audit", "result"} => result = Unknown
  /\ opc = "build" => kernel = Unknown
  /\ opc \in {"compare", "fill", "compared", "package", "audit", "result", "report"} => kernel # Unknown
  /\ opc \in {"build", "compare"} => config = Unknown
  /\ opc = "fill" => config = Empty
  /\ opc \in {"compared", "package", "audit", "result", "report"} =>
       config \in {Unknown, Empty, Partial, Compared}
  /\ opc \in {"package", "audit", "result", "report"} => config \notin {Unknown, Empty}
  /\ opc \in {"audit", "result", "report"} => artifacts # Unknown
  /\ opc = "report" => config = Compared /\ result = Empty

RebuildInv == RebuildTyped /\ Untouched /\ Progress

-----------------------------------------------------------------------------
LEMMA RebuildInvInit == RebuildInit => RebuildInv
BY RebuildAssumption DEF RebuildInit, RebuildInv, RebuildTyped, Untouched, Progress, Waiting, Building

LEMMA RebuildInvStep == RebuildInv /\ [RebuildNext]_rebuildVars => RebuildInv'
<1> SUFFICES ASSUME RebuildInv, [RebuildNext]_rebuildVars PROVE RebuildInv'
  OBVIOUS
<1> USE RebuildAssumption DEF RebuildInv, RebuildTyped, Untouched, Progress, Waiting, Building, Step
<1>1. CASE StartRebuild
  BY <1>1 DEF StartRebuild, Compared
<1>2. CASE CheckNetwork
  BY <1>2 DEF CheckNetwork, Compared
<1>3. CASE CheckSourceRoot
  BY <1>3 DEF CheckSourceRoot, Compared
<1>4. CASE Baseline
  BY <1>4 DEF Baseline
<1>5. CASE Make
  BY <1>5 DEF Make
<1>6. CASE OpenComparison
  BY <1>6 DEF OpenComparison, Compared
<1>7. CASE FillComparison
  <2>1. Compared \in Reports
    BY DEF Compared, Reports
  <2>2. QED
    BY <1>7, <2>1 DEF FillComparison, Compared
<1>8. CASE ComparisonFails
  BY <1>8 DEF ComparisonFails, Compared
<1>9. CASE Continue
  BY <1>9 DEF Continue, Compared
<1>10. CASE PackageRebuilt
  BY <1>10 DEF PackageRebuilt, Compared
<1>11. CASE AuditRootfs
  BY <1>11 DEF AuditRootfs, Compared
<1>12. CASE OpenResult
  BY <1>12 DEF OpenResult, Compared
<1>13. CASE FillResult
  <2>1. AllMatch \in BOOLEAN
    BY <1>13 DEF FillResult, AllMatch, Compared
  <2>2. result' \in Results
    BY <1>13, <2>1 DEF FillResult, Results
  <2>3. QED
    BY <1>13, <2>2 DEF FillResult
<1>14. CASE StopRebuild
  BY <1>14 DEF StopRebuild
<1>15. CASE UNCHANGED rebuildVars
  BY <1>15 DEF rebuildVars, Compared
<1>16. QED
  BY <1>1, <1>2, <1>3, <1>4, <1>5, <1>6, <1>7, <1>8, <1>9, <1>10, <1>11, <1>12, <1>13, <1>14, <1>15
  DEF RebuildNext

LEMMA RebuildInvariant == RebuildSpec => []RebuildInv
BY RebuildInvInit, RebuildInvStep, PTL DEF RebuildSpec

-----------------------------------------------------------------------------
LEMMA AbstractInit == RebuildInit => Abstract!VerdictInit
BY DEF RebuildInit, Abstract!VerdictInit, Truth

\* Every other step leaves the two facts and the verdict as they are.
LEMMA AbstractStep ==
  RebuildInv /\ RebuildInv' /\ [RebuildNext]_rebuildVars
    => [Abstract!Compile \/ Abstract!Package \/ Abstract!Judge]_(Abstract!verdictVars)
<1> SUFFICES ASSUME RebuildInv, RebuildInv', [RebuildNext]_rebuildVars
             PROVE [Abstract!Compile \/ Abstract!Package \/ Abstract!Judge]_(Abstract!verdictVars)
  OBVIOUS
<1> USE RebuildAssumption
<1>1. CASE Make
  <2>1. kernel = Unknown /\ kernel' # Unknown /\ kernel' \in {"same", "different", "foreign"}
    BY <1>1 DEF Make, Step, RebuildInv, Progress
  <2>2. Abstract!Compile
    BY <1>1, <2>1 DEF Make, Abstract!Compile, Truth
  <2>3. QED
    BY <2>2
<1>2. CASE PackageRebuilt
  <2>1. kernel # Unknown
    BY <1>2 DEF PackageRebuilt, Step, RebuildInv, Progress
  <2>2. Abstract!Package
    BY <1>2, <2>1 DEF PackageRebuilt, Abstract!Package, Truth, RebuildInv, RebuildTyped
  <2>3. QED
    BY <2>2
<1>3. CASE FillResult
  <2>1. kernel # Unknown /\ artifacts # Unknown /\ config = Compared /\ result = Empty
    BY <1>3 DEF FillResult, Step, RebuildInv, Progress
  <2>2. result' = [passed |-> AllMatch] /\ result' \in Results
    BY <1>3, <2>1 DEF FillResult, AllMatch, Compared, Results
  <2>3. AllMatch = (kernel = "same" /\ artifacts = "same")
    BY <2>1 DEF AllMatch, Compared
  <2>4. result' \notin {Unknown, Empty} /\ result'.passed = AllMatch
    BY <2>2
  <2>5. Truth(kernel) = (kernel = "same") /\ Truth(artifacts) = (artifacts = "same")
    BY <2>1 DEF Truth
  <2>6. (artifacts = "same") # Unknown
    BY DEF Truth
  <2>7. Truth(artifacts) # Unknown
    BY <2>5, <2>6
  <2>8. (IF result' \in {Unknown, Empty} THEN Unknown ELSE result'.passed) = (Truth(kernel) /\ Truth(artifacts))
    BY <2>3, <2>4, <2>5
  <2>9. Abstract!Judge
    BY <1>3, <2>1, <2>7, <2>8 DEF FillResult, Abstract!Judge, Truth
  <2>10. QED
    BY <2>9
<1>4. CASE OpenResult
  BY <1>4 DEF OpenResult, Abstract!verdictVars
<1>5. CASE StartRebuild \/ CheckNetwork \/ CheckSourceRoot \/ Baseline
  BY <1>5 DEF StartRebuild, CheckNetwork, CheckSourceRoot, Baseline, Abstract!verdictVars
<1>6. CASE OpenComparison \/ FillComparison \/ ComparisonFails \/ Continue
  BY <1>6 DEF OpenComparison, FillComparison, ComparisonFails, Continue, Abstract!verdictVars
<1>7. CASE AuditRootfs \/ StopRebuild \/ UNCHANGED rebuildVars
  BY <1>7 DEF AuditRootfs, StopRebuild, rebuildVars, Abstract!verdictVars
<1>8. QED
  BY <1>1, <1>2, <1>3, <1>4, <1>5, <1>6, <1>7 DEF RebuildNext

\* rebuild-offline.sh, however often killed and started again, behaves like one
\* rebuild that says at most once, and truly, whether it came out the same.
THEOREM RebuildImplementsVerdict == RebuildSpec => OneTrueVerdict
<1>1. RebuildSpec => [][Abstract!Compile \/ Abstract!Package \/ Abstract!Judge]_(Abstract!verdictVars)
  BY RebuildInvariant, AbstractStep, PTL DEF RebuildSpec
<1>2. QED
  BY <1>1, AbstractInit, PTL DEF RebuildSpec, OneTrueVerdict, Abstract!VerdictSpec

-----------------------------------------------------------------------------
\* A walk as it may occur.
IsWalk(w) == /\ w = [at |-> w.at, rest |-> w.rest, open |-> w.open]
             /\ w.at \in Seq(Parts) /\ w.rest \in Seq(Parts)
             /\ \A o \in w.open : o \in Seq(Names) \X Nat /\ o[2] < Len(w.rest)

\* The walk that has just come to a link.
Start(path) == Begun(Root \o Front(path), <<Last(path)>>)

Later(opened, n) == {<<o[1], o[2] + n>> : o \in opened}

\* The same walk, with more to come when it is at its end.
Then(w, more) == [at |-> w.at, rest |-> w.rest \o more,
                  open |-> Later(w.open, Len(more))]

\* What walks lead to that are in K, all but those of E: a place inside, unless
\* they come to a circle, where they stop.
Closed(K, E) == \A w \in K :
  /\ IsWalk(w)
  /\ w \notin E =>
       /\ w.rest = <<>> => IsPrefix(Root, w.at)
       /\ ~Circular(w) => \A path \in Linked : Meets(w, path) => Entered(w, path) \in K
       /\ w.rest # <<>> /\ (\A path \in Linked : ~Meets(w, path)) => Passed(w) \in K

\* One step of a walk.
Moves(w, v) == \/ \E path \in Linked : Meets(w, path) /\ v = Entered(w, path)
               \/ w.rest # <<>> /\ (\A path \in Linked : ~Meets(w, path)) /\ v = Passed(w)

LinksTyped == \A path \in Linked : path \in Seq(Names) \ {<<>>} /\ tree[path].target \in Seq(Parts)

LEMMA PartsOfPaths == /\ Root \in Seq(Names) /\ Root \in Seq(Parts) /\ Names \subseteq Parts
                      /\ \A s \in Seq(Names) : s \in Seq(Parts)
<1>1. Names \subseteq Parts /\ Root \in Seq(Names)
  BY TreeAssumption DEF Names
<1>2. \A s \in Seq(Names) : s \in Seq(Parts)
  BY <1>1, SeqMonotonic
<1> QED BY <1>1, <1>2

LEMMA FrontLast ==
  ASSUME NEW S, NEW s \in Seq(S), s # <<>>
  PROVE  /\ Front(s) \in Seq(S) /\ Last(s) \in S /\ s = Append(Front(s), Last(s))
         /\ Len(Front(s)) = Len(s) - 1
<1>1. PICK t \in Seq(S), c \in S : s = Append(t, c)
  BY SequenceEmptyOrAppend
<1>2. Len(s) = Len(t) + 1 /\ Len(t) \in Nat /\ s[Len(s)] = c /\ \A i \in 1..Len(t) : s[i] = t[i]
  BY <1>1, AppendProperties
<1>3. Front(s) = SubSeq(s, 1, Len(t)) /\ Last(s) = c
  BY <1>2 DEF Front, Last
<1>4. SubSeq(s, 1, Len(t)) = t
  <2>1. \A i \in 1..Len(t) : s[i] \in S
    BY <1>2, ElementOfSeq
  <2>2. /\ SubSeq(s, 1, Len(t)) \in Seq(S) /\ Len(SubSeq(s, 1, Len(t))) = Len(t)
        /\ \A i \in 1..Len(t) : SubSeq(s, 1, Len(t))[i] = s[i]
    BY <1>2, <2>1, SubSeqProperties
  <2> QED BY <1>2, <2>2, SeqEqual
<1> QED BY <1>1, <1>2, <1>3, <1>4

LEMMA UnderRoot ==
  ASSUME NEW s \in Seq(Parts)
  PROVE  /\ Root \o s \in Seq(Parts) /\ IsPrefix(Root, Root \o s)
         /\ s = <<>> => Root \o s = Root
<1>1. Root \in Seq(Parts)
  BY PartsOfPaths
<1>2. /\ Root \o s \in Seq(Parts) /\ Len(Root \o s) = Len(Root) + Len(s)
      /\ \A i \in 1..Len(Root) + Len(s) : (Root \o s)[i] = IF i <= Len(Root) THEN Root[i] ELSE s[i - Len(Root)]
  BY <1>1, ConcatProperties
<1>3. Len(Root) \in Nat /\ Len(s) \in Nat
  BY <1>1, LenProperties
<1>4. SubSeq(Root \o s, 1, Len(Root)) = SubSeq(Root, 1, Len(Root))
  <2>1. \A i \in 1..Len(Root) : (Root \o s)[i] = Root[i] /\ Root[i] \in Parts
    BY <1>1, <1>2, <1>3, ElementOfSeq
  <2>2. /\ SubSeq(Root \o s, 1, Len(Root)) \in Seq(Parts) /\ Len(SubSeq(Root \o s, 1, Len(Root))) = Len(Root)
        /\ \A i \in 1..Len(Root) : SubSeq(Root \o s, 1, Len(Root))[i] = (Root \o s)[i]
    BY <1>3, <2>1, SubSeqProperties
  <2>3. SubSeq(Root, 1, Len(Root)) = Root
    BY <1>1, SubSeqFull
  <2> QED BY <1>1, <2>1, <2>2, <2>3, SeqEqual
<1>5. s = <<>> => Root \o s = Root
  BY <1>1, ConcatEmptySeq
<1> QED BY <1>2, <1>3, <1>4, <1>5 DEF IsPrefix

LEMMA StaysUnder ==
  ASSUME NEW at \in Seq(Parts), NEW part \in Parts, IsPrefix(Root, at)
  PROVE  IsPrefix(Root, Append(at, part))
<1>1. Len(Root) \in Nat /\ Len(at) \in Nat /\ Len(Root) <= Len(at)
  BY PartsOfPaths, LenProperties DEF IsPrefix
<1>2. SubSeq(Append(at, part), 1, Len(Root)) = SubSeq(at, 1, Len(Root))
  <2>1. CASE Len(Root) = 0
    BY <2>1, <1>1, SubSeqEmpty
  <2>2. CASE Len(Root) # 0
    <3>1. Append(at, part) = at \o <<part>> /\ <<part>> \in Seq(Parts)
      BY AppendIsConcat
    <3> QED BY <1>1, <2>2, <3>1, SubSeqOfConcat1
  <2> QED BY <2>1, <2>2
<1> QED BY <1>1, <1>2, AppendProperties DEF IsPrefix

\* A walk comes to one link at most, from the directory that the link is in.
LEMMA MeetsFrom ==
  ASSUME NEW w, IsWalk(w), NEW path \in Seq(Names), path # <<>>, Meets(w, path)
  PROVE  w.at = Root \o Front(path) /\ Head(w.rest) = Last(path)
<1>1. Front(path) \in Seq(Parts) /\ Last(path) \in Parts /\ path = Append(Front(path), Last(path))
  BY FrontLast, PartsOfPaths
<1>2. w.at \in Seq(Parts) /\ Head(w.rest) \in Parts
  BY HeadTailProperties DEF IsWalk, Meets
<1>3. Root \o path = Append(Root \o Front(path), Last(path)) /\ Root \o Front(path) \in Seq(Parts)
  <2>1. Root \in Seq(Parts) /\ <<Last(path)>> \in Seq(Parts)
    BY <1>1, PartsOfPaths
  <2>2. path = Front(path) \o <<Last(path)>>
    BY <1>1, AppendIsConcat
  <2>3. Root \o Front(path) \in Seq(Parts)
    BY <1>1, UnderRoot
  <2>4. Root \o (Front(path) \o <<Last(path)>>) = (Root \o Front(path)) \o <<Last(path)>>
    BY <1>1, <2>1, ConcatAssociative
  <2> QED BY <1>1, <2>2, <2>3, <2>4, AppendIsConcat
<1>4. Append(w.at, Head(w.rest)) = Append(Root \o Front(path), Last(path))
  BY <1>3 DEF Meets
<1>5. \A s, t \in Seq(Parts), c, d \in Parts : Append(s, c) = Append(t, d) => s = t /\ c = d
  BY AppendInjective
<1> DEFINE place == Root \o Front(path)
           part == Last(path)
           first == Head(w.rest)
<1>6. place \in Seq(Parts) /\ part \in Parts /\ first \in Parts /\ Append(w.at, first) = Append(place, part)
  BY <1>1, <1>2, <1>3, <1>4
<1> HIDE DEF place, part, first
<1>7. w.at = place /\ first = part
  BY <1>2, <1>5, <1>6
<1> QED BY <1>7 DEF place, part, first

LEMMA MeetsOne ==
  ASSUME NEW w, NEW p \in Seq(Names), NEW q \in Seq(Names), Meets(w, p), Meets(w, q)
  PROVE  p = q
<1>1. Root \o p = Root \o q /\ Root \in Seq(Parts) /\ p \in Seq(Parts) /\ q \in Seq(Parts)
  BY PartsOfPaths DEF Meets
<1>2. \A s, t, v \in Seq(Parts) : s \o t = s \o v => t = v
  BY ConcatSimplifications
<1> QED BY <1>1, <1>2

LEMMA EnteredIsWalk ==
  ASSUME LinksTyped, NEW w, IsWalk(w), NEW path \in Linked, Meets(w, path)
  PROVE  IsWalk(Entered(w, path))
<1> DEFINE rest == tree[path].target \o Tail(w.rest)
<1>1. path \in Seq(Names) /\ tree[path].target \in Seq(Parts)
  BY DEF LinksTyped
<1>2. w.at \in Seq(Parts) /\ Tail(w.rest) \in Seq(Parts) /\ Len(w.rest) \in Nat \ {0}
  BY HeadTailProperties, EmptySeq DEF IsWalk, Meets
<1>3. rest \in Seq(Parts)
  BY <1>1, <1>2, ConcatProperties
<1> DEFINE at == IF tree[path].absolute THEN <<>> ELSE w.at
<1>0. at \in Seq(Parts)
  BY <1>2, EmptySeq
<1>4. Entered(w, path) = [at |-> at, rest |-> rest, open |-> Open(w.open \cup {<<path, Len(w.rest) - 1>>}, rest)]
  BY DEF Entered
<1> HIDE DEF rest, at
<1>5. \A o \in Open(w.open \cup {<<path, Len(w.rest) - 1>>}, rest) : o \in Seq(Names) \X Nat /\ o[2] < Len(rest)
  <2>1. <<path, Len(w.rest) - 1>> \in Seq(Names) \X Nat
    BY <1>1, <1>2
  <2> QED BY <2>1 DEF Open, IsWalk
<1> DEFINE opened == Open(w.open \cup {<<path, Len(w.rest) - 1>>}, rest)
<1>6. \A o \in opened : o \in Seq(Names) \X Nat /\ o[2] < Len(rest)
  BY <1>5
<1>7. Entered(w, path) = [at |-> at, rest |-> rest, open |-> opened]
  BY <1>4
<1> HIDE DEF opened
<1> QED BY <1>0, <1>3, <1>6, <1>7 DEF IsWalk

LEMMA PassedIsWalk ==
  ASSUME NEW w, IsWalk(w), w.rest # <<>>
  PROVE  IsWalk(Passed(w))
<1>1. w.at \in Seq(Parts) /\ Tail(w.rest) \in Seq(Parts) /\ Head(w.rest) \in Parts
  BY HeadTailProperties DEF IsWalk
<1>2. Front(w.at) \in Seq(Parts)
  <2>1. \A i \in 1..(Len(w.at) - 1) : w.at[i] \in Parts
    BY <1>1, ElementOfSeq, LenProperties
  <2>2. Len(w.at) \in Nat
    BY <1>1, LenProperties
  <2> QED BY <2>1, <2>2, SubSeqProperties DEF Front
<1>3. Append(w.at, Head(w.rest)) \in Seq(Parts)
  BY <1>1, AppendProperties
<1>4. \A o \in Open(w.open, Tail(w.rest)) : o \in Seq(Names) \X Nat /\ o[2] < Len(Tail(w.rest))
  BY DEF Open, IsWalk
<1> QED BY <1>1, <1>2, <1>3, <1>4 DEF IsWalk, Passed

LEMMA HeadTailConcat ==
  ASSUME NEW s \in Seq(Parts), s # <<>>, NEW t \in Seq(Parts)
  PROVE  /\ s \o t \in Seq(Parts) /\ s \o t # <<>> /\ Head(s \o t) = Head(s)
         /\ Tail(s \o t) = Tail(s) \o t /\ Len(s \o t) = Len(s) + Len(t)
         /\ Len(s) \in Nat \ {0} /\ Len(t) \in Nat /\ Tail(s) \in Seq(Parts) /\ Len(Tail(s)) = Len(s) - 1
<1>1. Len(s) \in Nat \ {0} /\ Len(t) \in Nat
  BY EmptySeq, LenProperties
<1>2. /\ s \o t \in Seq(Parts) /\ Len(s \o t) = Len(s) + Len(t)
      /\ \A i \in 1..Len(s) + Len(t) : (s \o t)[i] = IF i <= Len(s) THEN s[i] ELSE t[i - Len(s)]
  BY ConcatProperties
<1>3. s \o t # <<>>
  BY <1>1, <1>2, EmptySeq
<1>4. Head(s \o t) = Head(s)
  BY <1>1, <1>2
<1>5. Tail(s) \in Seq(Parts) /\ Len(Tail(s)) = Len(s) - 1 /\ \A i \in 1..Len(s) - 1 : Tail(s)[i] = s[i + 1]
  BY HeadTailProperties
<1>6. /\ Tail(s \o t) \in Seq(Parts) /\ Len(Tail(s \o t)) = Len(s) + Len(t) - 1
      /\ \A i \in 1..Len(s) + Len(t) - 1 : Tail(s \o t)[i] = (s \o t)[i + 1]
  BY <1>2, <1>3, HeadTailProperties
<1>7. /\ Tail(s) \o t \in Seq(Parts) /\ Len(Tail(s) \o t) = Len(s) - 1 + Len(t)
      /\ \A i \in 1..(Len(s) - 1) + Len(t) : (Tail(s) \o t)[i] =
           IF i <= Len(s) - 1 THEN Tail(s)[i] ELSE t[i - (Len(s) - 1)]
  BY <1>5, ConcatProperties
<1>8. \A i \in 1..Len(s) + Len(t) - 1 : Tail(s \o t)[i] = (Tail(s) \o t)[i]
  BY <1>1, <1>2, <1>5, <1>6, <1>7
<1>9. Tail(s \o t) = Tail(s) \o t
  BY <1>1, <1>6, <1>7, <1>8, SeqEqual
<1> QED BY <1>1, <1>2, <1>3, <1>4, <1>5, <1>9

\* What is open stays open for what comes later.
LEMMA OpenLater ==
  ASSUME NEW opened, \A o \in opened : o \in Seq(Names) \X Nat,
         NEW s \in Seq(Parts), NEW t \in Seq(Parts)
  PROVE  Open(Later(opened, Len(t)), s \o t) = Later(Open(opened, s), Len(t))
<1>1. Len(s) \in Nat /\ Len(t) \in Nat /\ Len(s \o t) = Len(s) + Len(t)
  BY LenProperties, ConcatProperties
<1>2. Open(Later(opened, Len(t)), s \o t) = {p \in Later(opened, Len(t)) : p[2] < Len(s) + Len(t)}
  BY <1>1 DEF Open
<1> DEFINE n == Len(t)
           k == Len(s)
<1>3. n \in Nat /\ k \in Nat
  BY <1>1
<1>4. {p \in Later(opened, n) : p[2] < k + n} = Later({o \in opened : o[2] < k}, n)
  <2> HIDE DEF n, k
  <2>1. ASSUME NEW p, p \in Later(opened, n), p[2] < k + n PROVE p \in Later({o \in opened : o[2] < k}, n)
    <3>1. PICK o \in opened : p = <<o[1], o[2] + n>>
      BY <2>1 DEF Later
    <3> QED BY <1>3, <2>1, <3>1 DEF Later
  <2>2. ASSUME NEW p, p \in Later({o \in opened : o[2] < k}, n) PROVE p \in Later(opened, n) /\ p[2] < k + n
    <3>1. PICK o \in {o \in opened : o[2] < k} : p = <<o[1], o[2] + n>>
      BY <2>2 DEF Later
    <3> QED BY <1>3, <3>1 DEF Later
  <2> QED BY <2>1, <2>2
<1> QED BY <1>2, <1>4 DEF Open

LEMMA Regrouped ==
  ASSUME NEW S, NEW x \in Seq(S), NEW y \in Seq(S), NEW z \in Seq(S)
  PROVE  x \o (y \o z) = (x \o y) \o z
<1> DEFINE both == x \o y
<1>1. both \o z = x \o (y \o z)
  BY ConcatAssociative
<1> QED BY <1>1

LEMMA ThenMeets ==
  ASSUME NEW w, IsWalk(w), w.rest # <<>>, NEW more \in Seq(Parts)
  PROVE  /\ \A path : Meets(Then(w, more), path) <=> Meets(w, path)
         /\ Circular(Then(w, more)) <=> Circular(w)
         /\ Then(w, more).rest # <<>>
<1> DEFINE w2 == Then(w, more)
<1>1. w2.rest = w.rest \o more /\ w2.at = w.at /\ w2.open = Later(w.open, Len(more))
  BY DEF Then
<1>2. w2.rest # <<>> /\ Head(w2.rest) = Head(w.rest)
  BY <1>1, HeadTailConcat DEF IsWalk
<1> HIDE DEF w2
<1>3. \A path : Meets(w2, path) <=> Meets(w, path)
  BY <1>1, <1>2 DEF Meets
<1>4. \A path : (\E o \in w2.open : o[1] = path) <=> (\E o \in w.open : o[1] = path)
  <2> TAKE path
  <2>1. ASSUME NEW o \in w2.open, o[1] = path PROVE \E p \in w.open : p[1] = path
    <3>1. PICK p \in w.open : o = <<p[1], p[2] + Len(more)>>
      BY <1>1, <2>1 DEF Later
    <3> QED BY <2>1, <3>1
  <2>2. ASSUME NEW o \in w.open, o[1] = path PROVE \E p \in w2.open : p[1] = path
    <3>1. <<o[1], o[2] + Len(more)>> \in w2.open
      BY <1>1 DEF Later
    <3> QED BY <2>2, <3>1
  <2> QED BY <2>1, <2>2
<1>5. Circular(w2) <=> Circular(w)
  BY <1>3, <1>4 DEF Circular
<1> QED BY <1>2, <1>3, <1>5 DEF w2

LEMMA ThenEntered ==
  ASSUME LinksTyped, NEW w, IsWalk(w), NEW more \in Seq(Parts), NEW path \in Linked, Meets(w, path)
  PROVE  Entered(Then(w, more), path) = Then(Entered(w, path), more)
<1> DEFINE target == tree[path].target
           opened == w.open \cup {<<path, Len(w.rest) - 1>>}
           rest == target \o Tail(w.rest)
           at == IF tree[path].absolute THEN <<>> ELSE w.at
<1>1. path \in Seq(Names) /\ target \in Seq(Parts)
  BY DEF LinksTyped
<1>2. w.rest \in Seq(Parts) /\ w.rest # <<>>
  BY DEF IsWalk, Meets
<1>3. /\ Tail(w.rest \o more) = Tail(w.rest) \o more /\ Tail(w.rest) \in Seq(Parts)
      /\ Len(w.rest \o more) = Len(w.rest) + Len(more) /\ Len(w.rest) \in Nat \ {0} /\ Len(more) \in Nat
  BY <1>2, HeadTailConcat
<1>4. rest \in Seq(Parts)
  BY <1>1, <1>3, ConcatProperties
<1>5. target \o Tail(w.rest \o more) = rest \o more
  <2> DEFINE tail == Tail(w.rest)
  <2>1. Tail(w.rest \o more) = tail \o more /\ tail \in Seq(Parts)
    BY <1>3
  <2> HIDE DEF tail, target
  <2>2. more \in Seq(Parts)
    OBVIOUS
  <2>3. target \o (tail \o more) = (target \o tail) \o more
    BY ONLY <1>1, <2>1, <2>2, Regrouped
  <2> QED BY <2>1, <2>3 DEF tail
<1>6. Later(opened, Len(more)) = Later(w.open, Len(more)) \cup {<<path, Len(w.rest \o more) - 1>>}
  <2>1. Len(w.rest) - 1 + Len(more) = Len(w.rest \o more) - 1
    BY <1>3
  <2> DEFINE n == Len(more)
             k == Len(w.rest) - 1
             l == Len(w.rest \o more) - 1
  <2>2. k + n = l
    BY <2>1
  <2>3. opened = w.open \cup {<<path, k>>}
    OBVIOUS
  <2> HIDE DEF n, k, l, opened
  <2>4. Later(opened, n) = Later(w.open, n) \cup {<<path, l>>}
    <3> DEFINE last == <<path, k>>
    <3>1. last[1] = path /\ last[2] = k
      OBVIOUS
    <3>2. Later(opened, n) = {<<o[1], o[2] + n>> : o \in w.open} \cup {<<last[1], last[2] + n>>}
      <4> HIDE DEF last
      <4> QED BY <2>3 DEF Later, last
    <3> QED BY <2>2, <3>1, <3>2 DEF Later
  <2> QED BY <2>4 DEF n, l, opened
<1>7. \A o \in opened : o \in Seq(Names) \X Nat
  <2>1. <<path, Len(w.rest) - 1>> \in Seq(Names) \X Nat
    BY <1>1, <1>3
  <2> QED BY <2>1 DEF IsWalk
<1> DEFINE w2 == Then(w, more)
           both == Len(w.rest \o more) - 1
<1>8. w2.rest = w.rest \o more /\ w2.at = w.at /\ w2.open = Later(w.open, Len(more))
  BY DEF Then
<1>9. Entered(w2, path) = [at |-> at, rest |-> rest \o more,
                           open |-> Open(Later(w.open, Len(more)) \cup {<<path, both>>}, rest \o more)]
  <2>1. Entered(w2, path) = [at |-> IF tree[path].absolute THEN <<>> ELSE w2.at, rest |-> target \o Tail(w2.rest),
           open |-> Open(w2.open \cup {<<path, Len(w2.rest) - 1>>}, target \o Tail(w2.rest))]
    BY DEF Entered
  <2> HIDE DEF w2, target, rest
  <2> QED BY <1>5, <1>8, <2>1
<1>10. Open(Later(opened, Len(more)), rest \o more) = Later(Open(opened, rest), Len(more))
  <2> HIDE DEF opened, rest
  <2> QED BY <1>4, <1>7, OpenLater
<1>11. Entered(w, path) = [at |-> at, rest |-> rest, open |-> Open(opened, rest)]
  BY DEF Entered
<1> HIDE DEF w2, both, opened, rest, target, at
<1>12. Then(Entered(w, path), more) = [at |-> at, rest |-> rest \o more, open |-> Later(Open(opened, rest), Len(more))]
  BY <1>11 DEF Then
<1>13. Later(w.open, Len(more)) \cup {<<path, both>>} = Later(opened, Len(more))
  BY <1>6 DEF both
<1>14. Entered(w2, path) = Then(Entered(w, path), more)
  BY <1>9, <1>10, <1>12, <1>13
<1> QED BY <1>14 DEF w2

LEMMA ThenPassed ==
  ASSUME NEW w, IsWalk(w), w.rest # <<>>, NEW more \in Seq(Parts)
  PROVE  Passed(Then(w, more)) = Then(Passed(w), more)
<1> DEFINE w2 == Then(w, more)
           at == IF Head(w.rest) = ".." THEN Front(w.at) ELSE Append(w.at, Head(w.rest))
           tail == Tail(w.rest)
<1>1. w2.rest = w.rest \o more /\ w2.at = w.at /\ w2.open = Later(w.open, Len(more))
  BY DEF Then
<1>2. /\ Tail(w2.rest) = tail \o more /\ Head(w2.rest) = Head(w.rest) /\ tail \in Seq(Parts)
  BY <1>1, HeadTailConcat DEF IsWalk
<1>3. Open(Later(w.open, Len(more)), tail \o more) = Later(Open(w.open, tail), Len(more))
  <2> HIDE DEF tail
  <2> QED BY <1>2, OpenLater DEF IsWalk
<1>4. Passed(w) = [at |-> at, rest |-> tail, open |-> Open(w.open, tail)]
  BY DEF Passed
<1>5. Passed(w2) = [at |-> at, rest |-> tail \o more, open |-> Open(Later(w.open, Len(more)), tail \o more)]
  <2> HIDE DEF w2
  <2> QED BY <1>1, <1>2 DEF Passed
<1> HIDE DEF w2, at, tail
<1>6. Then(Passed(w), more) = [at |-> at, rest |-> tail \o more, open |-> Later(Open(w.open, tail), Len(more))]
  BY <1>4 DEF Then
<1>7. Passed(w2) = Then(Passed(w), more)
  BY <1>3, <1>5, <1>6
<1> QED BY <1>7 DEF w2
-----------------------------------------------------------------------------
LEMMA ClosedKept ==
  ASSUME tree' = tree, NEW K, NEW E
  PROVE  Closed(K, E)' <=> Closed(K, E)
<1>1. Linked' = Linked
  BY DEF Linked
<1>2. \A w : IsWalk(w)' <=> IsWalk(w)
  BY DEF IsWalk
<1>3. \A w, path : Meets(w, path)' <=> Meets(w, path)
  BY DEF Meets
<1>4. \A w, path : Entered(w, path)' = Entered(w, path)
  BY DEF Entered, Open
<1>5. \A w : Passed(w)' = Passed(w)
  BY DEF Passed, Open
<1>6. \A w : Circular(w)' <=> Circular(w)
  BY <1>1, <1>3 DEF Circular
<1> QED BY <1>1, <1>2, <1>3, <1>4, <1>5, <1>6 DEF Closed

\* A walk begins where nothing is known of it.
LEMMA ClosedBegin ==
  ASSUME NEW K, Closed(K, {}), NEW w, IsWalk(w)
  PROVE  Closed(K \cup {w}, {w})
BY DEF Closed

LEMMA ClosedMove ==
  ASSUME LinksTyped, NEW K, NEW w \in K, Closed(K, {w}), ~Circular(w), NEW v, Moves(w, v)
  PROVE  IsWalk(v) /\ Closed(K \cup {v}, {v})
<1>1. IsWalk(w) /\ w.rest # <<>>
  BY DEF Closed, Moves, Meets
<1>2. IsWalk(v)
  BY <1>1, EnteredIsWalk, PassedIsWalk DEF Moves
<1>3. \A path \in Linked : Meets(w, path) => v = Entered(w, path)
  BY MeetsOne DEF Moves, LinksTyped
<1>4. (\A path \in Linked : ~Meets(w, path)) => v = Passed(w)
  BY DEF Moves
<1> QED BY <1>1, <1>2, <1>3, <1>4 DEF Closed

LEMMA ClosedEnd ==
  ASSUME NEW K, NEW w \in K, Closed(K, {w}), w.rest = <<>>, IsPrefix(Root, w.at)
  PROVE  Closed(K, {})
<1>1. ~Circular(w) /\ \A path \in Linked : ~Meets(w, path)
  BY DEF Circular, Meets
<1> QED BY <1>1 DEF Closed

LEMMA ClosedCircle ==
  ASSUME NEW K, NEW w \in K, Closed(K, {w}), Circular(w)
  PROVE  Closed(K, {})
<1>1. w.rest # <<>> /\ \E path \in Linked : Meets(w, path)
  BY DEF Circular, Meets
<1> QED BY <1>1 DEF Closed

LEMMA BegunIsWalk ==
  ASSUME NEW at \in Seq(Parts), NEW rest \in Seq(Parts)
  PROVE  IsWalk(Begun(at, rest)) /\ ~Circular(Begun(at, rest))
BY DEF IsWalk, Begun, Circular

\* A reader's walk: what the check has seen, and names that are still to come.
Reading(K, w) == \E v \in K, more \in Seq(Names) : w = Then(v, more)

StartsIn(K) == \A path \in Linked : Start(path) \in K

\* Where a part that the check has seen is at its end, the next one begins: with
\* a link, where the check of this link began, or with a component to be passed.
LEMMA NextSeen ==
  ASSUME LinksTyped, NEW K, Closed(K, {}), StartsIn(K), NEW w, Reading(K, w), w.rest # <<>>
  PROVE  \/ \E v \in K, more \in Seq(Names) : w = Then(v, more) /\ v.rest # <<>>
         \/ /\ \A path \in Linked : ~Meets(w, path)
            /\ w.open = {} /\ w.at \in Seq(Parts) /\ IsPrefix(Root, w.at)
            /\ w.rest \in Seq(Names) /\ w = Begun(w.at, w.rest)
<1>1. PICK v \in K, more \in Seq(Names) : w = Then(v, more)
  BY DEF Reading
<1>2. SUFFICES ASSUME v.rest = <<>>
               PROVE  \/ \E u \in K, left \in Seq(Names) : w = Then(u, left) /\ u.rest # <<>>
                      \/ /\ \A path \in Linked : ~Meets(w, path)
                         /\ w.open = {} /\ w.at \in Seq(Parts) /\ IsPrefix(Root, w.at)
                         /\ w.rest \in Seq(Names) /\ w = Begun(w.at, w.rest)
  BY <1>1
<1>3. IsWalk(v) /\ IsPrefix(Root, v.at)
  BY <1>2 DEF Closed
<1>4. v.open = {} /\ v.at \in Seq(Parts)
  <2>1. \A o \in v.open : o[2] \in Nat /\ o[2] < 0
    BY <1>2, <1>3 DEF IsWalk
  <2> QED BY <1>3, <2>1 DEF IsWalk
<1>5. Then(v, more) = Begun(v.at, more)
  <2>1. <<>> \o more = more
    BY ConcatEmptySeq
  <2>2. Later({}, Len(more)) = {}
    BY DEF Later
  <2> QED BY <1>2, <1>4, <2>1, <2>2 DEF Then, Begun
<1>6. w = Begun(v.at, more) /\ w.at = v.at /\ w.rest = more /\ w.open = {} /\ more # <<>>
  BY <1>1, <1>5 DEF Begun
<1>7. ASSUME NEW path \in Linked, Meets(w, path)
      PROVE  \E u \in K, left \in Seq(Names) : w = Then(u, left) /\ u.rest # <<>>
  <2>1. path \in Seq(Names) /\ path # <<>>
    BY DEF LinksTyped
  <2>2. IsWalk(w)
    BY <1>4, <1>6, PartsOfPaths, BegunIsWalk
  <2>3. w.at = Root \o Front(path) /\ Head(w.rest) = Last(path)
    BY <1>7, <2>1, <2>2, MeetsFrom
  <2>4. /\ Tail(more) \in Seq(Names) /\ Last(path) \in Names
        /\ <<Last(path)>> \in Seq(Names) /\ <<Last(path)>> # <<>>
    BY <1>6, <2>1, FrontLast, HeadTailProperties
  <2>5. more = <<Last(path)>> \o Tail(more)
    <3>1. Len(more) \in Nat \ {0}
      BY <1>6, EmptySeq
    <3>2. /\ Len(<<Last(path)>>) = 1 /\ <<Last(path)>>[1] = Last(path)
          /\ more[1] = Last(path) /\ Len(Tail(more)) = Len(more) - 1
          /\ \A i \in 1..Len(more) - 1 : Tail(more)[i] = more[i + 1]
      BY <1>6, <2>3, HeadTailProperties
    <3>3. /\ <<Last(path)>> \o Tail(more) \in Seq(Names) /\ Len(<<Last(path)>> \o Tail(more)) = 1 + (Len(more) - 1)
          /\ \A i \in 1..1 + (Len(more) - 1) : (<<Last(path)>> \o Tail(more))[i] =
                IF i <= 1 THEN <<Last(path)>>[i] ELSE Tail(more)[i - 1]
      BY <2>4, <3>2, ConcatProperties
    <3>4. \A i \in 1..Len(more) : more[i] = (<<Last(path)>> \o Tail(more))[i]
      BY <3>1, <3>2, <3>3
    <3> QED BY <3>1, <3>3, <3>4, SeqEqual
  <2>6. Then(Start(path), Tail(more)) = Begun(Root \o Front(path), more)
    <3>1. Later({}, Len(Tail(more))) = {}
      BY DEF Later
    <3> QED BY <2>5, <3>1 DEF Then, Start, Begun
  <2>7. w = Then(Start(path), Tail(more)) /\ Start(path).rest # <<>> /\ Start(path) \in K
    BY <1>6, <2>3, <2>4, <2>6 DEF Start, Begun, StartsIn
  <2> QED BY <2>4, <2>7
<1> QED BY <1>3, <1>4, <1>6, <1>7

LEMMA ReadingStep ==
  ASSUME LinksTyped, NEW K, Closed(K, {}), StartsIn(K), NEW w, Reading(K, w), ~Circular(w),
         NEW u, Moves(w, u)
  PROVE  \E L : Closed(L, {}) /\ StartsIn(L) /\ Reading(L, u)
<1>0. w.rest # <<>>
  BY DEF Moves, Meets
<1>1. ASSUME NEW v \in K, NEW more \in Seq(Names), w = Then(v, more), v.rest # <<>>
      PROVE  Reading(K, u)
  <2>1. IsWalk(v) /\ more \in Seq(Parts)
    BY <1>1, PartsOfPaths DEF Closed
  <2>2. \A path : Meets(w, path) <=> Meets(v, path)
    BY <1>1, <2>1, ThenMeets
  <2>0. ~Circular(v)
    BY <1>1, <2>1, ThenMeets
  <2>3. ASSUME NEW path \in Linked, Meets(w, path), u = Entered(w, path) PROVE Reading(K, u)
    <3>1. u = Then(Entered(v, path), more) /\ Entered(v, path) \in K
      BY <1>1, <2>0, <2>1, <2>2, <2>3, ThenEntered DEF Closed
    <3> QED BY <3>1 DEF Reading
  <2>4. ASSUME \A path \in Linked : ~Meets(w, path), u = Passed(w) PROVE Reading(K, u)
    <3>1. u = Then(Passed(v), more) /\ Passed(v) \in K
      BY <1>1, <2>1, <2>2, <2>4, ThenPassed DEF Closed
    <3> QED BY <3>1 DEF Reading
  <2> QED BY <2>3, <2>4 DEF Moves
<1>2. ASSUME \A path \in Linked : ~Meets(w, path), w.open = {}, w.at \in Seq(Parts),
             IsPrefix(Root, w.at), w.rest \in Seq(Names)
      PROVE  \E L : Closed(L, {}) /\ StartsIn(L) /\ Reading(L, u)
  <2>1. u = Passed(w)
    BY <1>2 DEF Moves
  <2>2. Head(w.rest) \in Names /\ Tail(w.rest) \in Seq(Names)
    BY <1>0, <1>2, HeadTailProperties
  <2> DEFINE at == Append(w.at, Head(w.rest))
             v == Begun(at, <<>>)
  <2>3. at \in Seq(Parts) /\ IsPrefix(Root, at) /\ u.at = at /\ u = Begun(at, Tail(w.rest))
    <3>1. Open({}, Tail(w.rest)) = {}
      BY DEF Open
    <3>2. Head(w.rest) # ".." /\ Head(w.rest) \in Parts
      BY <2>2 DEF Names
    <3> QED BY <1>2, <2>1, <3>1, <3>2, StaysUnder, AppendProperties DEF Passed, Begun
  <2>4. IsWalk(v) /\ v.rest = <<>> /\ v.at = at
    BY <2>3, BegunIsWalk, EmptySeq DEF Begun
  <2> HIDE DEF v, at
  <2>5. Closed(K \cup {v}, {v})
    BY <2>4, ClosedBegin
  <2>6. Closed(K \cup {v}, {})
    <3>1. v \in K \cup {v}
      OBVIOUS
    <3> QED BY <2>3, <2>4, <2>5, <3>1, ClosedEnd
  <2>7. u = Then(v, Tail(w.rest))
    <3>1. <<>> \o Tail(w.rest) = Tail(w.rest)
      BY <2>2, ConcatEmptySeq
    <3>2. Later({}, Len(Tail(w.rest))) = {}
      BY DEF Later
    <3> QED BY <2>3, <3>1, <3>2 DEF Then, Begun, v
  <2>8. StartsIn(K \cup {v}) /\ Reading(K \cup {v}, u)
    BY <2>2, <2>7 DEF StartsIn, Reading
  <2> QED BY <2>6, <2>8
<1> QED BY <1>0, <1>1, <1>2, NextSeen

LEMMA ReadingSafe ==
  ASSUME LinksTyped, NEW K, Closed(K, {}), NEW w, Reading(K, w), w.rest = <<>>
  PROVE  IsPrefix(Root, w.at)
<1>1. PICK v \in K, more \in Seq(Names) : w = Then(v, more)
  BY DEF Reading
<1>2. IsWalk(v) /\ v.rest \o more = <<>> /\ w.at = v.at
  BY <1>1 DEF Then, Closed
<1>3. v.rest = <<>>
  BY <1>2, ConcatEqualIffEmpty, PartsOfPaths DEF IsWalk
<1> QED BY <1>2, <1>3 DEF Closed

-----------------------------------------------------------------------------
\* What is on disk.
Extracted == IF tpc = "links" THEN archive \ links ELSE archive

Resolving == {"resolve", "resolving", "looking", "extracted", "reading"}

DiskInv ==
  /\ archive \in Archives
  /\ tpc \in {"check", "files", "links", "refused"} \cup Resolving
  /\ tpc \in {"files", "links"} \cup Resolving => WellFormed
  /\ tpc \in {"extracted", "reading"} => links = {}
  /\ tpc \in {"links"} \cup Resolving =>
       /\ links \subseteq archive \ Placed
       /\ DOMAIN tree = {m.name : m \in Extracted} \cup Implied
       /\ \A m \in Extracted : tree[m.name] = m
       /\ \A path \in Implied : tree[path].kind = "directory"

LEMMA ArchiveMembers ==
  ASSUME archive \in Archives, NEW m \in archive
  PROVE  /\ m.name \in Seq(Names) /\ m.name # <<>> /\ m.target \in Seq(Parts)
         /\ m.kind \in {"file", "directory", "link"}
BY TreeAssumption

LEMMA AncestorsOf ==
  ASSUME NEW path \in Seq(Names), NEW up \in Ancestors(path)
  PROVE  up \in Seq(Names) /\ up # path /\ \A above \in Ancestors(up) : above \in Ancestors(path)
<1>1. PICK n \in 1..(Len(path) - 1) : up = SubSeq(path, 1, n)
  BY DEF Ancestors
<1>2. Len(path) \in Nat /\ n \in Nat /\ \A i \in 1..n : path[i] \in Names
  BY ElementOfSeq, LenProperties
<1>3. up \in Seq(Names) /\ Len(up) = n
  BY <1>1, <1>2, SubSeqProperties
<1>4. \A k \in 1..(n - 1) : SubSeq(up, 1, k) = SubSeq(path, 1, k)
  <2> TAKE k \in 1..(n - 1)
  <2>1. 1 \in 1..Len(path) /\ n \in 1..Len(path) /\ 1 \in 1..(n - 1 + 1) /\ k \in 1..(n - 1 + 1)
    BY <1>2
  <2>2. SubSeq(SubSeq(path, 1, n), 1, k) = SubSeq(path, 1 + 1 - 1, 1 + k - 1)
    BY <1>2, <1>3, <2>1, SubSeqOfSubSeq
  <2> QED BY <1>1, <2>2
<1>5. \A above \in Ancestors(up) : above \in Ancestors(path)
  <2> TAKE above \in Ancestors(up)
  <2>1. PICK k \in 1..(n - 1) : above = SubSeq(up, 1, k)
    BY <1>3 DEF Ancestors
  <2>2. above = SubSeq(path, 1, k) /\ k \in 1..(Len(path) - 1)
    BY <1>2, <1>4, <2>1
  <2> QED BY <2>2 DEF Ancestors
<1> QED BY <1>1, <1>2, <1>3, <1>5

\* What WellFormed makes of links and directories.
LEMMA LinksOnDisk ==
  ASSUME DiskInv, tpc \in Resolving
  PROVE  /\ LinksTyped
         /\ \A path \in Linked : \E m \in archive \ Placed : path = m.name /\ tree[path] = m
         /\ \A m \in archive \ Placed : m.name \in Linked /\ tree[m.name] = m
         /\ \A path \in DOMAIN tree : \A up \in Ancestors(path) :
              up \in DOMAIN tree /\ tree[up].kind = "directory"
<1>1. /\ archive \in Archives /\ DOMAIN tree = {m.name : m \in archive} \cup Implied
      /\ \A m \in archive : tree[m.name] = m
      /\ \A path \in Implied : tree[path].kind = "directory"
  BY DEF DiskInv, Extracted, Resolving
<1>2. \A path \in Linked : \E m \in archive \ Placed : path = m.name /\ tree[path] = m
  BY <1>1 DEF Linked, Placed
<1>3. LinksTyped
  BY <1>1, <1>2, ArchiveMembers DEF LinksTyped
<1>4. \A m \in archive \ Placed : m.name \in Linked /\ tree[m.name] = m
  BY <1>1 DEF Linked, Placed
<1>5. ASSUME NEW path \in DOMAIN tree, NEW up \in Ancestors(path) PROVE up \in Implied
  <2>1. CASE path \in Implied
    <3>1. PICK m \in archive : path \in Ancestors(m.name)
      BY <2>1 DEF Implied
    <3>2. up \in Ancestors(m.name)
      BY <1>1, <1>5, <3>1, AncestorsOf, ArchiveMembers
    <3> QED BY <3>2 DEF Implied
  <2>2. CASE path \notin Implied
    <3>1. PICK m \in archive : path = m.name
      BY <1>1, <1>5, <2>2
    <3> QED BY <1>5, <3>1 DEF Implied
  <2> QED BY <2>1, <2>2
<1> QED BY <1>1, <1>2, <1>3, <1>4, <1>5

LEMMA DiskStep == DiskInv /\ [TreeNext]_treeVars => DiskInv'
<1> SUFFICES ASSUME DiskInv, [TreeNext]_treeVars PROVE DiskInv'
  OBVIOUS
<1> USE DEF Resolving
<1>1. ASSUME UNCHANGED <<archive, tree>>, Extracted' = Extracted, tpc' = tpc, links' = links PROVE DiskInv'
  BY <1>1 DEF DiskInv, WellFormed, Placed, Implied
<1>2. CASE CheckMembers
  BY <1>2 DEF CheckMembers, DiskInv, WellFormed
<1>3. CASE ExtractFiles
  <2>1. /\ tpc = "files" /\ tpc' = "links" /\ archive' = archive /\ links' = archive \ Placed
        /\ tree' = [path \in {m.name : m \in Placed} \cup Implied |->
                      IF \E m \in Placed : m.name = path THEN CHOOSE m \in Placed : m.name = path
                      ELSE Directory(path)]
    BY <1>3 DEF ExtractFiles
  <2>2. archive \in Archives /\ WellFormed /\ Placed' = Placed /\ Implied' = Implied /\ Extracted' = Placed
    BY <2>1 DEF DiskInv, Placed, Implied, Extracted
  <2>3. \A m \in Placed : tree'[m.name] = m
    <3> TAKE m \in Placed
    <3>1. (CHOOSE n \in Placed : n.name = m.name) = m
      BY <2>2 DEF WellFormed, Placed
    <3> QED BY <2>1, <3>1
  <2>4. \A path \in Implied : tree'[path].kind = "directory"
    <3> TAKE path \in Implied
    <3>1. PICK n \in archive : path \in Ancestors(n.name)
      BY DEF Implied
    <3>2. ASSUME NEW m \in Placed, m.name = path PROVE tree'[path].kind = "directory"
      <4>1. m.kind = "directory"
        BY <2>2, <3>1, <3>2 DEF WellFormed, Placed
      <4> QED BY <2>3, <3>2, <4>1
    <3>3. ASSUME ~\E m \in Placed : m.name = path PROVE tree'[path].kind = "directory"
      BY <2>1, <3>3 DEF Directory
    <3> QED BY <3>2, <3>3
  <2>5. DOMAIN tree' = {m.name : m \in Placed} \cup Implied
    BY <2>1
  <2>6. WellFormed'
    BY <2>1, <2>2 DEF WellFormed
  <2> QED BY <2>1, <2>2, <2>3, <2>4, <2>5, <2>6 DEF DiskInv
<1>4. ASSUME NEW m \in links, CreateLink(m) PROVE DiskInv'
  <2>1. /\ tpc = "links" /\ tpc' = "links" /\ archive' = archive /\ links' = links \ {m}
        /\ tree' = [path \in DOMAIN tree \cup {m.name} |-> IF path = m.name THEN m ELSE tree[path]]
    BY <1>4 DEF CreateLink
  <2>2. /\ archive \in Archives /\ WellFormed /\ links \subseteq archive \ Placed
        /\ DOMAIN tree = {n.name : n \in archive \ links} \cup Implied
        /\ \A n \in archive \ links : tree[n.name] = n
        /\ \A path \in Implied : tree[path].kind = "directory"
    BY <2>1 DEF DiskInv, Extracted
  <2>3. Placed' = Placed /\ Implied' = Implied /\ Extracted' = (archive \ links) \cup {m} /\ WellFormed'
    BY <2>1, <2>2 DEF Placed, Implied, Extracted, WellFormed
  <2>4. \A n \in Extracted' : tree'[n.name] = n
    BY <2>1, <2>2, <2>3 DEF WellFormed
  <2>5. m.name \notin Implied
    BY <2>2 DEF WellFormed, Implied, Placed
  <2>6. \A path \in Implied : tree'[path].kind = "directory"
    BY <2>1, <2>2, <2>5
  <2>7. DOMAIN tree' = {n.name : n \in Extracted'} \cup Implied
    BY <2>1, <2>2, <2>3
  <2> QED BY <2>1, <2>2, <2>3, <2>4, <2>6, <2>7 DEF DiskInv
<1>5. CASE BeginResolving
  <2>1. /\ tpc = "links" /\ links = {} /\ tpc' = "resolve" /\ links' = archive \ Placed
        /\ UNCHANGED <<archive, tree>>
    BY <1>5 DEF BeginResolving
  <2>2. Extracted' = Extracted /\ Placed' = Placed /\ Implied' = Implied /\ (WellFormed' <=> WellFormed)
    BY <2>1 DEF Extracted, Placed, Implied, WellFormed
  <2> QED BY <2>1, <2>2 DEF DiskInv
<1>6. ASSUME tpc \in Resolving, UNCHANGED <<archive, tree>>, links' \subseteq links,
             tpc' \in Resolving \cup {"refused"},
             tpc' \in {"extracted", "reading"} => links' = {}
      PROVE  DiskInv'
  <2>1. Placed' = Placed /\ Implied' = Implied /\ (WellFormed' <=> WellFormed)
    BY <1>6 DEF Placed, Implied, WellFormed
  <2>2. Extracted' = archive /\ Extracted = archive
    BY <1>6 DEF Extracted
  <2> QED BY <1>6, <2>1, <2>2 DEF DiskInv
<1>7. ASSUME NEW m \in links, ResolveLink(m) PROVE DiskInv'
  BY <1>6, <1>7 DEF ResolveLink
<1>8. CASE JudgeLink \/ GiveUpCircle \/ LookAtResult \/ PassCircle
  BY <1>6, <1>8 DEF JudgeLink, GiveUpCircle, LookAtResult, PassCircle
<1>9. CASE EndExtraction
  BY <1>6, <1>9 DEF EndExtraction
<1>10. ASSUME NEW path \in Linked, EnterLink(path) PROVE DiskInv'
  BY <1>6, <1>10 DEF EnterLink, DiskInv
<1>11. CASE PassComponent
  BY <1>6, <1>11 DEF PassComponent, DiskInv
<1>12. ASSUME NEW path \in Paths, Read(path) PROVE DiskInv'
  BY <1>6, <1>12 DEF Read, DiskInv
<1>13. CASE UNCHANGED treeVars
  BY <1>1, <1>13 DEF treeVars, Extracted
<1> QED
  BY <1>2, <1>3, <1>4, <1>5, <1>7, <1>8, <1>9, <1>10, <1>11, <1>12, <1>13
  DEF TreeNext, Extracting, Walking

-----------------------------------------------------------------------------
\* Whose ends the check has seen.
Certified(K, but) == \A path \in Linked : tree[path] \notin links /\ path # but => Start(path) \in K

\* The check of a link first goes down to the directory that the link is in.
OnTheWay(w, path) == \E i \in 0..(Len(path) - 2) :
  w = Begun(Root \o SubSeq(path, 1, i), SubSeq(path, i + 1, Len(path)))

WalkInv ==
  /\ tpc \notin {"resolving", "looking", "reading"} => walk = Begun(Root, <<>>)
  /\ tpc \in {"resolve", "looking", "extracted"} => \E K : Closed(K, {}) /\ Certified(K, <<>>)
  /\ tpc = "resolving" => \E K, w : \E path \in Linked :
       /\ w = walk /\ Certified(K, path) /\ tree[path] \notin links
       /\ \/ OnTheWay(w, path) /\ Closed(K, {})
          \/ Start(path) \in K /\ w \in K /\ Closed(K, {w})
          \/ Start(path) \in K /\ Closed(K, {})
  /\ tpc = "reading" => \E K, w : w = walk /\ Closed(K, {}) /\ Certified(K, <<>>) /\ Reading(K, w)

TreeInv == DiskInv /\ WalkInv

\* One step on the way, by directories only.
LEMMA Down ==
  ASSUME NEW path \in Seq(Names), NEW i \in 0..(Len(path) - 1)
  PROVE  LET rest == SubSeq(path, i + 1, Len(path)) IN
         /\ rest \in Seq(Names) /\ rest # <<>> /\ Head(rest) = path[i + 1] /\ path[i + 1] \in Names
         /\ Tail(rest) = SubSeq(path, i + 2, Len(path))
         /\ SubSeq(path, 1, i + 1) \in Seq(Names)
         /\ Append(Root \o SubSeq(path, 1, i), path[i + 1]) = Root \o SubSeq(path, 1, i + 1)
<1>1. Len(path) \in Nat /\ i + 1 \in 1..Len(path) /\ i \in Nat /\ \A j \in 1..Len(path) : path[j] \in Names
  BY ElementOfSeq, LenProperties
<1> DEFINE rest == SubSeq(path, i + 1, Len(path))
           place == SubSeq(path, 1, i)
           part == path[i + 1]
<1>2. rest \in Seq(Names) /\ Len(rest) = Len(path) - (i + 1) + 1
  BY <1>1, SubSeqProperties
<1>3. Head(rest) = part /\ Tail(rest) = SubSeq(path, i + 1 + 1, Len(path))
  BY <1>1, HeadTailOfSubSeq
<1>4. rest # <<>> /\ i + 1 + 1 = i + 2
  <2>1. Len(path) - (i + 1) + 1 # 0 /\ i + 1 + 1 = i + 2
    BY <1>1
  <2>2. Len(<<>>) = 0
    BY EmptySeq
  <2> HIDE DEF rest
  <2> QED BY <1>2, <2>1, <2>2
<1>5. place \in Seq(Names) /\ SubSeq(path, 1, i + 1) \in Seq(Names)
  BY <1>1, SubSeqProperties
<1>6. SubSeq(path, 1, i + 1) = place \o <<part>>
  <2>1. SubSeq(path, 1, i + 1) = SubSeq(path, 1, (i + 1) - 1) \o <<part>>
    BY <1>1, SubSeqRecursiveSecond
  <2> QED BY <1>1, <2>1
<1>7. Append(Root \o place, part) = Root \o (place \o <<part>>)
  <2>1. Root \in Seq(Names) /\ part \in Names /\ <<part>> \in Seq(Names)
    BY <1>1, PartsOfPaths
  <2> HIDE DEF place, part
  <2>2. Root \o place \in Seq(Names)
    BY <1>5, <2>1, ConcatProperties
  <2>3. Root \o (place \o <<part>>) = (Root \o place) \o <<part>>
    BY ONLY <1>5, <2>1, Regrouped
  <2> QED BY <2>1, <2>2, <2>3, AppendIsConcat
<1> QED BY <1>1, <1>2, <1>3, <1>4, <1>5, <1>6, <1>7

\* The way begins at the root and ends where the check of the link itself begins.
LEMMA WayEnds ==
  ASSUME NEW path \in Seq(Names), path # <<>>
  PROVE  /\ Len(path) \in Nat \ {0}
         /\ Begun(Root \o SubSeq(path, 1, 0), SubSeq(path, 1, Len(path))) = Begun(Root, path)
         /\ Begun(Root \o SubSeq(path, 1, Len(path) - 1), SubSeq(path, Len(path), Len(path))) = Start(path)
<1>1. Len(path) \in Nat \ {0}
  BY EmptySeq
<1>2. Root \o SubSeq(path, 1, 0) = Root /\ SubSeq(path, 1, Len(path)) = path
  BY SubSeqEmpty, SubSeqFull, ConcatEmptySeq, PartsOfPaths
<1>3. SubSeq(path, Len(path), Len(path)) = <<path[Len(path)]>>
  <2>1. Len(path) \in 1..Len(path) /\ Len(path) \in Len(path)..Len(path)
    BY <1>1
  <2>2. SubSeq(path, Len(path), Len(path)) = <<path[Len(path)]>> \o SubSeq(path, Len(path) + 1, Len(path))
    BY <2>1, SubSeqRecursiveFirst
  <2>3. SubSeq(path, Len(path) + 1, Len(path)) = <<>>
    BY <1>1, SubSeqEmpty
  <2>4. <<path[Len(path)]>> \in Seq(Names)
    BY <2>1, ElementOfSeq
  <2> QED BY <2>2, <2>3, <2>4, ConcatEmptySeq
<1> QED BY <1>1, <1>2, <1>3 DEF Start, Begun, Front, Last

LEMMA StartIsWalk ==
  ASSUME NEW path \in Seq(Names), path # <<>>
  PROVE  IsWalk(Start(path))
<1>1. Front(path) \in Seq(Parts) /\ <<Last(path)>> \in Seq(Parts)
  BY FrontLast, PartsOfPaths
<1> QED BY <1>1, UnderRoot, BegunIsWalk DEF Start

\* A link is checked from where it is.
LEMMA WayStep ==
  ASSUME DiskInv, tpc \in Resolving, NEW K, Closed(K, {}), NEW path \in Linked, NEW w, OnTheWay(w, path)
  PROVE  /\ w.rest # <<>> /\ ~Circular(w) /\ \A p \in Linked : ~Meets(w, p)
         /\ OnTheWay(Passed(w), path) \/ Passed(w) = Start(path)
<1>1. path \in Seq(Names) /\ path # <<>> /\ path \in DOMAIN tree
  BY LinksOnDisk DEF LinksTyped, Linked
<1>2. PICK i \in 0..(Len(path) - 2) : w = Begun(Root \o SubSeq(path, 1, i), SubSeq(path, i + 1, Len(path)))
  BY DEF OnTheWay
<1>3. Len(path) \in Nat \ {0} /\ i \in 0..(Len(path) - 1)
  BY <1>1, WayEnds
<1>4. /\ w.rest # <<>> /\ w.open = {} /\ Head(w.rest) = path[i + 1] /\ path[i + 1] \in Names
      /\ Tail(w.rest) = SubSeq(path, i + 2, Len(path)) /\ SubSeq(path, 1, i + 1) \in Seq(Names)
      /\ Append(w.at, path[i + 1]) = Root \o SubSeq(path, 1, i + 1)
  <2>1. w.rest = SubSeq(path, i + 1, Len(path)) /\ w.at = Root \o SubSeq(path, 1, i) /\ w.open = {}
    BY <1>2 DEF Begun
  <2> QED BY <1>1, <1>3, <2>1, Down
<1>5. ~Circular(w)
  BY <1>4 DEF Circular
<1>6. \A p \in Linked : ~Meets(w, p)
  <2> SUFFICES ASSUME NEW p \in Linked, Meets(w, p) PROVE FALSE
    OBVIOUS
  <2>1. p \in Seq(Names)
    BY LinksOnDisk DEF LinksTyped
  <2>2. Root \o p = Root \o SubSeq(path, 1, i + 1)
    BY <1>4 DEF Meets
  <2>3. p = SubSeq(path, 1, i + 1)
    <3>1. \A s, t, v \in Seq(Names) : s \o t = s \o v => t = v
      BY ConcatSimplifications
    <3> QED BY <1>4, <2>1, <2>2, <3>1, PartsOfPaths
  <2>4. p \in Ancestors(path)
    BY <1>2, <1>3, <2>3 DEF Ancestors
  <2>5. tree[p].kind = "directory"
    BY <1>1, <2>4, LinksOnDisk
  <2> QED BY <2>5 DEF Linked
<1>7. Passed(w) = Begun(Root \o SubSeq(path, 1, i + 1), SubSeq(path, i + 2, Len(path)))
  <2>1. path[i + 1] # ".."
    BY <1>4 DEF Names
  <2>2. Open({}, Tail(w.rest)) = {}
    BY DEF Open
  <2> QED BY <1>4, <2>1, <2>2 DEF Passed, Begun
<1>8. CASE i + 1 \in 0..(Len(path) - 2)
  <2>1. i + 2 = (i + 1) + 1
    BY <1>3
  <2> QED BY <1>4, <1>5, <1>6, <1>7, <1>8, <2>1 DEF OnTheWay
<1>9. CASE i + 1 \notin 0..(Len(path) - 2)
  <2>1. i + 1 = Len(path) - 1 /\ i + 2 = Len(path)
    BY <1>2, <1>3, <1>9
  <2>2. Passed(w) = Start(path)
    BY <1>1, <1>7, <2>1, WayEnds
  <2> QED BY <1>4, <1>5, <1>6, <2>2
<1> QED BY <1>8, <1>9

LEMMA MovesNow ==
  ASSUME DiskInv, tpc \in Resolving, Walking
  PROVE  Moves(walk, walk') /\ UNCHANGED <<archive, tpc, tree, links>> /\ tpc \in {"resolving", "looking", "reading"}
         /\ ~Circular(walk)
BY DEF Walking, EnterLink, PassComponent, Moves, Circular

LEMMA CertifiedKept ==
  ASSUME tree' = tree, links' \subseteq links, NEW K, NEW but, Certified(K, but), links' = links
  PROVE  Certified(K, but)'
BY DEF Certified, Start, Begun, Linked

LEMMA WalkStep == DiskInv /\ WalkInv /\ [TreeNext]_treeVars => WalkInv'
<1> SUFFICES ASSUME DiskInv, WalkInv, [TreeNext]_treeVars PROVE WalkInv'
  OBVIOUS
<1>1. ASSUME tpc' \in {"check", "files", "links", "refused"}, walk' = Begun(Root, <<>>) PROVE WalkInv'
  BY <1>1 DEF WalkInv, Begun
<1>2. CASE CheckMembers \/ ExtractFiles \/ \E m \in links : CreateLink(m)
  <2>1. tpc \in {"check", "files", "links"} /\ tpc' \in {"check", "files", "links", "refused"} /\ walk' = walk
    BY <1>2 DEF CheckMembers, ExtractFiles, CreateLink
  <2> QED BY <1>1, <2>1 DEF WalkInv
<1>3. CASE BeginResolving
  <2>1. /\ tpc = "links" /\ tpc' = "resolve" /\ links' = archive \ Placed /\ walk' = walk
        /\ UNCHANGED <<archive, tree>> /\ links = {}
    BY <1>3 DEF BeginResolving
  <2>2. \A path \in Linked : tree[path] \in archive \ Placed
    BY <2>1 DEF DiskInv, Linked, Extracted, Placed
  <2>3. Closed({}, {})'
    BY DEF Closed
  <2>4. Certified({}, <<>>)'
    BY <2>1, <2>2 DEF Certified, Linked
  <2>5. walk' = Begun(Root, <<>>)
    BY <2>1 DEF WalkInv
  <2> QED BY <2>1, <2>3, <2>4, <2>5 DEF WalkInv, Begun
<1>4. ASSUME NEW m \in links, ResolveLink(m) PROVE WalkInv'
  <2>1. /\ tpc = "resolve" /\ tpc' = "resolving" /\ walk' = Begun(Root, m.name) /\ links' = links \ {m}
        /\ UNCHANGED <<archive, tree>>
    BY <1>4 DEF ResolveLink
  <2>2. PICK K : Closed(K, {}) /\ Certified(K, <<>>)
    BY <2>1 DEF WalkInv
  <2> DEFINE path == m.name
  <2>3. tpc \in Resolving /\ m \in archive \ Placed
    BY <2>1 DEF Resolving, DiskInv
  <2>4. path \in Linked /\ tree[path] = m /\ path \in Seq(Names) /\ path # <<>>
    BY <2>3, LinksOnDisk DEF LinksTyped
  <2>5. \A p \in Linked : p # path => tree[p] # m
    BY <2>3, LinksOnDisk
  <2>6. \A p \in Linked : p # <<>>
    BY <2>3, LinksOnDisk DEF LinksTyped
  <2>7. PICK w : w = Begun(Root, m.name)
    OBVIOUS
  <2> HIDE DEF path
  <2>8. Closed(K, {})' /\ Linked' = Linked
    BY <2>1, <2>2, ClosedKept DEF Linked
  <2>9. Certified(K, path)'
    BY <2>1, <2>2, <2>5, <2>6, <2>8 DEF Certified, Start, Begun
  <2>10. /\ Len(path) \in Nat \ {0}
         /\ Begun(Root \o SubSeq(path, 1, 0), SubSeq(path, 1, Len(path))) = Begun(Root, path)
         /\ Begun(Root \o SubSeq(path, 1, Len(path) - 1), SubSeq(path, Len(path), Len(path))) = Start(path)
    BY <2>4, WayEnds
  <2>11. CASE Len(path) = 1
    <3>1. w = Start(path) /\ IsWalk(w)
      BY <2>4, <2>7, <2>10, <2>11, StartIsWalk DEF path
    <3>2. Closed(K \cup {w}, {w})
      BY <2>2, <3>1, ClosedBegin
    <3>3. Closed(K \cup {w}, {w})'
      BY <2>1, <3>2, ClosedKept
    <3>4. Certified(K \cup {w}, path)'
      BY <2>9 DEF Certified
    <3>5. Start(path)' = Start(path)
      BY DEF Start, Begun
    <3> QED BY <2>1, <2>4, <2>7, <2>8, <3>1, <3>3, <3>4, <3>5 DEF WalkInv
  <2>12. CASE Len(path) # 1
    <3>0. 0 + 1 = 1
      OBVIOUS
    <3>1. 0 \in 0..(Len(path) - 2)
      <4>1. Len(path) \in Nat /\ Len(path) # 0 /\ Len(path) # 1
        BY <2>10, <2>12
      <4>2. \A n \in Nat : n # 0 /\ n # 1 => 0 \in 0..(n - 2)
        OBVIOUS
      <4> QED BY <4>1, <4>2
    <3>2. OnTheWay(w, path)
      BY <2>7, <2>10, <3>0, <3>1 DEF OnTheWay, path
    <3>3. OnTheWay(w, path)'
      BY <3>2 DEF OnTheWay, Begun
    <3> QED BY <2>1, <2>4, <2>7, <2>8, <2>9, <3>3 DEF WalkInv
  <2> QED BY <2>11, <2>12
<1>5. ASSUME tpc = "resolving", UNCHANGED <<archive, tree, links>>,
             tpc' = "resolve" => walk' = Begun(Root, <<>>) /\ walk.rest = <<>> /\ IsPrefix(Root, walk.at),
             tpc' = "looking" => Circular(walk),
             tpc' = "refused" => walk' = Begun(Root, <<>>),
             tpc' \in {"resolve", "looking", "refused"}
      PROVE  WalkInv'
  <2>1. CASE tpc' = "refused"
    BY <1>1, <1>5, <2>1
  <2>2. CASE tpc' # "refused"
    <3>1. PICK K, w : \E path \in Linked :
            /\ w = walk /\ Certified(K, path) /\ tree[path] \notin links
            /\ \/ OnTheWay(w, path) /\ Closed(K, {})
               \/ Start(path) \in K /\ w \in K /\ Closed(K, {w})
               \/ Start(path) \in K /\ Closed(K, {})
      BY <1>5 DEF WalkInv
    <3>2. PICK path \in Linked :
            /\ w = walk /\ Certified(K, path) /\ tree[path] \notin links
            /\ \/ OnTheWay(w, path) /\ Closed(K, {})
               \/ Start(path) \in K /\ w \in K /\ Closed(K, {w})
               \/ Start(path) \in K /\ Closed(K, {})
      BY <3>1
    <3>3. tpc \in Resolving /\ ((w.rest = <<>> /\ IsPrefix(Root, w.at)) \/ Circular(w))
      BY <1>5, <2>2, <3>2 DEF Resolving
    <3>4. Start(path) \in K /\ ((w \in K /\ Closed(K, {w})) \/ Closed(K, {}))
      BY <3>2, <3>3, WayStep
    <3>5. Closed(K, {})
      BY <3>3, <3>4, ClosedEnd, ClosedCircle
    <3>6. Certified(K, <<>>)
      BY <3>2, <3>4 DEF Certified
    <3>7. Closed(K, {})' /\ Certified(K, <<>>)'
      BY <1>5, <3>5, <3>6, ClosedKept, CertifiedKept
    <3>8. Begun(Root, <<>>)' = Begun(Root, <<>>)
      BY DEF Begun
    <3> QED BY <1>5, <2>2, <3>7, <3>8 DEF WalkInv
  <2> QED BY <2>1, <2>2
<1>12. CASE JudgeLink
  BY <1>5, <1>12 DEF JudgeLink, LeadsInside
<1>13. CASE GiveUpCircle
  BY <1>5, <1>13 DEF GiveUpCircle
<1>14. CASE LookAtResult
  <2>1. /\ tpc = "looking" /\ tpc' \in {"resolve", "refused"} /\ walk' = Begun(Root, <<>>)
        /\ UNCHANGED <<archive, tree, links>>
    BY <1>14 DEF LookAtResult
  <2>2. PICK K : Closed(K, {}) /\ Certified(K, <<>>)
    BY <2>1 DEF WalkInv
  <2>3. Closed(K, {})' /\ Certified(K, <<>>)'
    BY <2>1, <2>2, ClosedKept, CertifiedKept
  <2>4. walk' = Begun(Root, <<>>)'
    BY <2>1 DEF Begun
  <2> QED BY <2>1, <2>3, <2>4 DEF WalkInv
<1>15. CASE PassCircle
  <2>1. tpc = "resolving" /\ Circular(walk) /\ UNCHANGED <<archive, tpc, tree, links>> /\ tpc \in Resolving
    BY <1>15 DEF PassCircle, Resolving
  <2>2. PICK K, w : \E path \in Linked :
          /\ w = walk /\ Certified(K, path) /\ tree[path] \notin links
          /\ \/ OnTheWay(w, path) /\ Closed(K, {})
             \/ Start(path) \in K /\ w \in K /\ Closed(K, {w})
             \/ Start(path) \in K /\ Closed(K, {})
    BY <2>1 DEF WalkInv
  <2>3. PICK path \in Linked :
          /\ w = walk /\ Certified(K, path) /\ tree[path] \notin links
          /\ \/ OnTheWay(w, path) /\ Closed(K, {})
             \/ Start(path) \in K /\ w \in K /\ Closed(K, {w})
             \/ Start(path) \in K /\ Closed(K, {})
    BY <2>2
  <2>4. Start(path) \in K /\ ((w \in K /\ Closed(K, {w})) \/ Closed(K, {}))
    BY <2>1, <2>3, WayStep
  <2>5. Closed(K, {})
    BY <2>1, <2>3, <2>4, ClosedCircle
  <2>6. Closed(K, {})' /\ Certified(K, path)'
    BY <2>1, <2>3, <2>5, ClosedKept, CertifiedKept
  <2>7. Linked' = Linked /\ Start(path)' = Start(path)
    BY <2>1 DEF Linked, Start, Begun
  <2>8. PICK v : v = walk'
    OBVIOUS
  <2> QED BY <2>1, <2>3, <2>4, <2>6, <2>7, <2>8 DEF WalkInv
<1>6. CASE EndExtraction
  <2>1. tpc = "resolve" /\ tpc' = "extracted" /\ UNCHANGED <<archive, tree, links, walk>>
    BY <1>6 DEF EndExtraction
  <2>2. PICK K : Closed(K, {}) /\ Certified(K, <<>>)
    BY <2>1 DEF WalkInv
  <2>3. Closed(K, {})' /\ Certified(K, <<>>)'
    BY <2>1, <2>2, ClosedKept, CertifiedKept
  <2>4. walk' = Begun(Root, <<>>)'
    BY <2>1 DEF WalkInv, Begun
  <2> QED BY <2>1, <2>3, <2>4 DEF WalkInv
<1>7. CASE Walking /\ tpc = "resolving"
  <2>1. tpc \in Resolving
    BY <1>7 DEF Resolving
  <2>2. PICK K, w : \E path \in Linked :
          /\ w = walk /\ Certified(K, path) /\ tree[path] \notin links
          /\ \/ OnTheWay(w, path) /\ Closed(K, {})
             \/ Start(path) \in K /\ w \in K /\ Closed(K, {w})
             \/ Start(path) \in K /\ Closed(K, {})
    BY <1>7 DEF WalkInv
  <2>3. PICK path \in Linked :
          /\ w = walk /\ Certified(K, path) /\ tree[path] \notin links
          /\ \/ OnTheWay(w, path) /\ Closed(K, {})
             \/ Start(path) \in K /\ w \in K /\ Closed(K, {w})
             \/ Start(path) \in K /\ Closed(K, {})
    BY <2>2
  <2>4. PICK v : v = walk'
    OBVIOUS
  <2>5. Moves(w, v) /\ UNCHANGED <<archive, tpc, tree, links>>
    BY <1>7, <2>1, <2>3, <2>4, MovesNow
  <2>6. Linked' = Linked /\ (\A p : Start(p)' = Start(p))
    BY <2>5 DEF Linked, Start, Begun
  <2>7. ASSUME NEW L, Certified(L, path), Start(path) \in L, v \in L, Closed(L, {v}) PROVE WalkInv'
    <3>1. Closed(L, {v})' /\ Certified(L, path)'
      BY <2>5, <2>7, ClosedKept, CertifiedKept
    <3> QED BY <1>7, <2>3, <2>4, <2>5, <2>6, <2>7, <3>1 DEF WalkInv
  <2>8. CASE OnTheWay(w, path) /\ Closed(K, {})
    <3>1. v = Passed(w)
      BY <2>1, <2>5, <2>8, WayStep DEF Moves
    <3>2. CASE OnTheWay(v, path)
      <4>1. OnTheWay(v, path)'
        BY <3>2 DEF OnTheWay, Begun
      <4>2. Closed(K, {})' /\ Certified(K, path)'
        BY <2>3, <2>5, <2>8, ClosedKept, CertifiedKept
      <4> QED BY <1>7, <2>3, <2>4, <2>5, <2>6, <4>1, <4>2 DEF WalkInv
    <3>3. CASE v = Start(path)
      <4>1. IsWalk(v)
        BY <2>1, <3>3, LinksOnDisk, StartIsWalk DEF LinksTyped
      <4>2. Closed(K \cup {v}, {v})
        BY <2>8, <4>1, ClosedBegin
      <4>3. Certified(K \cup {v}, path)
        BY <2>3 DEF Certified
      <4> QED BY <2>7, <3>3, <4>2, <4>3
    <3> QED BY <2>1, <2>8, <3>1, <3>2, <3>3, WayStep
  <2>9. CASE Start(path) \in K /\ w \in K /\ Closed(K, {w})
    <3>1. LinksTyped /\ ~Circular(w)
      BY <1>7, <2>1, <2>3, LinksOnDisk, MovesNow
    <3>2. Closed(K \cup {v}, {v})
      BY <2>5, <2>9, <3>1, ClosedMove
    <3>3. Certified(K \cup {v}, path)
      BY <2>3 DEF Certified
    <3> QED BY <2>7, <2>9, <3>2, <3>3
  <2>10. CASE Start(path) \in K /\ Closed(K, {})
    <3>1. Closed(K, {})' /\ Certified(K, path)'
      BY <2>3, <2>5, <2>10, ClosedKept, CertifiedKept
    <3> QED BY <1>7, <2>3, <2>4, <2>5, <2>6, <2>10, <3>1 DEF WalkInv
  <2> QED BY <2>3, <2>8, <2>9, <2>10
<1>8. CASE Walking /\ tpc = "reading"
  <2>1. tpc \in Resolving
    BY <1>8 DEF Resolving
  <2>2. PICK K, w : w = walk /\ Closed(K, {}) /\ Certified(K, <<>>) /\ Reading(K, w)
    BY <1>8 DEF WalkInv
  <2>3. PICK v : v = walk'
    OBVIOUS
  <2>4. Moves(w, v) /\ UNCHANGED <<archive, tpc, tree, links>> /\ ~Circular(w)
    BY <1>8, <2>1, <2>2, <2>3, MovesNow
  <2>5. LinksTyped /\ links = {} /\ \A p \in Linked : p # <<>>
    BY <1>8, <2>1, LinksOnDisk DEF DiskInv, LinksTyped
  <2>6. StartsIn(K)
    BY <2>2, <2>5 DEF StartsIn, Certified
  <2>7. PICK L : Closed(L, {}) /\ StartsIn(L) /\ Reading(L, v)
    BY <2>2, <2>4, <2>5, <2>6, ReadingStep
  <2>8. Certified(L, <<>>)
    BY <2>7 DEF StartsIn, Certified
  <2>9. Closed(L, {})' /\ Certified(L, <<>>)'
    BY <2>4, <2>7, <2>8, ClosedKept, CertifiedKept
  <2>10. Reading(L, v)'
    BY <2>7 DEF Reading, Then, Later
  <2> QED BY <1>8, <2>3, <2>4, <2>9, <2>10 DEF WalkInv
<1>16. CASE Walking /\ tpc = "looking"
  <2>1. UNCHANGED <<archive, tpc, tree, links>>
    BY <1>16, MovesNow DEF Resolving
  <2>2. PICK K : Closed(K, {}) /\ Certified(K, <<>>)
    BY <1>16 DEF WalkInv
  <2>3. Closed(K, {})' /\ Certified(K, <<>>)'
    BY <2>1, <2>2, ClosedKept, CertifiedKept
  <2> QED BY <1>16, <2>1, <2>3 DEF WalkInv
<1>9. ASSUME NEW path \in Paths, Read(path) PROVE WalkInv'
  <2>1. /\ tpc = "extracted" /\ tpc' = "reading" /\ walk' = Begun(Root, path)
        /\ UNCHANGED <<archive, tree, links>>
    BY <1>9 DEF Read
  <2>2. PICK K : Closed(K, {}) /\ Certified(K, <<>>)
    BY <2>1 DEF WalkInv
  <2>3. path \in Seq(Names)
    <3>1. PICK n \in 1..Depth : path \in [1..n -> Names]
      BY DEF Paths
    <3>2. n \in Nat
      BY TreeAssumption
    <3> QED BY <3>1, <3>2, SeqDef
  <2> DEFINE v == Begun(Root, <<>>)
             L == K \cup {v}
  <2>4. IsWalk(v) /\ v.rest = <<>> /\ IsPrefix(Root, v.at)
    <3>1. <<>> \in Seq(Parts)
      BY EmptySeq
    <3> QED BY <3>1, UnderRoot, BegunIsWalk, PartsOfPaths DEF Begun
  <2> HIDE DEF v
  <2>5. Closed(L, {v}) /\ v \in L
    BY <2>2, <2>4, ClosedBegin
  <2>6. PICK M : M = L
    OBVIOUS
  <2>7. Closed(M, {})
    BY <2>4, <2>5, <2>6, ClosedEnd
  <2>8. Certified(M, <<>>)
    BY <2>2, <2>6 DEF Certified
  <2>9. PICK w : w = Begun(Root, path)
    OBVIOUS
  <2>10. Reading(M, w)
    <3>1. <<>> \o path = path /\ Later({}, Len(path)) = {}
      BY <2>3, ConcatEmptySeq DEF Later
    <3>2. w = Then(v, path)
      BY <2>9, <3>1 DEF Then, Begun, v
    <3> QED BY <2>3, <2>5, <2>6, <3>2 DEF Reading
  <2>11. Closed(M, {})' /\ Certified(M, <<>>)' /\ Reading(M, w)'
    BY <2>1, <2>7, <2>8, <2>10, ClosedKept, CertifiedKept DEF Reading, Then, Later
  <2>12. w = walk'
    BY <2>1, <2>9
  <2> QED BY <2>1, <2>11, <2>12 DEF WalkInv
<1>10. CASE UNCHANGED treeVars
  <2>1. UNCHANGED <<archive, tree, links, tpc, walk>> /\ Linked' = Linked /\ \A p : Start(p)' = Start(p)
    BY <1>10 DEF treeVars, Linked, Start, Begun
  <2>2. \A K, E : Closed(K, E)' <=> Closed(K, E)
    BY <2>1, ClosedKept
  <2>3. \A K, but : Certified(K, but)' <=> Certified(K, but)
    BY <2>1 DEF Certified
  <2>4. \A w, path : OnTheWay(w, path)' <=> OnTheWay(w, path)
    BY DEF OnTheWay, Begun
  <2>5. \A K, w : Reading(K, w)' <=> Reading(K, w)
    BY DEF Reading, Then, Later
  <2> QED BY <2>1, <2>2, <2>3, <2>4, <2>5 DEF WalkInv, Begun
<1>11. Walking => tpc \in {"resolving", "looking", "reading"}
  BY DEF Walking, EnterLink, PassComponent
<1> QED BY <1>2, <1>3, <1>4, <1>6, <1>7, <1>8, <1>9, <1>10, <1>11, <1>12, <1>13, <1>14, <1>15, <1>16
        DEF TreeNext, Extracting

LEMMA TreeSafe == TreeInv => LinksConfined
<1> SUFFICES ASSUME TreeInv, tpc \in {"extracted", "reading"}
             PROVE  /\ walk.rest = <<>> => IsPrefix(Root, walk.at)
                    /\ \A m \in archive : m.name \in DOMAIN tree /\ tree[m.name] = m
                    /\ \A path \in DOMAIN tree : \A up \in Ancestors(path) : tree[up].kind = "directory"
  BY DEF LinksConfined
<1>1. tpc \in Resolving /\ links = {}
  BY DEF Resolving, TreeInv, DiskInv
<1>2. \A m \in archive : m.name \in DOMAIN tree /\ tree[m.name] = m
  BY <1>1 DEF TreeInv, DiskInv, Extracted, Resolving
<1>3. LinksTyped /\ \A path \in DOMAIN tree : \A up \in Ancestors(path) : tree[up].kind = "directory"
  BY <1>1, LinksOnDisk DEF TreeInv
<1>4. CASE tpc = "extracted"
  <2>1. walk = Begun(Root, <<>>)
    BY <1>4 DEF TreeInv, WalkInv
  <2>2. <<>> \in Seq(Parts)
    BY EmptySeq
  <2>3. IsPrefix(Root, Root)
    BY <2>2, UnderRoot, PartsOfPaths
  <2> QED BY <1>2, <1>3, <2>1, <2>3 DEF Begun
<1>5. CASE tpc = "reading"
  <2>1. PICK K, w : w = walk /\ Closed(K, {}) /\ Certified(K, <<>>) /\ Reading(K, w)
    BY <1>5 DEF TreeInv, WalkInv
  <2>2. w.rest = <<>> => IsPrefix(Root, w.at)
    BY <1>3, <2>1, ReadingSafe
  <2> QED BY <1>2, <1>3, <2>1, <2>2
<1> QED BY <1>4, <1>5

\* In the tree that restore-source-review.py extracts, no path leads outside,
\* whatever the archive, its links and their targets.
THEOREM TreeIsConfined == TreeSpec => []LinksConfined
<1>1. TreeInit => TreeInv
  BY DEF TreeInit, TreeInv, DiskInv, WalkInv, Resolving
<1>2. TreeInv /\ [TreeNext]_treeVars => TreeInv'
  BY DiskStep, WalkStep DEF TreeInv
<1> QED BY <1>1, <1>2, TreeSafe, PTL DEF TreeSpec

=============================================================================
