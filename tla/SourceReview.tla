---------------------------- MODULE SourceReview ----------------------------
(***************************************************************************)
(* collect-source-review.py and the collect-notices.py it runs, over a     *)
(* source tree and a download directory that builds go on changing.        *)
(*                                                                         *)
(* A download is the version it has, a SHA-256 the content it is of.  Of   *)
(* the members, those are kept that a later check relates to each other;   *)
(* a check that fails stops the script, and so may a signal at any step    *)
(* (StopReview).  Names, sizes and the syntax of the locks are left out.   *)
(***************************************************************************)
EXTENDS Integers, FiniteSets

CONSTANTS Downloads, Versions, Commits, Configs,
          Selections,  \* notices chosen beforehand: for each download a version or None
          None, Torn,
          ChangeLimit  \* bound on what others change

Members == {"project.tar", "openwrt.config", "linux.config", "build.manifest", "downloads.tar",
            "source-review.json", "THIRD-PARTY-NOTICES.tar", "SHA256SUMS"}

Inventories == [Downloads -> Versions \cup {None}]
Manifests == [commit: Commits, config: Configs]
Contents == Commits \cup Configs \cup Manifests \cup Inventories
            \cup [commit: Commits, downloads: Inventories]

ASSUME ReviewAssumption == /\ ChangeLimit \in Nat
                           /\ None \notin Versions \cup Selections
                           /\ Selections \subseteq Inventories
ASSUME NothingIsContent ==
  /\ None # Torn
  /\ {None, Torn} \cap Contents = {}
  /\ \A S \in SUBSET Members : {None, Torn} \cap [S -> Contents] = {}

VARIABLES
  head, conf, linux, manifest, dl,  \* the checkout, openwrt-src/.config, the kernel's
                                    \* .config, build.manifest, the downloads
  changes, swaps,                   \* changes made, those of downloads among them
  quiet,                            \* history: none since the collection began
  rpc, reviewed, fields,            \* project_commit; the fields of build.manifest
  todo, item, checksum,             \* the downloads to come, the one at hand
  inventory, selection, records,    \* what was archived; the notices chosen, and found
  files                             \* the members of the output written so far

world == <<head, conf, linux, manifest, dl, changes, swaps, quiet>>
collector == <<rpc, reviewed, fields, todo, item, checksum, inventory, selection, records, files>>
reviewVars == <<world, collector>>

NoDownloads == [d \in Downloads |-> None]

ReviewInit ==
  /\ head \in Commits /\ conf \in Configs /\ linux = conf
  /\ manifest = [commit |-> head, config |-> conf]
  /\ dl \in [Downloads -> Versions]
  /\ changes = 0 /\ swaps = 0 /\ quiet = TRUE
  /\ selection \in Selections \cup {None}
  /\ rpc = "commit" /\ reviewed = None /\ fields = None
  /\ todo = {} /\ item = None /\ checksum = None
  /\ inventory = NoDownloads /\ records = NoDownloads
  /\ files = [m \in Members |-> None]

-----------------------------------------------------------------------------
\* A developer, or a build in another terminal.
Disturb(downloads) == /\ rpc \notin {"sealed", "failed"} /\ changes < ChangeLimit
                      /\ changes' = changes + 1 /\ swaps' = swaps + downloads
                      /\ quiet' = FALSE
                      /\ UNCHANGED collector

Checkout(c) == /\ c # head /\ head' = c
               /\ Disturb(0) /\ UNCHANGED <<conf, linux, manifest, dl>>
Configure(c) == /\ c # conf /\ conf' = c
                /\ Disturb(0) /\ UNCHANGED <<head, linux, manifest, dl>>
CompileKernel == /\ linux # conf /\ linux' = conf
                 /\ Disturb(0) /\ UNCHANGED <<head, conf, manifest, dl>>
EndBuild == /\ manifest' = [commit |-> head, config |-> conf] /\ manifest' # manifest
            /\ Disturb(0) /\ UNCHANGED <<head, conf, linux, dl>>
Replace(d, v) == /\ v # dl[d] /\ dl' = [dl EXCEPT ![d] = v]
                 /\ Disturb(1) /\ UNCHANGED <<head, conf, linux, manifest>>

-----------------------------------------------------------------------------
\* collect(), lines 111-188.
Goto(here, there) == rpc = here /\ rpc' = there
Written(member, content) == files' = [files EXCEPT ![member] = content]

ReadCommit == /\ Goto("commit", "manifest")
              /\ reviewed' = head
              /\ UNCHANGED <<world, fields, todo, item, checksum, inventory, selection, records, files>>

ReadManifest == /\ Goto("manifest", "inputs")
                /\ fields' = manifest
                /\ UNCHANGED <<world, reviewed, todo, item, checksum, inventory, selection, records, files>>

CheckInputs == /\ Goto("inputs", "project")
               /\ fields.commit = reviewed /\ fields.config = conf
               /\ todo' = {d \in Downloads : dl[d] # None} /\ todo' # {}
               /\ UNCHANGED <<world, reviewed, fields, item, checksum, inventory, selection, records, files>>

Copy(here, there, member, content) ==
  /\ Goto(here, there)
  /\ Written(member, content)
  /\ UNCHANGED <<world, reviewed, fields, todo, item, checksum, inventory, selection, records>>

ArchiveProject == head = reviewed /\ Copy("project", "config", "project.tar", head)
CopyConfig == Copy("config", "linux", "openwrt.config", conf)
CopyLinux == Copy("linux", "copy manifest", "linux.config", linux)
CopyManifest == Copy("copy manifest", "downloads", "build.manifest", manifest)

\* archive_downloads(): digest, archive, digest again.
Take(d, here, there) == /\ Goto(here, there)
                        /\ d \in todo /\ dl[d] # None
                        /\ item' = d

DigestDownload(d) ==
  /\ Take(d, "downloads", "add")
  /\ checksum' = dl[d]
  /\ UNCHANGED <<world, reviewed, fields, todo, inventory, selection, records, files>>

Archived == IF files["downloads.tar"] = None THEN NoDownloads ELSE files["downloads.tar"]

AddDownload ==
  /\ Goto("add", "digest") /\ dl[item] # None
  /\ Written("downloads.tar", [Archived EXCEPT ![item] = dl[item]])
  /\ UNCHANGED <<world, reviewed, fields, todo, item, checksum, inventory, selection, records>>

CheckDownload ==
  /\ Goto("digest", "downloads") /\ dl[item] = checksum
  /\ inventory' = [inventory EXCEPT ![item] = checksum]
  /\ todo' = todo \ {item}
  /\ UNCHANGED <<world, reviewed, fields, item, checksum, selection, records, files>>

Listed == {d \in Downloads : inventory[d] # None}

WriteReport ==
  /\ todo = {} /\ Goto("downloads", IF selection = None THEN "seal" ELSE "discover")
  /\ Written("source-review.json", [commit |-> reviewed, downloads |-> inventory])
  /\ todo' = Listed
  /\ UNCHANGED <<world, reviewed, fields, item, checksum, inventory, selection, records>>

-----------------------------------------------------------------------------
\* collect-notices.py: every source is read twice, to discover its notices and to
\* copy them, each time between two digests.
OpenSource(d, here, there) ==
  /\ Take(d, here, there) /\ dl[d] = inventory[d]
  /\ UNCHANGED <<world, reviewed, fields, todo, checksum, inventory, selection, records, files>>

Chosen(d) == selection[d] # None
Discover ==
  /\ Goto("find notices", "discovered") /\ dl[item] # None
  /\ Chosen(item) => selection[item] = dl[item] /\ selection[item] = inventory[item]
  /\ records' = [records EXCEPT ![item] = dl[item]]
  /\ UNCHANGED <<world, reviewed, fields, todo, item, checksum, inventory, selection, files>>

CopyUnseen == Goto("copy notices", "copied")                         \* mutant
              /\ dl[item] # None /\ records' = [records EXCEPT ![item] = dl[item]]
              /\ UNCHANGED <<world, reviewed, fields, todo, item, checksum, inventory, selection, files>>

CopyNotices ==
  /\ Goto("copy notices", "copied") /\ dl[item] = records[item]
  /\ UNCHANGED <<world, reviewed, fields, todo, item, checksum, inventory, selection, records, files>>

CloseSource(here, there) ==
  /\ Goto(here, there) /\ dl[item] = inventory[item]
  /\ todo' = todo \ {item}
  /\ UNCHANGED <<world, reviewed, fields, item, checksum, inventory, selection, records, files>>

\* A source may only be chosen if it was archived (lines 86-88).
BeginCopying ==
  /\ todo = {} /\ Goto("discover", "collect")
  /\ \A d \in Downloads : Chosen(d) => d \in Listed
  /\ todo' = Listed
  /\ UNCHANGED <<world, reviewed, fields, item, checksum, inventory, selection, records, files>>

WriteNotices == todo = {} /\ Copy("collect", "seal", "THIRD-PARTY-NOTICES.tar", records)

Notices == \/ \E d \in Downloads : \/ OpenSource(d, "discover", "find notices")
                                   \/ OpenSource(d, "collect", "copy notices")
           \/ Discover \/ CloseSource("discovered", "discover")
           \/ CopyNotices \/ CloseSource("copied", "collect")
           \/ BeginCopying \/ WriteNotices

-----------------------------------------------------------------------------
Present(members) == {m \in Members : members[m] # None}

SealReview == Copy("seal", "sealed", "SHA256SUMS", [m \in Present(files) |-> files[m]])

StopReview == /\ rpc \notin {"sealed", "failed"} /\ rpc' = "failed"
              /\ UNCHANGED <<world, reviewed, fields, todo, item, checksum, inventory, selection, records, files>>

Collecting == \/ ReadCommit \/ ReadManifest \/ CheckInputs
              \/ ArchiveProject \/ CopyConfig \/ CopyLinux \/ CopyManifest
              \/ \E d \in Downloads : DigestDownload(d)
              \/ AddDownload \/ CheckDownload \/ WriteReport
              \/ Notices \/ SealReview \/ StopReview

Disturbing == \/ \E c \in Commits : Checkout(c)
              \/ \E c \in Configs : Configure(c)
              \/ CompileKernel \/ EndBuild
              \/ \E d \in Downloads, v \in Versions \cup {None} : Replace(d, v)

ReviewNext == Collecting \/ Disturbing

-----------------------------------------------------------------------------
\* The notices are those of the very sources that the inventory names, although
\* each source is read three times with others free to replace it in between.  A
\* source replaced and put back unnoticed is caught by the second reading, unless
\* the same is done to that one too: that takes four replacements (lines 60-85 and
\* 115-133 of collect-notices.py).
NoticesGenuine == rpc = "sealed" /\ swaps < 4 /\ files["THIRD-PARTY-NOTICES.tar"] # None =>
  files["THIRD-PARTY-NOTICES.tar"] = files["source-review.json"].downloads

=============================================================================
