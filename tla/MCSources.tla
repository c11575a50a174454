------------------------------ MODULE MCSources ------------------------------
(***************************************************************************)
(* The corresponding sources, in three scenarios: "review", collected      *)
(* while builds interfere, delivered and restored; "tree", one archive of  *)
(* them extracted; "rebuild", the firmware rebuilt offline from them.      *)
(***************************************************************************)
EXTENDS SourceRestore, SourceTree, OfflineRebuild, TLC

VARIABLE scenario

mcVars == <<sourceVars, treeVars, rebuildVars, scenario>>

\* No selection, an empty one, or one notice chosen.
MCSelections == {NoDownloads} \cup {[NoDownloads EXCEPT ![d] = v] : d \in Downloads, v \in Versions}

\* Up to three members: two directory levels, links to either, through either and
\* out of both, names that occur twice; one target leaves the tree and finds it
\* again under its own name.
MemberNames == {<<"a">>, <<"b">>, <<"a", "a">>, <<"a", "b">>}
Targets == {<<"a">>, <<"b">>, <<"..">>, <<"..", "b">>, <<"..", "..">>, <<"b", "..">>,
            <<"a", "b", "..">>, <<"b", "..", "..">>, <<"a", "b", "..", "b">>}
Link(name, target) == [name |-> name, kind |-> "link", target |-> target, absolute |-> FALSE]
OneMember == {[name |-> n, kind |-> k, target |-> <<>>, absolute |-> FALSE] : n \in MemberNames, k \in {"file", "directory"}}
             \cup {Link(n, t) : n \in MemberNames, t \in Targets}
             \cup {[Link(<<"b">>, <<"a">>) EXCEPT !.absolute = TRUE]}
MCRoot == <<"a", "b">>
MCArchives == {{x, y, z} : x, y, z \in OneMember}

NoReview == /\ head = None /\ conf = None /\ linux = None /\ manifest = None /\ dl = NoDownloads
            /\ changes = 0 /\ swaps = 0 /\ quiet = FALSE
            /\ rpc = "failed" /\ reviewed = None /\ fields = None /\ todo = {} /\ item = None
            /\ checksum = None /\ inventory = NoDownloads /\ selection = None /\ records = NoDownloads
            /\ files = [m \in Members |-> None]
            /\ RestoreInit
NoTree == archive = {} /\ tpc = "refused" /\ tree = <<>> /\ links = {} /\ walk = Begun(Root, <<>>)
NoRebuild == /\ opc = "done" /\ moved = FALSE /\ override = "unset" /\ online = FALSE /\ repository = FALSE
             /\ kernel = Unknown /\ artifacts = Unknown /\ config = Unknown /\ result = Unknown
             /\ compared = 0 /\ attempts = 0

MCInit == \/ scenario = "review" /\ ReviewInit /\ RestoreInit /\ NoTree /\ NoRebuild
          \/ scenario = "tree" /\ TreeInit /\ NoReview /\ NoRebuild
          \/ scenario = "rebuild" /\ RebuildInit /\ NoReview /\ NoTree

MCNext == /\ UNCHANGED scenario
          /\ \/ scenario = "review" /\ SourcesNext /\ UNCHANGED <<treeVars, rebuildVars>>
             \/ scenario = "tree" /\ TreeNext /\ UNCHANGED <<sourceVars, rebuildVars>>
             \/ scenario = "rebuild" /\ RebuildNext /\ UNCHANGED <<sourceVars, treeVars>>

MCSpec == MCInit /\ [][MCNext]_mcVars

Symmetry == Permutations(Downloads) \cup Permutations(Versions)
            \cup Permutations(Commits) \cup Permutations(Configs)

=============================================================================
