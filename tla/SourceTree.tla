------------------------------ MODULE SourceTree ------------------------------
(***************************************************************************)
(* extract_tree() of restore-source-review.py: a source archive becomes a  *)
(* directory.  Sources contain relative symbolic links, to be kept as      *)
(* they are, as long as none of them leads out of the tree.                *)
(*                                                                         *)
(* A path is the sequence of its components, without "."; members are      *)
(* named from the directory that is made, whose own path is Root.  A       *)
(* member is a file, a directory or a link with a target.  Left out: the   *)
(* limits, ".git", backslashes, and types of members other than these.     *)
(***************************************************************************)
EXTENDS Naturals, Sequences, FiniteSets, SequencesExt

CONSTANTS Archives,  \* sets of members that an archive may consist of
          Parts,     \* components of paths, ".." among them
          Root,      \* the path of the directory that is made, without links
          Depth      \* components of the longest path that is read

Names == Parts \ {".."}

\* Members may name the same path twice; a target may be absolute.
ASSUME TreeAssumption ==
  /\ Depth \in Nat /\ Root \in Seq(Names)
  /\ \A archive \in Archives : \A m \in archive :
       /\ m.kind \in {"file", "directory", "link"} /\ m.absolute \in BOOLEAN
       /\ m.name \in Seq(Names) \ {<<>>} /\ m.target \in Seq(Parts)

VARIABLES archive, tpc,
          tree,     \* path -> member, what is on disk
          links,    \* those the loop of line 79, then that of line 83, has still to come to
          walk      \* the path that is being resolved: how far it got, what is
                    \* left of it, and which links are not at their end yet

treeVars == <<archive, tpc, tree, links, walk>>

Begun(place, path) == [at |-> place, rest |-> path, open |-> {}]

TreeInit == /\ archive \in Archives /\ tpc = "check" /\ tree = <<>> /\ links = {}
            /\ walk = Begun(Root, <<>>)

\* posixpath.normpath(): ".." that cannot be undone stay in front.
Normal(path) == FoldLeft(LAMBDA done, part :
                  IF part = ".." /\ done # <<>> /\ Last(done) # ".." THEN Front(done) ELSE Append(done, part),
                  <<>>, path)

Ancestors(path) == {SubSeq(path, 1, n) : n \in 1..(Len(path) - 1)}

\* Lines 52-67.
SaysInside(link) == /\ ~link.absolute
                    /\ LET there == Normal(Front(link.name) \o link.target)
                       IN there = <<>> \/ there[1] # ".."

WellFormed == /\ \A m, n \in archive : m.name = n.name => m = n
              /\ \A m \in archive : m.kind = "link" => SaysInside(m)
              /\ \A m, n \in archive : n.name \in Ancestors(m.name) => n.kind = "directory"

CheckMembers == /\ tpc = "check"
                /\ tpc' = IF WellFormed THEN "files" ELSE "refused"
                /\ UNCHANGED <<archive, tree, links, walk>>

\* Lines 69-78: directories, missing parents among them, and files.
Placed == {m \in archive : m.kind # "link"}
Directory(path) == [name |-> path, kind |-> "directory", target |-> <<>>, absolute |-> FALSE]
Implied == UNION {Ancestors(m.name) : m \in archive}

ExtractFiles ==
  /\ tpc = "files" /\ tpc' = "links"
  /\ tree' = [path \in {m.name : m \in Placed} \cup Implied |->
                IF \E m \in Placed : m.name = path
                THEN CHOOSE m \in Placed : m.name = path
                ELSE Directory(path)]
  /\ links' = archive \ Placed
  /\ UNCHANGED <<archive, walk>>

CreateLink(m) == /\ tpc = "links" /\ m \in links
                 /\ tree' = [path \in DOMAIN tree \cup {m.name} |->
                               IF path = m.name THEN m ELSE tree[path]]
                 /\ links' = links \ {m}
                 /\ UNCHANGED <<archive, tpc, walk>>

-----------------------------------------------------------------------------
\* How the system gets on with a walk, one component at a time: ".." goes up, a
\* link is replaced by its target, a name is entered.  A component that is
\* missing, or a file, is passed as realpath() passes it.  Around the tree there
\* are no links: restore() refuses them in the path of its output.
Linked == {path \in DOMAIN tree : tree[path].kind = "link"}

Meets(w, path) == w.rest # <<>> /\ Head(w.rest) # ".." /\ Append(w.at, Head(w.rest)) = Root \o path

\* A link is open until what it was replaced by is used up.
Open(opened, rest) == {o \in opened : o[2] < Len(rest)}

Entered(w, path) == LET rest == tree[path].target \o Tail(w.rest)
                    IN [at |-> IF tree[path].absolute THEN <<>> ELSE w.at, rest |-> rest,
                        open |-> Open(w.open \cup {<<path, Len(w.rest) - 1>>}, rest)]

Passed(w) == [at |-> IF Head(w.rest) = ".." THEN Front(w.at) ELSE Append(w.at, Head(w.rest)),
              rest |-> Tail(w.rest), open |-> Open(w.open, Tail(w.rest))]

\* A link that is met on the way to its own end: the system goes no further.
Circular(w) == \E path \in Linked : Meets(w, path) /\ \E o \in w.open : o[1] = path

EnterLink(path) == /\ tpc \in {"resolving", "looking", "reading"}
                   /\ Meets(walk, path) /\ ~Circular(walk)
                   /\ walk' = Entered(walk, path)
                   /\ UNCHANGED <<archive, tpc, tree, links>>

PassComponent == /\ tpc \in {"resolving", "looking", "reading"}
                 /\ walk.rest # <<>> /\ \A path \in Linked : ~Meets(walk, path)
                 /\ walk' = Passed(walk)
                 /\ UNCHANGED <<archive, tpc, tree, links>>

\* Lines 82-90.
BeginResolving == /\ tpc = "links" /\ links = {} /\ tpc' = "resolve"
                  /\ links' = archive \ Placed
                  /\ UNCHANGED <<archive, tree, walk>>

ResolveLink(m) == /\ tpc = "resolve" /\ m \in links /\ tpc' = "resolving"
                  /\ walk' = Begun(Root, m.name)
                  /\ links' = links \ {m}
                  /\ UNCHANGED <<archive, tree>>

SaidInside == \A path \in Linked : SaysInside(tree[path])   \* mutant
LeadsInside == IsPrefix(Root, walk.at)

JudgeLink == /\ tpc = "resolving" /\ walk.rest = <<>>
             /\ tpc' = IF LeadsInside THEN "resolve" ELSE "refused"
             /\ walk' = Begun(Root, <<>>)
             /\ UNCHANGED <<archive, tree, links>>

\* resolve() is not strict.  Up to Python 3.12 it gives up at a circle, takes
\* what is left of the path as it is written, and asks for the status of the
\* result: it raises only if that is in a circle, too.
AsWritten(path) == FoldLeft(LAMBDA done, part : IF part = ".." THEN Front(done) ELSE Append(done, part),
                          <<>>, path)

GiveUpCircle == LET end == AsWritten(walk.at \o walk.rest) IN
                /\ tpc = "resolving" /\ Circular(walk)
                /\ IF IsPrefix(Root, end)
                     THEN tpc' = "looking" /\ walk' = Begun(<<>>, end)
                     ELSE tpc' = "refused" /\ walk' = Begun(Root, <<>>)
                /\ UNCHANGED <<archive, tree, links>>

LookAtResult == /\ tpc = "looking" /\ (walk.rest = <<>> \/ Circular(walk))
                /\ tpc' = IF Circular(walk) THEN "refused" ELSE "resolve"
                /\ walk' = Begun(Root, <<>>)
                /\ UNCHANGED <<archive, tree, links>>

\* Since Python 3.13 it passes the link as if it was none, and never raises.
PassCircle == /\ tpc = "resolving" /\ Circular(walk)
              /\ walk' = Passed(walk)
              /\ UNCHANGED <<archive, tpc, tree, links>>

EndExtraction == /\ tpc = "resolve" /\ links = {} /\ tpc' = "extracted"
                 /\ UNCHANGED <<archive, tree, links, walk>>

\* Whoever uses the tree names a path in it, of files or not.
Read(path) == /\ tpc = "extracted" /\ tpc' = "reading"
              /\ walk' = Begun(Root, path)
              /\ UNCHANGED <<archive, tree, links>>

Paths == UNION {[1..n -> Names] : n \in 1..Depth}

Extracting == \/ CheckMembers \/ ExtractFiles \/ (\E m \in links : CreateLink(m))
              \/ BeginResolving \/ (\E m \in links : ResolveLink(m)) \/ JudgeLink
              \/ GiveUpCircle \/ LookAtResult \/ PassCircle \/ EndExtraction
Walking == (\E path \in Linked : EnterLink(path)) \/ PassComponent

TreeNext == Extracting \/ Walking \/ \E path \in Paths : Read(path)

TreeSpec == TreeInit /\ [][TreeNext]_treeVars

-----------------------------------------------------------------------------
\* In an extracted tree every path that ends anywhere ends inside, through however
\* many links, and every member is where its name says: no file was written
\* through a link, and none was lost.  What the targets say is not enough for
\* this: where they lead once the other links exist decides.  Links that lead
\* nowhere may remain: resolve() accepts some circles, as b -> b/.. .
LinksConfined == tpc \in {"extracted", "reading"} =>
  /\ walk.rest = <<>> => IsPrefix(Root, walk.at)
  /\ \A m \in archive : m.name \in DOMAIN tree /\ tree[m.name] = m
  /\ \A path \in DOMAIN tree : \A up \in Ancestors(path) : tree[up].kind = "directory"

=============================================================================
