---- MODULE MCCandidate ----
\* Two commits with one configuration and one package list; the seven assets of candidate.yml.
EXTENDS Candidate, TLC
CONSTANTS c1, c2, config, list
MCCommits == {c1, c2}
MCConfigOf == [c \in MCCommits |-> config]
MCPlace == [n \in Collected |->
             CASE n = "project.tar" -> 1 [] n = "packages.manifest" -> 2
               [] n = "build.manifest" -> 3 [] OTHER -> 4]
MCPackagesOf == [c \in MCCommits |-> list]
MCSourceAssets == {"sources.tar", "THIRD-PARTY-NOTICES.tar", "build.manifest", "packages.manifest"}
MCFirmwareAssets == {"uImage.buffalo", "initrd.buffalo", "SHA256SUMS"}
SymmetricCommits == Permutations(MCCommits)
====
