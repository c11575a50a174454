------------------------------- MODULE MCImage -------------------------------
(***************************************************************************)
(* The images that U-Boot loads, in three scenarios: "codec", the archive  *)
(* codec on its own; "companion", the generator; "kernel", the check that  *)
(* the kernel leaves the companion alone.                                  *)
(***************************************************************************)
EXTENDS Companion, KernelFootprint

CONSTANTS k1, k2

VARIABLE scenario

CodecNames == {<<"a">>, <<"..", "a">>, <<".", "a">>, <<"b", "cd">>, <<"TRAILER!!!">>}
MCNames == CodecNames \cup {
  <<"etc">>, <<"etc", "config">>, <<"etc", "dropbear">>, <<"etc", "crontabs">>, <<"root">>, <<"root", ".ssh">>,
  <<"etc", "config", "dropbear">>, <<"etc", "config", "fstab">>, <<"etc", "config", "ls420d-backup">>,
  <<"etc", "config", "network">>, <<"etc", "crontabs", "root">>, <<"etc", "dropbear", "authorized_keys">>,
  <<"etc", "dropbear", "dropbear_ed25519_host_key">>, <<"etc", "ls420d-deployment">>,
  <<"etc", "ls420d-site.uci">>, <<"root", ".ssh", "backup_ed25519">>, <<"root", ".ssh", "known_hosts">>}
MCTrailer == <<"TRAILER!!!">>
MCUnsafe == <<>>
MCSafeName == [n \in MCNames |-> IF Contains(n, "..") THEN MCUnsafe ELSE IF n[1] = "." THEN Tail(n) ELSE n]
MCNameSize == [n \in MCNames |-> FoldLeft(LAMBDA bytes, part : bytes + Len(part) + 1, 0, n)]

MCTexts == {<<"text">>}

\* Names that are equal once normalised, unsafe, reserved; every padding.
CodecEntries == [name: CodecNames, mode: Modes, data: {Empty} \cup [is: Texts, size: {1, 3, 4}]]
CodecInputs == SeqOf(CodecEntries, 2)

\* Before, in and behind each header, name and payload, and in the last padding.
Cuts == IF whole THEN UNION {{f[1], f[1] + f[2] - 1, f[1] + f[2]} : f \in archive} \cup {size - 1} ELSE {}

Good == [regular |-> TRUE, shared |-> FALSE, fits |-> TRUE]
Example == [example |-> TRUE, given |-> {"hostname", "network"}, sound |-> TRUE, network |-> 161,
            lines |-> <<>>, public |-> Good, host |-> Good, job |-> TRUE, client |-> Good, server |-> Good]
Deployment == [Example EXCEPT !.example = FALSE, !.lines = <<k1>>,
                              !.given = Fields \ {"backup"}]
WithJob == [Deployment EXCEPT !.given = Fields]
Wrong == {[Good EXCEPT !.regular = FALSE], [Good EXCEPT !.shared = TRUE], [Good EXCEPT !.fits = FALSE]}

\* Every list of up to three lines; one thing wrong at a time.
MCConfigs ==
  {[Deployment EXCEPT !.lines = l] : l \in SeqOf({k1, k2, Comment, Bad}, 3)}
  \cup {[Example EXCEPT !.given = g] : g \in {Fields, {"network"}, Example.given, Example.given \cup {"backup"}}}
  \cup {[Deployment EXCEPT !.given = g] : g \in {Fields \cup {"other"}, {"hostname", "network"}}}
  \cup {WithJob, [WithJob EXCEPT !.job = FALSE], [WithJob EXCEPT !.sound = FALSE],
        [WithJob EXCEPT !.network = 5000]}
  \cup UNION {{[WithJob EXCEPT !.public = f], [WithJob EXCEPT !.host = f], [WithJob EXCEPT !.client = f],
               [WithJob EXCEPT !.server = f]} : f \in Wrong}

MCSegments == [load: BOOLEAN, paddr: {0, 2, 5}, filesz: {0, 2, 4}, memsz: {0, 3, 5}]
MCKernels == [elf: BOOLEAN, phnum: 0..2, headers: SeqOf(MCSegments, 2)]

mcVars == <<imageVars, footprintVars, scenario>>

NoKernel == /\ vmlinux = [elf |-> FALSE, phnum |-> 0, headers |-> <<>>] /\ uimage = 0
            /\ index = 0 /\ extent = Nothing /\ fpc = "error"
NoCompanion == /\ config = Example /\ kpc = "failed" /\ authorized = <<>> /\ line = 1
               /\ output = Absent /\ runs = RunLimit

MCInit == \/ /\ scenario = "codec" /\ NoKernel /\ NoCompanion
             /\ \E given \in CodecInputs : NewcInit(given)
          \/ scenario = "companion" /\ NoKernel /\ CompanionInit
          \/ scenario = "kernel" /\ NoCompanion /\ NewcInit(<<>>) /\ FootprintInit

MCNext == /\ UNCHANGED scenario
          /\ \/ /\ scenario = "codec"
                /\ Encode \/ (\E c \in Cuts : Truncate(c)) \/ (\E s \in 0..3 : BeginDecode(s)) \/ Decode
                /\ UNCHANGED <<companionVars, footprintVars>>
             \/ scenario = "companion" /\ CompanionNext /\ UNCHANGED footprintVars
             \/ scenario = "kernel" /\ FootprintNext /\ UNCHANGED imageVars

MCSpec == MCInit /\ [][MCNext]_mcVars

=============================================================================
