------------------------------ MODULE Companion ------------------------------
(***************************************************************************)
(* make_initrd.py with backup_config.py: from a configuration and its key  *)
(* files to the companion, the archive that U-Boot hands to the kernel and *)
(* the kernel unpacks over the root file system.                           *)
(*                                                                         *)
(* Abstracted: the syntax checks of lines 23-44 are one bit of the         *)
(* configuration (sound), those of a key file three.  The uImage wrapping  *)
(* adds a header and checksums, and unwrapping takes them off.             *)
(***************************************************************************)
EXTENDS NewcArchive, FiniteSets, SequencesExt

CONSTANTS Configs,       \* configurations as the operator may write them
          Keys,          \* public keys
          Comment, Bad,  \* a line of the key file without a key, or with a wrong one
          Absent, Torn,
          MaxPayload,    \* 1 MiB
          RunLimit       \* bound on the runs of the script

Fields == {"hostname", "network", "ssh_public_key", "dropbear_host_key", "backup"}
KeyFile == [regular: BOOLEAN, shared: BOOLEAN, fits: BOOLEAN]

ASSUME CompanionAssumption ==
  /\ {MaxPayload, RunLimit} \subseteq Nat
  /\ Configs \subseteq [example: BOOLEAN, given: SUBSET (Fields \cup {"other"}), sound: BOOLEAN,
                        network: Nat,     \* bytes, with any number of name servers
                        lines: Seq(Keys \cup {Comment, Bad}), public: KeyFile, host: KeyFile,
                        job: BOOLEAN, client: KeyFile, server: KeyFile]

VARIABLES
  config,
  kpc,         \* "fields", "site", "keys", "host", "job", "build", "archive", "open", "write";
               \* "failed", "done"
  authorized,  \* the keys found so far
  line,        \* the line to read
  output,      \* the companion on disk: Absent, Torn or its entries
  runs

companionVars == <<config, kpc, authorized, line, output, runs>>
imageVars == <<companionVars, newcVars>>

CompanionInit == /\ config \in Configs
                 /\ kpc = "fields" /\ authorized = <<>> /\ line = 1
                 /\ output = Absent /\ runs = 1
                 /\ NewcInit(<<>>)

Goto(here, there) == kpc = here /\ kpc' = there
Failed(here) == /\ Goto(here, "failed")
                /\ UNCHANGED <<config, authorized, line, output, runs, newcVars>>
Passed(here, there) == /\ Goto(here, there)
                       /\ UNCHANGED <<config, authorized, line, output, runs, newcVars>>

-----------------------------------------------------------------------------
\* config_files().
AnyAllowed == {"hostname", "network"} \subseteq config.given         \* mutant
              /\ config.given \subseteq Fields

FieldsAllowed ==
  LET private == IF config.example THEN {} ELSE {"ssh_public_key", "dropbear_host_key"}
      optional == IF config.example THEN {} ELSE {"backup"}
  IN config.given \ optional = {"hostname", "network"} \cup private

CheckFields == IF FieldsAllowed THEN Passed("fields", "site") ELSE Failed("fields")

CheckSite == IF config.sound
             THEN Passed("site", IF config.example THEN "job" ELSE "keys")
             ELSE Failed("site")

Usable(file, private) == file.regular /\ (private => ~file.shared) /\ file.fits

\* Lines 65-77: one line of the public keys.
Kept(k) == IF Contains(authorized, k) THEN authorized ELSE Append(authorized, k)

ReadLine == /\ kpc = "keys" /\ Usable(config.public, FALSE)
            /\ line <= Len(config.lines) /\ config.lines[line] # Bad
            /\ authorized' = IF config.lines[line] = Comment THEN authorized
                             ELSE Kept(config.lines[line])
            /\ line' = line + 1
            /\ UNCHANGED <<config, kpc, output, runs, newcVars>>

KeysRead == /\ Usable(config.public, FALSE) /\ line > Len(config.lines) /\ authorized # <<>>
            /\ Passed("keys", "host")

KeysRefused == /\ \/ ~Usable(config.public, FALSE)
                  \/ line <= Len(config.lines) /\ config.lines[line] = Bad
                  \/ line > Len(config.lines) /\ authorized = <<>>
               /\ Failed("keys")

CheckHostKey == IF Usable(config.host, TRUE) THEN Passed("host", "job") ELSE Failed("host")

\* Lines 85-86 and backup_files().
HasJob == "backup" \in config.given
CheckJob == IF HasJob =>
                 config.job /\ Usable(config.client, TRUE) /\ Usable(config.server, FALSE)
            THEN Passed("job", "build")
            ELSE Failed("job")

-----------------------------------------------------------------------------
\* image().  Nothing limits the number of name servers (lines 41-42), so that the
\* archive can outgrow MaxPayload.
Text(is, bytes) == [is |-> is, size |-> bytes]

Optional(list, wanted) == IF wanted THEN list ELSE <<>>

Within(name, dir) == Len(name) > Len(dir) /\ \A k \in 1..Len(dir) : name[k] = dir[k]

ModeOf(name) ==
  IF \/ \E dir \in {<<"etc", "dropbear">>, <<"root", ".ssh">>, <<"etc", "crontabs">>} : Within(name, dir)
     \/ name = <<"etc", "config", "ls420d-backup">>
  THEN "0600" ELSE "0644"

Directory(name, mode) == [name |-> name, mode |-> mode, data |-> Empty]
File(name, data) == [name |-> name, mode |-> ModeOf(name), data |-> data]

Directories ==
  <<Directory(<<"etc">>, "0755"), Directory(<<"etc", "config">>, "0755")>>
  \o Optional(<<Directory(<<"etc", "dropbear">>, "0700")>>, ~config.example)
  \o Optional(<<Directory(<<"etc", "crontabs">>, "0700"), Directory(<<"root">>, "0700"),
                Directory(<<"root", ".ssh">>, "0700")>>, HasJob)

AuthorizedKeys == Text(<<"authorized">> \o authorized, 81 * Len(authorized))

\* What config_files() returns, in the order of sorted().
Files ==
  <<File(<<"etc", "config", "dropbear">>, Text(<<"sshd", IF config.example THEN "off" ELSE "on">>, 121))>>
  \o Optional(<<File(<<"etc", "config", "fstab">>, Text(<<"fstab">>, 250)),
                File(<<"etc", "config", "ls420d-backup">>, Text(<<"job">>, 150))>>, HasJob)
  \o <<File(<<"etc", "config", "network">>, Text(<<"network">>, config.network))>>
  \o Optional(<<File(<<"etc", "crontabs", "root">>, Text(<<"schedule">>, 35))>>, HasJob)
  \o Optional(<<File(<<"etc", "dropbear", "authorized_keys">>, AuthorizedKeys),
                File(<<"etc", "dropbear", "dropbear_ed25519_host_key">>, Text(<<"host key">>, 83))>>,
              ~config.example)
  \o <<File(<<"etc", "ls420d-deployment">>, Text(<<"deployment">>, 40)),
       File(<<"etc", "ls420d-site.uci">>, Text(<<"site">>, 46))>>
  \o Optional(<<File(<<"root", ".ssh", "backup_ed25519">>, Text(<<"client key">>, 83)),
                File(<<"root", ".ssh", "known_hosts">>, Text(<<"server key">>, 90))>>, HasJob)

MembersFirst(files) == files \o Directories                          \* mutant
Listed(files) == Directories \o files

BuildEntries ==
  /\ Goto("build", "archive")
  /\ entries' = Listed(Files)
  /\ UNCHANGED <<config, authorized, line, output, runs,
                 apc, archive, size, whole, next, start, pos, decoded>>

Archive == /\ kpc = "archive"
           /\ \/ Encode
              \/ size <= MaxPayload /\ BeginDecode(0)
              \/ Decode
           /\ UNCHANGED companionVars

\* Lines 101-106.
ImageFails == /\ \/ apc \in {"rejected", "refused"}
                 \/ apc = "encoded" /\ size > MaxPayload
                 \/ apc = "decoded" /\ decoded # entries
              /\ Failed("archive")

ImageDone == apc = "decoded" /\ decoded = entries /\ Passed("archive", "open")

-----------------------------------------------------------------------------
\* main(): the file is created for this run alone, and written afterwards.
OpenOutput == /\ output = Absent
              /\ Goto("open", "write")
              /\ output' = Torn
              /\ UNCHANGED <<config, authorized, line, runs, newcVars>>

OpenFails == output # Absent /\ Failed("open")

WriteOutput == /\ Goto("write", "done")
               /\ output' = entries
               /\ UNCHANGED <<config, authorized, line, runs, newcVars>>

\* The run is killed, or the disk is full.
Abort == /\ kpc \notin {"failed", "done"}
         /\ kpc' = "failed"
         /\ UNCHANGED <<config, authorized, line, output, runs, newcVars>>

\* The operator starts another run, or removes what is there.
Again(c) == /\ kpc \in {"failed", "done"} /\ runs < RunLimit
            /\ config' = c
            /\ kpc' = "fields" /\ authorized' = <<>> /\ line' = 1
            /\ runs' = runs + 1
            /\ entries' = <<>>
            /\ apc' = "encode" /\ archive' = {} /\ size' = 0 /\ whole' = TRUE /\ next' = 1
            /\ start' = 0 /\ pos' = 0 /\ decoded' = <<>>
            /\ UNCHANGED output

RemoveCompanion == /\ kpc \in {"failed", "done"} /\ output # Absent
                   /\ output' = Absent
                   /\ UNCHANGED <<config, kpc, authorized, line, runs, newcVars>>

Generate == \/ CheckFields \/ CheckSite \/ ReadLine \/ KeysRead \/ KeysRefused
            \/ CheckHostKey \/ CheckJob \/ BuildEntries \/ Archive \/ ImageFails \/ ImageDone
            \/ OpenOutput \/ OpenFails \/ WriteOutput

CompanionNext == \/ Generate \/ Abort
                 \/ \E c \in Configs : Again(c)
                 \/ RemoveCompanion

CompanionSpec == CompanionInit /\ [][CompanionNext]_imageVars

-----------------------------------------------------------------------------
Finished == kpc = "done"
Holding(what) == {i \in 1..Len(output) : output[i].data.is # <<>> /\ output[i].data.is[1] = what}
First(k) == CHOOSE i \in 1..Len(config.lines) :
              config.lines[i] = k /\ \A j \in 1..(i - 1) : config.lines[j] # k

\* Who may log in.  The public example contains no key of anybody's and its SSH
\* server is off; a deployment has a host key, and of the operator's keys every
\* one, once, in the file's order (lines 20-22, 48 and 64-84).
LoginNeedsKeys == Finished /\ output # Absent =>
  /\ {output[i].data.is[2] : i \in Holding("sshd")} = {IF config.example THEN "off" ELSE "on"}
  /\ config.example => \A i \in 1..Len(output) :
       output[i].data.is \in {<<>>, <<"sshd", "off">>, <<"network">>, <<"deployment">>, <<"site">>}
  /\ ~config.example =>
       /\ Cardinality(Holding("host key")) = 1
       /\ \E i \in Holding("authorized") :
            LET keys == Tail(output[i].data.is)
            IN /\ {keys[j] : j \in 1..Len(keys)} =
                    {config.lines[j] : j \in 1..Len(config.lines)} \ {Comment}
               /\ \A j, k \in 1..Len(keys) : j < k => First(keys[j]) < First(keys[k])

\* The kernel creates the entries one after the other: an entry whose directory
\* is missing is lost, and a key is there for others to read from the moment it
\* is created.  So directories come before their members, and each key is
\* created private in a directory that is private already (lines 92-100).
UnpacksPrivately == Finished /\ output # Absent => \A i \in 1..Len(output) :
  LET name == output[i].name
      Before(j) == j < i /\ output[j].data = Empty /\ output[j].name = Front(name)
  IN /\ Len(name) > 1 => \E j \in 1..Len(output) : Before(j)
     /\ i \in Holding("host key") \cup Holding("client key") =>
          output[i].mode = "0600" /\ \E j \in 1..Len(output) : Before(j) /\ output[j].mode = "0700"

=============================================================================
