---- MODULE MCBackupPull ----
\* Three jobs, the configured volume and another one, two changes of mounts or failed records.
EXTENDS BackupPull, TLC
CONSTANTS j1, j2, j3, wanted, other
MCJobs == {j1, j2, j3}
MCVolumes == {wanted, other}
SymmetricJobs == Permutations(MCJobs)
====
