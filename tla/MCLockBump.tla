---- MODULE MCLockBump ----
\* Releases 1 (locked) to 3, three human actions and two faults.
EXTENDS LockBump
====
