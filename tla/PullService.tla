----------------------------- MODULE PullService -----------------------------
(***************************************************************************)
(* What the pull jobs promise together, to who reads the status file and   *)
(* to who owns the volumes: one transfer at a time, only into the wanted   *)
(* volume, announced before it begins and spoken of by nobody else until   *)
(* it has ended, and by its own job only when it was cut off from it; and  *)
(* a good result only for a transfer that ended so, from the job that made *)
(* it.  A job may disappear at any time, and leave its transfer, or its    *)
(* announcement, behind; and it may fail to say something and go on.       *)
(***************************************************************************)
CONSTANTS Jobs, Wanted, None

VARIABLES transfers,  \* what runs: its job, the volume it writes to, and whether
                      \* it was cut off from its job
          ended,      \* the exit status of each job's transfer, or None
          status,
          silent      \* the jobs that failed to say something

serviceVars == <<transfers, ended, status, silent>>

Says(j, word) == [job |-> j, word |-> word]
Good == [code \in {"0", "24"} |-> IF code = "0" THEN "ok" ELSE "warn"]

ServiceInit == /\ transfers = {}
               /\ ended = [j \in Jobs |-> None]
               /\ status = Says(None, "none")
               /\ silent = {}

Announced(j) == status = Says(j, "running") \/ j \in silent

Announce(j) == /\ transfers = {} /\ ended[j] = None
               /\ status' = Says(j, "running")
               /\ UNCHANGED <<transfers, ended, silent>>

Silence(j) == /\ silent' = silent \cup {j}
              /\ UNCHANGED <<transfers, ended, status>>

Begin(j) == /\ transfers = {} /\ ended[j] = None /\ Announced(j)
            /\ transfers' = {[job |-> j, into |-> Wanted, cut |-> FALSE]}
            /\ UNCHANGED <<ended, status, silent>>

Cut(j) == /\ \E t \in transfers : t.job = j /\ ~t.cut
          /\ transfers' = {[t EXCEPT !.cut = TRUE] : t \in transfers}
          /\ UNCHANGED <<ended, status, silent>>

End(j) == /\ \E t \in transfers : t.job = j
          /\ transfers' = {}
          /\ \E code \in {"0", "23", "24"} : ended' = [ended EXCEPT ![j] = code]
          /\ UNCHANGED <<status, silent>>

Succeed(j) == /\ transfers = {} /\ Announced(j)
              /\ ended[j] \in {"0", "24"} /\ status' = Says(j, Good[ended[j]])
              /\ UNCHANGED <<transfers, ended, silent>>

\* Refused before the transfer, signalled, or told by rsync.
GiveUp(j) == /\ \A t \in transfers : t.job = j /\ t.cut
             /\ status' = Says(j, "failed")
             /\ UNCHANGED <<transfers, ended, silent>>

ServiceNext ==
  \E j \in Jobs : \/ Announce(j) \/ Silence(j) \/ Begin(j) \/ Cut(j)
                  \/ End(j) \/ Succeed(j) \/ GiveUp(j)
ServiceSpec == ServiceInit /\ [][ServiceNext]_serviceVars

==============================================================================
