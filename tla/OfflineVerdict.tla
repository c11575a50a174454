---------------------------- MODULE OfflineVerdict ----------------------------
(***************************************************************************)
(* What an offline rebuild promises: it rebuilds the firmware once, and    *)
(* then says once, and truly, whether it came out the same.  It may stop   *)
(* at any time without having said anything.                               *)
(***************************************************************************)
CONSTANTS Unknown

VARIABLES sameConfig, sameProducts,  \* did the rebuild come out the same: Unknown, TRUE or FALSE
          verdict                    \* Unknown, TRUE or FALSE

verdictVars == <<sameConfig, sameProducts, verdict>>

VerdictInit == sameConfig = Unknown /\ sameProducts = Unknown /\ verdict = Unknown

Compile == /\ sameConfig = Unknown /\ sameConfig' \in BOOLEAN
           /\ UNCHANGED <<sameProducts, verdict>>

Package == /\ sameConfig # Unknown
           /\ sameProducts = Unknown /\ sameProducts' \in BOOLEAN
           /\ UNCHANGED <<sameConfig, verdict>>

Judge == /\ sameProducts # Unknown /\ verdict = Unknown
         /\ verdict' = (sameConfig /\ sameProducts)
         /\ UNCHANGED <<sameConfig, sameProducts>>

VerdictSpec == VerdictInit /\ [][Compile \/ Package \/ Judge]_verdictVars

=============================================================================
