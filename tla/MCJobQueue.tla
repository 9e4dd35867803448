----------------------------- MODULE MCJobQueue -----------------------------
(***************************************************************************)
(* JobQueue on two rows, two workers and one dedupe key.                   *)
(***************************************************************************)
EXTENDS JobQueue

CONSTANTS j1, j2, w1, w2, s1, s2

\* Both rows may be tried twice; j1 goes before j2.
MCMaxAttempts == [j \in Jobs |-> 2]
MCPriority == [j \in Jobs |-> IF j = j1 THEN 10 ELSE 100]

\* One slot on each worker.
MCHostApart == [s \in Slots |-> IF s = s1 THEN w1 ELSE w2]

\* Both slots on the first worker.
MCHostTogether == [s \in Slots |-> w1]
=============================================================================
