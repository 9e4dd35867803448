---------------------------- MODULE DurableQueue ----------------------------
(***************************************************************************)
(* What the job queue promises, without workers, locks or time: an accepted *)
(* job stays pending until a handler has run to its end and the job is     *)
(* done, or until the queue gives up and the job is dead; a dead job comes *)
(* back only when an operator asks for it; a done job only when the news   *)
(* of its end was lost, and then once.  At most one pending job holds a    *)
(* dedupe key.                                                             *)
(***************************************************************************)
CONSTANTS
  Jobs,   \* job ids
  Keys,   \* dedupe keys
  NoKey   \* no dedupe key

VARIABLES
  phase,  \* phase[j]: "none", "pending", "done" or "dead"
  key,    \* key[j]: the dedupe key the job was accepted with
  ran,    \* the jobs whose handler has run to its end at least once
  unheard \* the done jobs whose worker was not told so and is still there

vars == <<phase, key, ran, unheard>>

KeyFree(j, k) == k = NoKey \/ \A i \in Jobs \ {j} : phase[i] = "pending" => key[i] # k

Init ==
  /\ phase = [j \in Jobs |-> "none"]
  /\ key = [j \in Jobs |-> NoKey]
  /\ ran = {}
  /\ unheard = {}

Accept(j, k) ==
  /\ phase[j] = "none"
  /\ KeyFree(j, k)
  /\ phase' = [phase EXCEPT ![j] = "pending"]
  /\ key' = [key EXCEPT ![j] = k]
  /\ UNCHANGED <<ran, unheard>>

\* The handler may run more than once: delivery is at least once.
Execute(j) ==
  /\ phase[j] = "pending"
  /\ ran' = ran \cup {j}
  /\ UNCHANGED <<phase, key, unheard>>

Finish(j) ==
  /\ phase[j] = "pending"
  /\ j \in ran
  /\ phase' = [phase EXCEPT ![j] = "done"]
  /\ unheard' \in {unheard, unheard \cup {j}}
  /\ UNCHANGED <<key, ran>>

\* The worker takes a success it was not told of for a failure, and undoes it: the
\* job is pending once more, or dead although it was done.
Undo(j) ==
  /\ j \in unheard
  /\ phase[j] = "done"
  /\ \/ KeyFree(j, key[j]) /\ phase' = [phase EXCEPT ![j] = "pending"]
     \/ phase' = [phase EXCEPT ![j] = "dead"]
  /\ unheard' = unheard \ {j}
  /\ UNCHANGED <<key, ran>>

\* It cannot, or is gone: what is done stays done.
Subside(S) ==
  /\ unheard' = unheard \ S
  /\ UNCHANGED <<phase, key, ran>>

\* Giving up, on several jobs at once when the reaper finds them together.
Bury(S) ==
  /\ \A j \in S : phase[j] = "pending"
  /\ phase' = [j \in Jobs |-> IF j \in S THEN "dead" ELSE phase[j]]
  /\ UNCHANGED <<key, ran, unheard>>

Revive(j) ==
  /\ phase[j] = "dead"
  /\ KeyFree(j, key[j])
  /\ phase' = [phase EXCEPT ![j] = "pending"]
  /\ UNCHANGED <<key, ran, unheard>>

Next ==
  \/ \E j \in Jobs :
       \/ \E k \in Keys \cup {NoKey} : Accept(j, k)
       \/ Execute(j)
       \/ Finish(j)
       \/ Undo(j)
       \/ Revive(j)
  \/ \E S \in SUBSET Jobs : Bury(S) \/ Subside(S)

Spec == Init /\ [][Next]_vars
=============================================================================
