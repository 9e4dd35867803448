----------------------------- MODULE Migrations -----------------------------
(***************************************************************************)
(* The migration runner: instances that boot at once bring one database to *)
(* the schema of their files. Each reads the table of applied migrations,  *)
(* then waits for the advisory lock, then applies what it had found to be  *)
(* pending, one transaction for each file.                                 *)
(***************************************************************************)
EXTENDS Naturals

CONSTANTS Instances, Files  \* how many migrations there are

VARIABLES
  applied,  \* schema_migrations: how often each file's transaction committed
  lock,     \* the instances that hold the advisory lock, one at most
  pending,  \* the files each instance found not applied, and has still to run
  phase     \* "boot", "waiting", "running", "done", "failed"
vars == <<applied, lock, pending, phase>>

Versions == 1 .. Files
First(s) == CHOOSE v \in s : \A w \in s : v <= w

TypeOK ==
  /\ applied \in [Versions -> 0 .. 2]
  /\ lock \subseteq Instances
  /\ pending \in [Instances -> SUBSET Versions]
  /\ phase \in [Instances -> {"boot", "waiting", "running", "done", "failed"}]

Init ==
  /\ applied \in {[v \in Versions |-> IF v <= n THEN 1 ELSE 0] : n \in 0 .. Files}
  /\ lock = {}
  /\ pending = [i \in Instances |-> {}]
  /\ phase = [i \in Instances |-> "boot"]

Unlock(i) == lock' = lock \ {i}

\* The list is read, and the checksums compared, before the lock is asked for.
Survey(i) ==
  /\ phase[i] = "boot"
  /\ pending' = [pending EXCEPT ![i] = {v \in Versions : applied[v] = 0}]
  /\ phase' = [phase EXCEPT ![i] = IF pending'[i] = {} THEN "done" ELSE "waiting"]
  /\ UNCHANGED <<applied, lock>>

Acquire(i) ==
  /\ phase[i] = "waiting" /\ lock = {}
  /\ lock' = lock \cup {i}
  /\ phase' = [phase EXCEPT ![i] = "running"]
  /\ UNCHANGED <<applied, pending>>

\* Mutant: the file is recorded whether or not it was there.
RecordedTwice(v) == TRUE
\* The version is the table's primary key: a second record of it fails, and the
\* file's own statements are rolled back with it.
Records(v) == applied[v] = 0
\* A file's transaction lands whole.
Apply(i) ==
  /\ phase[i] = "running" /\ pending[i] # {}
  /\ Records(First(pending[i]))
  /\ applied' = [applied EXCEPT ![First(pending[i])] = @ + 1]
  /\ pending' = [pending EXCEPT ![i] = @ \ {First(pending[i])}]
  /\ UNCHANGED <<lock, phase>>

\* A file fails, of itself or because it is already there: the run stops.
Fail(i) ==
  /\ phase[i] = "running" /\ pending[i] # {}
  /\ phase' = [phase EXCEPT ![i] = "failed"]
  /\ Unlock(i)
  /\ UNCHANGED <<applied, pending>>

Finish(i) ==
  /\ phase[i] = "running" /\ pending[i] = {}
  /\ phase' = [phase EXCEPT ![i] = "done"]
  /\ Unlock(i)
  /\ UNCHANGED <<applied, pending>>

\* The process dies: its connection, the lock with it, is closed. A deploy that
\* failed or died may be tried again.
Crash(i) ==
  /\ phase[i] \in {"waiting", "running", "failed"}
  /\ phase' = [phase EXCEPT ![i] = "boot"]
  /\ pending' = [pending EXCEPT ![i] = {}]
  /\ Unlock(i)
  /\ UNCHANGED applied

Next == \E i \in Instances :
  Survey(i) \/ Acquire(i) \/ Apply(i) \/ Fail(i) \/ Finish(i) \/ Crash(i)
Spec == Init /\ [][Next]_vars

-----------------------------------------------------------------------------
\* Whatever boots, fails and dies together: no file lands twice, a file lands
\* after every earlier one, and an instance that says it is done has them all.
SchemaIsWhole ==
  /\ \A v \in Versions : applied[v] <= 1
  /\ \A v, w \in Versions : v < w /\ applied[w] > 0 => applied[v] > 0
  /\ \A i \in Instances : phase[i] = "done" => \A v \in Versions : applied[v] > 0
=============================================================================
