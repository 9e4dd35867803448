---------------------------- MODULE AccessProofs ----------------------------
(***************************************************************************)
(* What the components of MCAccess keep that are not about identity, for   *)
(* any number of people, companies, files, cycles and rows: what happens   *)
(* once, failed inspections, decisions, histories, and administrators.     *)
(* Each has an invariant, a lemma for its first state, one for each step   *)
(* and one for what it gives; the theorems put them together.              *)
(***************************************************************************)
EXTENDS MCAccess, TLAPS, Sequences, FiniteSetTheorems, WellFoundedInduction

-----------------------------------------------------------------------------
(* What must happen once happens once.                                     *)

\* An application makes one permit, and made it when it says so.
LEMMA OnePermitInit == Application!Init => Application!OnePermit
  BY DEF Application!Init, Application!OnePermit

LEMMA OnePermitStep ==
  Application!OnePermit /\ [Application!Next]_applying => Application!OnePermit'
<1> SUFFICES ASSUME Application!OnePermit, [Application!Next]_applying
             PROVE  Application!OnePermit'
  OBVIOUS
<1>1. CASE Application!Submit
  BY <1>1 DEF Application!Submit, Application!OnePermit
<1>2. CASE Application!Review
  BY <1>2 DEF Application!Review, Application!Reviewable, Application!OnePermit
<1>3. CASE Application!Convert
  BY <1>3 DEF Application!Convert, Application!OnePermit
<1>4. CASE application' = application /\ converted' = converted
  BY <1>4 DEF Application!OnePermit
<1>5. UNCHANGED applying => application' = application /\ converted' = converted
  BY DEF applying
<1> QED BY <1>1, <1>2, <1>3, <1>4, <1>5 DEF Application!Next, Application!Edit,
     Application!RemoveSubcontractor, Application!AttachDocument,
     Application!AddSubcontractorReads, Application!AddSubcontractorWrites

\* A set of natural numbers has a smallest one.
LEMMA Smallest ==
  ASSUME NEW T \in SUBSET Nat, T # {}
  PROVE  \E x \in T : \A y \in T : x <= y
<1>1. PICK x \in T : \A y \in T : ~ (<<y, x>> \in OpToRel(<, Nat))
  BY WFMin, NatLessThanWellFounded
<1>2. \A y \in T : ~ (y < x)
  BY <1>1 DEF OpToRel
<1> QED BY <1>2

\* And one of them up to n has a largest.
LEMMA Largest ==
  ASSUME NEW n \in Nat
  PROVE  Numbers!Max({0} \cup (1 .. n)) = n /\ OnePermit!Max({0} \cup (1 .. n)) = n
<1>1. \A x \in {0} \cup (1 .. n) : (\A y \in {0} \cup (1 .. n) : x >= y) <=> x = n
  OBVIOUS
<1> QED BY <1>1 DEF Numbers!Max, OnePermit!Max

\* The schema: an instance that has surveyed it has every file that is not applied
\* among those it is to run, so that the first of them is the first to be applied.
SchemaInv ==
  /\ applied \in [Deploys!Versions -> 0 .. 1]
  /\ pending \in [Pair -> SUBSET Deploys!Versions]
  /\ phase \in [Pair -> {"boot", "waiting", "running", "done", "failed"}]
  /\ \A v, w \in Deploys!Versions : v < w /\ applied[w] > 0 => applied[v] > 0
  /\ \A i \in Pair : phase[i] \in {"waiting", "running"} =>
       \A v \in Deploys!Versions : applied[v] = 0 => v \in pending[i]
  /\ \A i \in Pair : phase[i] = "done" => \A v \in Deploys!Versions : applied[v] > 0

LEMMA FirstPending ==
  ASSUME NEW s \in SUBSET Deploys!Versions, s # {}
  PROVE  Deploys!First(s) \in s /\ \A w \in s : Deploys!First(s) <= w
<1>1. s \in SUBSET Nat
  BY CountsAssumption DEF Deploys!Versions
<1> QED BY <1>1, Smallest DEF Deploys!First

LEMMA SchemaInit == Deploys!Init => SchemaInv
<1> SUFFICES ASSUME Deploys!Init PROVE SchemaInv
  OBVIOUS
<1>1. PICK n \in 0 .. Files : applied = [v \in Deploys!Versions |-> IF v <= n THEN 1 ELSE 0]
  BY DEF Deploys!Init
<1>2. Deploys!Versions \subseteq Nat
  BY CountsAssumption DEF Deploys!Versions
<1>3. /\ applied \in [Deploys!Versions -> 0 .. 1]
      /\ \A v, w \in Deploys!Versions : v < w /\ applied[w] > 0 => applied[v] > 0
  BY <1>1, <1>2
<1> QED BY <1>3 DEF Deploys!Init, SchemaInv

LEMMA SchemaStep == SchemaInv /\ [Deploys!Next]_deploying => SchemaInv'
<1> SUFFICES ASSUME SchemaInv, [Deploys!Next]_deploying PROVE SchemaInv'
  OBVIOUS
<1> USE DEF SchemaInv
<1>1. ASSUME NEW i \in Pair, Deploys!Survey(i) PROVE SchemaInv'
  BY <1>1 DEF Deploys!Survey
<1>2. ASSUME NEW i \in Pair, Deploys!Acquire(i) PROVE SchemaInv'
  BY <1>2 DEF Deploys!Acquire
<1>3. ASSUME NEW i \in Pair, Deploys!Apply(i) PROVE SchemaInv'
  <2>1. PICK v : v = Deploys!First(pending[i])
    OBVIOUS
  <2>2. /\ phase[i] = "running" /\ v \in pending[i] /\ v \in Deploys!Versions
        /\ \A w \in pending[i] : v <= w
    BY <1>3, <2>1, FirstPending DEF Deploys!Apply
  <2>3. /\ applied[v] = 0 /\ applied' = [applied EXCEPT ![v] = 1]
        /\ pending' = [pending EXCEPT ![i] = @ \ {v}] /\ phase' = phase
    BY <1>3, <2>1, <2>2 DEF Deploys!Apply, Deploys!Records
  <2>4. \A w \in Deploys!Versions : w < v => applied[w] > 0
    <3>1. ASSUME NEW w \in Deploys!Versions, w < v, applied[w] = 0 PROVE FALSE
      BY <2>2, <3>1, CountsAssumption DEF Deploys!Versions
    <3> QED BY <3>1
  <2>5. \A w, x \in Deploys!Versions : w < x /\ applied'[x] > 0 => applied'[w] > 0
    BY <2>2, <2>3, <2>4, CountsAssumption DEF Deploys!Versions
  <2> QED BY <2>2, <2>3, <2>5
<1>4. ASSUME NEW i \in Pair, Deploys!Fail(i) PROVE SchemaInv'
  BY <1>4 DEF Deploys!Fail
<1>5. ASSUME NEW i \in Pair, Deploys!Finish(i) PROVE SchemaInv'
  BY <1>5 DEF Deploys!Finish
<1>6. ASSUME NEW i \in Pair, Deploys!Crash(i) PROVE SchemaInv'
  BY <1>6 DEF Deploys!Crash
<1>7. CASE UNCHANGED deploying
  BY <1>7 DEF deploying
<1> QED BY <1>1, <1>2, <1>3, <1>4, <1>5, <1>6, <1>7 DEF Deploys!Next

LEMMA SchemaHolds == SchemaInv => Deploys!SchemaIsWhole
  BY DEF SchemaInv, Deploys!SchemaIsWhole

\* The cycles of a permit's corrections are numbered from 1, each once.
CyclesInv ==
  /\ cycles \in 0 .. MaxCycles
  /\ logged = [c \in 1 .. MaxCycles |-> IF c <= cycles THEN 1 ELSE 0]

LEMMA CyclesInit == OnePermit!Init => CyclesInv
  BY CountsAssumption DEF OnePermit!Init, CyclesInv

LEMMA NextCycle ==
  ASSUME CyclesInv, NEW p \in Pair
  PROVE  OnePermit!NextCycle(p) = cycles + 1
<1>1. {c \in 1 .. MaxCycles : logged[c] > 0} = 1 .. cycles
  BY CountsAssumption DEF CyclesInv
<1>2. OnePermit!Max({0} \cup (1 .. cycles)) = cycles
  <2>1. cycles \in Nat
    BY CountsAssumption DEF CyclesInv
  <2> QED BY <2>1, Largest
<1> QED BY <1>1, <1>2 DEF OnePermit!NextCycle

LEMMA CyclesStep == CyclesInv /\ [OnePermit!Next]_permitting => CyclesInv'
<1> SUFFICES ASSUME CyclesInv, [OnePermit!Next]_permitting PROVE CyclesInv'
  OBVIOUS
<1>1. ASSUME NEW p \in Pair, OnePermit!LogCorrectionWrites(p) PROVE CyclesInv'
  <2>1. cycles' = cycles + 1 /\ cycles' <= MaxCycles
        /\ logged' = [logged EXCEPT ![cycles + 1] = @ + 1]
    BY <1>1, NextCycle DEF OnePermit!LogCorrectionWrites
  <2>2. cycles' \in 0 .. MaxCycles /\ cycles + 1 \in 1 .. MaxCycles
    BY <2>1, CountsAssumption DEF CyclesInv
  <2>3. \A c \in 1 .. MaxCycles : logged'[c] = IF c <= cycles + 1 THEN 1 ELSE 0
    BY <2>1, <2>2, CountsAssumption DEF CyclesInv
  <2>4. logged' = [c \in 1 .. MaxCycles |-> logged'[c]]
    BY <2>1 DEF CyclesInv
  <2> QED BY <2>1, <2>2, <2>3, <2>4 DEF CyclesInv
<1>2. CASE UNCHANGED <<cycles, logged>>
  BY <1>2 DEF CyclesInv
<1> QED BY <1>1, <1>2 DEF OnePermit!Next, permitting,
     OnePermit!ChangeStatusReads, OnePermit!ChangeStatusWrites, OnePermit!DeleteReads,
     OnePermit!DeleteWrites, OnePermit!LogCorrectionReads, OnePermit!Advance,
     OnePermit!ObserveStatus, OnePermit!Sweep, OnePermit!CheckTimesOut,
     OnePermit!CheckReads, OnePermit!PortalAnswers, OnePermit!CheckWrites

LEMMA CyclesHold == CyclesInv => OnePermit!CyclesCounted
  BY DEF CyclesInv, OnePermit!CyclesCounted

\* The numbers of a table whose rows the trigger numbers run from 1, and the one
\* row that is being inserted holds the lock and has the next.
RunsFromOne(t) == \E n \in Nat :
  /\ numbers[t] = 1 .. n
  /\ \A k \in Numbers!Inserting(t) : open[k].number = n + 1
NumbersInv ==
  /\ numbers = [t \in Numbers!Tables |-> numbers[t]]
  /\ open = [k \in Pair |-> open[k]]
  /\ \A t \in Numbers!Tables : t[2] # "invoice" =>
       /\ RunsFromOne(t)
       /\ \A k \in Numbers!Inserting(t) : open[k].locks /\ Numbers!Inserting(t) = {k}

LEMMA NumbersInit == Numbers!Init => NumbersInv
<1> SUFFICES ASSUME Numbers!Init PROVE NumbersInv
  OBVIOUS
<1>1. \A t \in Numbers!Tables : Numbers!Inserting(t) = {}
  BY DEF Numbers!Init, Numbers!Inserting
<1>2. \A t \in Numbers!Tables : numbers[t] = 1 .. 0
  BY DEF Numbers!Init
<1>3. \A t \in Numbers!Tables : RunsFromOne(t)
  BY <1>1, <1>2 DEF RunsFromOne
<1> QED BY <1>1, <1>3 DEF Numbers!Init, NumbersInv

LEMMA NumbersHold == NumbersInv => Numbers!OwnNumbers
<1> SUFFICES ASSUME NumbersInv, NEW t \in Numbers!Tables, t[2] # "invoice"
             PROVE  /\ numbers[t] = 1 .. Numbers!Cardinality(numbers[t])
                    /\ \A k \in Numbers!Inserting(t) :
                         Numbers!Inserting(t) = {k} /\ open[k].number \notin numbers[t]
  BY DEF Numbers!OwnNumbers
<1>1. PICK n \in Nat : /\ numbers[t] = 1 .. n
                       /\ \A k \in Numbers!Inserting(t) : open[k].number = n + 1
  BY DEF NumbersInv, RunsFromOne
<1>2. Numbers!Cardinality(1 .. n) = Cardinality(1 .. n)
  BY DEF Numbers!Cardinality, Cardinality
<1>3. Cardinality(1 .. n) = n
  BY FS_Interval
<1>4. \A k \in Numbers!Inserting(t) : Numbers!Inserting(t) = {k}
  BY Zenon DEF NumbersInv
<1> QED BY <1>1, <1>2, <1>3, <1>4

\* A table that a step of clerk k does not touch keeps its numbers and its insert.
LEMMA TableKeeps ==
  ASSUME NumbersInv, NEW k \in Pair, NEW x, open' = [open EXCEPT ![k] = x],
         NEW t \in Numbers!Tables, t[2] # "invoice", numbers'[t] = numbers[t],
         k \notin Numbers!Inserting(t)',
         NEW S, S = Numbers!Inserting(t)
  PROVE  /\ RunsFromOne(t)'
         /\ \A j \in Numbers!Inserting(t)' : open'[j].locks /\ Numbers!Inserting(t)' = {j}
<1>1. \A j \in Pair : j # k => open'[j] = open[j]
  BY DEF NumbersInv
<1>2. \A j \in Numbers!Inserting(t)' : j \in Pair /\ j # k
  BY DEF Numbers!Inserting
<1>3. \A j \in Numbers!Inserting(t)' : j \in S /\ open'[j] = open[j]
  BY <1>1, <1>2 DEF Numbers!Inserting
<1>4. RunsFromOne(t)'
  <2>1. RunsFromOne(t)
    BY Zenon DEF NumbersInv
  <2>2. PICK n \in Nat : numbers[t] = 1 .. n /\ \A j \in S : open[j].number = n + 1
    BY <2>1 DEF RunsFromOne
  <2>3. numbers'[t] = 1 .. n /\ \A j \in Numbers!Inserting(t)' : open'[j].number = n + 1
    BY <1>3, <2>2
  <2> QED BY <2>3 DEF RunsFromOne
<1>5. \A j \in S : open[j].locks /\ S = {j}
  BY Zenon DEF NumbersInv
<1> QED BY <1>3, <1>4, <1>5

LEMMA Inserted ==
  ASSUME NumbersInv, NEW k \in Pair, NEW t \in Numbers!Tables, Numbers!Insert(k, t)
  PROVE  NumbersInv'
<1>1. PICK x : /\ x = [table |-> t, number |-> Numbers!NextNumber(t), locks |-> TRUE]
               /\ open[k] = None /\ open' = [open EXCEPT ![k] = x]
  BY DEF Numbers!Insert, Numbers!Inserts
<1>2. numbers' = numbers
  BY DEF Numbers!Insert, Numbers!Inserts
<1>3. open'[k] = x /\ \A j \in Pair : j # k => open'[j] = open[j]
  BY <1>1 DEF NumbersInv
<1>4. x.table = t /\ x.number = Numbers!NextNumber(t) /\ x.locks
  BY <1>1, Zenon
<1>5. ASSUME NEW u \in Numbers!Tables, u[2] # "invoice"
      PROVE  /\ RunsFromOne(u)'
             /\ \A j \in Numbers!Inserting(u)' : open'[j].locks /\ Numbers!Inserting(u)' = {j}
  <2>1. CASE u # t
    <3>1. k \notin Numbers!Inserting(u)'
      BY <1>3, <1>4, <2>1 DEF Numbers!Inserting
    <3> QED BY <1>1, <1>2, <1>5, <3>1, TableKeeps
  <2>2. CASE u = t
    <3>1. \A j \in Numbers!Inserting(t) : ~open[j].locks
      BY DEF Numbers!Insert, Numbers!Locked
    <3>2. Numbers!Inserting(t) = {}
      BY <1>5, <2>2, <3>1, Zenon DEF NumbersInv
    <3>3. Numbers!Inserting(t)' \subseteq {k}
      BY <1>3, <3>2 DEF Numbers!Inserting
    <3>4. PICK n \in Nat : numbers[t] = 1 .. n
      BY <1>5, <2>2 DEF NumbersInv, RunsFromOne
    <3>5. Numbers!NextNumber(t) = n + 1
      BY <3>4, Largest DEF Numbers!NextNumber
    <3>6. RunsFromOne(t)'
      BY <1>2, <1>3, <1>4, <3>3, <3>4, <3>5 DEF RunsFromOne
    <3>7. \A j \in Numbers!Inserting(t)' : open'[j].locks
      BY <1>3, <1>4, <3>3
    <3> QED BY <2>2, <3>3, <3>6, <3>7
  <2> QED BY <2>1, <2>2
<1>6. numbers' = [u \in Numbers!Tables |-> numbers'[u]] /\ open' = [j \in Pair |-> open'[j]]
  BY <1>1, <1>2 DEF NumbersInv
<1> QED BY <1>5, <1>6, Zenon DEF NumbersInv

LEMMA InvoiceInserted ==
  ASSUME NumbersInv, NEW k \in Pair, NEW c \in Companies, Numbers!InsertInvoice(k, c)
  PROVE  NumbersInv'
<1>1. PICK x : /\ x = [table |-> <<c, "invoice">>, number |-> Numbers!OfficeNumber, locks |-> FALSE]
               /\ open' = [open EXCEPT ![k] = x] /\ numbers' = numbers
  BY DEF Numbers!InsertInvoice, Numbers!Inserts
<1>2. open'[k] = x
  BY <1>1 DEF NumbersInv
<1>3. x.table = <<c, "invoice">>
  BY <1>1, Zenon
<1>4. ASSUME NEW u \in Numbers!Tables, u[2] # "invoice"
      PROVE  /\ RunsFromOne(u)'
             /\ \A j \in Numbers!Inserting(u)' : open'[j].locks /\ Numbers!Inserting(u)' = {j}
  <2>1. k \notin Numbers!Inserting(u)'
    BY <1>2, <1>3, <1>4 DEF Numbers!Inserting
  <2> QED BY <1>1, <1>4, <2>1, TableKeeps
<1>5. numbers' = [u \in Numbers!Tables |-> numbers'[u]] /\ open' = [j \in Pair |-> open'[j]]
  BY <1>1 DEF NumbersInv
<1> QED BY <1>4, <1>5, Zenon DEF NumbersInv

LEMMA Committed ==
  ASSUME NumbersInv, NEW k \in Pair, Numbers!Commit(k)
  PROVE  NumbersInv'
<1>1. /\ open[k] # None /\ open' = [open EXCEPT ![k] = None]
      /\ numbers' = [numbers EXCEPT ![open[k].table] = @ \cup {open[k].number}]
  BY DEF Numbers!Commit
<1>2. open'[k] = None /\ \A j \in Pair : j # k => open'[j] = open[j]
  BY <1>1 DEF NumbersInv
<1>3. ASSUME NEW u \in Numbers!Tables, u[2] # "invoice"
      PROVE  /\ RunsFromOne(u)'
             /\ \A j \in Numbers!Inserting(u)' : open'[j].locks /\ Numbers!Inserting(u)' = {j}
  <2>1. k \notin Numbers!Inserting(u)'
    BY <1>2 DEF Numbers!Inserting
  <2>2. CASE u # open[k].table
    <3>1. numbers'[u] = numbers[u]
      BY <1>1, <2>2 DEF NumbersInv
    <3> QED BY <1>1, <1>3, <2>1, <3>1, TableKeeps
  <2>3. CASE u = open[k].table
    <3>1. k \in Numbers!Inserting(u)
      BY <1>1, <2>3 DEF Numbers!Inserting
    <3>2. Numbers!Inserting(u) = {k}
      BY <1>3, <3>1, Zenon DEF NumbersInv
    <3>3. Numbers!Inserting(u)' = {}
      BY <1>2, <3>2 DEF Numbers!Inserting
    <3>4. PICK n \in Nat : numbers[u] = 1 .. n /\ open[k].number = n + 1
      BY <1>3, <3>1 DEF NumbersInv, RunsFromOne
    <3>5. numbers'[u] = (1 .. n) \cup {n + 1}
      BY <1>1, <2>3, <3>4 DEF NumbersInv
    <3>6. numbers'[u] = 1 .. (n + 1) /\ n + 1 \in Nat
      BY <3>5
    <3> QED BY <3>3, <3>6 DEF RunsFromOne
  <2> QED BY <2>2, <2>3
<1>4. numbers' = [u \in Numbers!Tables |-> numbers'[u]] /\ open' = [j \in Pair |-> open'[j]]
  BY <1>1 DEF NumbersInv
<1> QED BY <1>3, <1>4, Zenon DEF NumbersInv

LEMMA RolledBack ==
  ASSUME NumbersInv, NEW k \in Pair, Numbers!Rollback(k)
  PROVE  NumbersInv'
<1>1. open' = [open EXCEPT ![k] = None] /\ numbers' = numbers
  BY DEF Numbers!Rollback
<1>2. \A u \in Numbers!Tables : k \notin Numbers!Inserting(u)'
  BY <1>1 DEF Numbers!Inserting, NumbersInv
<1>3. \A u \in Numbers!Tables : u[2] # "invoice" =>
        /\ RunsFromOne(u)'
        /\ \A j \in Numbers!Inserting(u)' : open'[j].locks /\ Numbers!Inserting(u)' = {j}
  BY <1>1, <1>2, TableKeeps
<1>4. numbers' = [u \in Numbers!Tables |-> numbers'[u]] /\ open' = [j \in Pair |-> open'[j]]
  BY <1>1 DEF NumbersInv
<1> QED BY <1>3, <1>4, Zenon DEF NumbersInv

LEMMA NumbersStep == NumbersInv /\ [Numbers!Next]_numbering => NumbersInv'
<1> SUFFICES ASSUME NumbersInv, [Numbers!Next]_numbering PROVE NumbersInv'
  OBVIOUS
<1>1. CASE UNCHANGED <<numbers, open>>
  BY <1>1 DEF NumbersInv, RunsFromOne, Numbers!Inserting
<1>2. ASSUME NEW t, NEW n, Numbers!Delete(t, n) PROVE UNCHANGED <<numbers, open>>
  BY <1>2 DEF Numbers!Delete
<1>3. UNCHANGED numbering => UNCHANGED <<numbers, open>>
  BY DEF numbering
<1> QED BY <1>1, <1>2, <1>3, Inserted, InvoiceInserted, Committed, RolledBack DEF Numbers!Next

-----------------------------------------------------------------------------
HappensInv == Application!OnePermit /\ NumbersInv /\ SchemaInv /\ CyclesInv

\* What must happen once happens once, whoever asks for it at the same time: the
\* permit of an application, the number of a record, each step of the schema, the
\* count of a cycle of corrections.
THEOREM WhatHappensHappensOnce == Spec => []HappensOnce
<1>1. Init => HappensInv
  BY OnePermitInit, NumbersInit, SchemaInit, CyclesInit DEF Init, HappensInv
<1>2. HappensInv /\ [Next]_all => HappensInv'
  <2>1. Next => /\ [Application!Next]_applying /\ [Numbers!Next]_numbering
                /\ [Deploys!Next]_deploying /\ [OnePermit!Next]_permitting
    BY DEF Next
  <2>2. UNCHANGED all => UNCHANGED <<applying, numbering, deploying, permitting>>
    BY DEF all
  <2> QED BY <2>1, <2>2, OnePermitStep, NumbersStep, SchemaStep, CyclesStep DEF HappensInv
<1>3. HappensInv => HappensOnce
  BY NumbersHold, SchemaHolds, CyclesHold DEF HappensInv, HappensOnce
<1> QED BY <1>1, <1>2, <1>3, PTL DEF Spec

-----------------------------------------------------------------------------
(* Every failed inspection is booked again.                                *)

\* A request that saw an inspection failed saw one that is booked again, whatever
\* has been recorded on it since.
Rebooked(i) == \E j \in 1 .. Len(inspections) : inspections[j].repeats = i
RecordOf(w, p) ==
  /\ inspectionAsked[p].row \in 1 .. Len(inspections)
  /\ inspectionAsked[p].result \in Visits(w)!Results \cup {"kept"}
  /\ inspectionAsked[p].date \in Visits(w)!Dates \cup {"kept"}
  /\ inspectionAsked[p].was = "failed" => Rebooked(inspectionAsked[p].row)
Most(w) == IF w = "bookings" THEN MaxInspections ELSE 0
VisitRow(w) == [result : Visits(w)!Results, date : Visits(w)!Dates, repeats : 0 .. Most(w)]
BookedInv(w) ==
  /\ inspections \in Seq(VisitRow(w)) /\ Len(inspections) <= Most(w)
  /\ inspectionAsked = [p \in Pair |-> inspectionAsked[p]]
  /\ \A p \in Pair : Visits(w)!Asked(p, "record") => RecordOf(w, p)
  /\ Visits(w)!FailureIsRebooked /\ Visits(w)!CompletedNotFuture

LEMMA BookedInit ==
  ASSUME NEW w \in VisitLooks, Visits(w)!Init PROVE BookedInv(w)
<1>1. inspections = << >> /\ \A p \in Pair : inspectionAsked[p] = None
  BY DEF Visits!Init
<1>2. inspections \in Seq(VisitRow(w)) /\ Len(inspections) = 0 /\ Len(inspections) <= Most(w)
  BY <1>1, CountsAssumption DEF Most
<1>3. Visits(w)!FailureIsRebooked /\ Visits(w)!CompletedNotFuture
  BY <1>2 DEF Visits!FailureIsRebooked, Visits!CompletedNotFuture, Visits!Rows
<1> QED BY <1>1, <1>2, <1>3 DEF Visits!Init, BookedInv, Visits!Asked

\* A new inspection leaves the earlier ones as they are.
LEMMA Appended ==
  ASSUME NEW w \in VisitLooks, NEW s \in Seq(VisitRow(w)), NEW x \in VisitRow(w),
         NEW t, t = Append(s, x)
  PROVE  /\ t \in Seq(VisitRow(w)) /\ Len(t) = Len(s) + 1
         /\ t[Len(t)] = x /\ \A i \in 1 .. Len(s) : t[i] = s[i]
<1> HIDE DEF VisitRow
<1> QED OBVIOUS

LEMMA Changed ==
  ASSUME NEW w \in VisitLooks, NEW s \in Seq(VisitRow(w)), NEW i \in 1 .. Len(s),
         NEW x \in VisitRow(w), NEW t, t = [s EXCEPT ![i] = x]
  PROVE  /\ t \in Seq(VisitRow(w)) /\ Len(t) = Len(s)
         /\ t[i] = x /\ \A j \in 1 .. Len(s) : j # i => t[j] = s[j]
<1> HIDE DEF VisitRow
<1> QED OBVIOUS

LEMMA Scheduled ==
  ASSUME NEW w \in VisitLooks, BookedInv(w), Visits(w)!Schedule PROVE BookedInv(w)'
<1>1. PICK d \in Visits(w)!Dates, i \in {0} \cup Visits(w)!Rows :
        inspections' = Append(inspections, [result |-> "scheduled", date |-> d, repeats |-> i])
  BY DEF Visits!Schedule
<1>2. PICK x : x = [result |-> "scheduled", date |-> d, repeats |-> i]
  OBVIOUS
<1>3. inspections \in Seq(VisitRow(w)) /\ Len(inspections) < Most(w) /\ Len(inspections) \in Nat
  BY DEF BookedInv, Visits!Schedule, Most
<1>4. x \in VisitRow(w) /\ x.result = "scheduled"
  BY <1>2, <1>3, CountsAssumption DEF VisitRow, Visits!Results, Visits!Rows, Most
<1>5. /\ inspections' \in Seq(VisitRow(w)) /\ Len(inspections') = Len(inspections) + 1
      /\ inspections'[Len(inspections')].result = "scheduled"
      /\ \A j \in 1 .. Len(inspections) : inspections'[j] = inspections[j]
  BY <1>1, <1>2, <1>3, <1>4, Appended
<1>6. \A j : Rebooked(j) => Rebooked(j)'
  BY <1>3, <1>5 DEF Rebooked
<1>7. Visits(w)!FailureIsRebooked' /\ Visits(w)!CompletedNotFuture'
  <2>1. \A j \in 1 .. Len(inspections') : j \in 1 .. Len(inspections) \/ j = Len(inspections')
    BY <1>3, <1>5
  <2>2. \A j \in 1 .. Len(inspections) : inspections[j].result = "failed" => Rebooked(j)
    BY DEF BookedInv, Visits!FailureIsRebooked, Visits!Rows, Rebooked
  <2>3. \A j \in 1 .. Len(inspections') : inspections'[j].result = "failed" => Rebooked(j)'
    BY <1>5, <1>6, <2>1, <2>2
  <2>4. Visits(w)!CompletedNotFuture'
    BY <1>5, <2>1 DEF BookedInv, Visits!CompletedNotFuture, Visits!Rows
  <2> QED BY <2>3, <2>4 DEF Visits!FailureIsRebooked, Visits!Rows, Rebooked
<1>8. inspectionAsked' = inspectionAsked
  BY DEF Visits!Schedule
<1>9. \A p \in Pair : Visits(w)!Asked(p, "record")' => RecordOf(w, p)'
  BY <1>3, <1>5, <1>6, <1>8 DEF BookedInv, Visits!Asked, RecordOf
<1>10. Most(w) \in Nat
  BY CountsAssumption DEF Most
<1>11. inspectionAsked' = [p \in Pair |-> inspectionAsked'[p]]
  BY <1>8 DEF BookedInv
<1>12. Len(inspections') <= Most(w)
  BY <1>3, <1>5, <1>10
<1> QED BY <1>5, <1>7, <1>9, <1>11, <1>12, Zenon DEF BookedInv

\* A request other than p's keeps what it has read.
LEMMA AskedKept ==
  ASSUME NEW w \in VisitLooks, BookedInv(w), NEW p \in Pair, NEW x,
         inspectionAsked' = [inspectionAsked EXCEPT ![p] = x],
         inspections' = inspections,
         Visits(w)!Asked(p, "record")' => RecordOf(w, p)'
  PROVE  BookedInv(w)'
<1>1. inspectionAsked' = [q \in Pair |-> inspectionAsked'[q]]
      /\ \A q \in Pair : q # p => inspectionAsked'[q] = inspectionAsked[q]
  BY DEF BookedInv
<1>2. \A q \in Pair : Visits(w)!Asked(q, "record")' => RecordOf(w, q)'
  BY <1>1 DEF BookedInv, Visits!Asked, RecordOf, Rebooked
<1>3. Visits(w)!FailureIsRebooked' /\ Visits(w)!CompletedNotFuture'
  BY DEF BookedInv, Visits!FailureIsRebooked, Visits!CompletedNotFuture, Visits!Rows
<1>4. inspections' \in Seq(VisitRow(w)) /\ Len(inspections') <= Most(w)
  BY DEF BookedInv
<1> QED BY <1>1, <1>2, <1>3, <1>4, Zenon DEF BookedInv

LEMMA RecordRead ==
  ASSUME NEW w \in VisitLooks, BookedInv(w), NEW p \in Pair, NEW i \in Visits(w)!Rows,
         Visits(w)!RecordReads(p, i)
  PROVE  BookedInv(w)'
<1>1. PICK r \in Visits(w)!Results \cup {"kept"}, d \in Visits(w)!Dates \cup {"kept"} :
        Visits(w)!Asks(p, [op |-> "record", row |-> i, was |-> inspections[i].result,
                           result |-> r, date |-> d])
  BY DEF Visits!RecordReads
<1>2. PICK x : x = [op |-> "record", row |-> i, was |-> inspections[i].result,
                    result |-> r, date |-> d]
  OBVIOUS
<1>3. /\ inspectionAsked' = [inspectionAsked EXCEPT ![p] = x] /\ inspections' = inspections
      /\ inspectionAsked'[p] = x
  BY <1>1, <1>2 DEF Visits!Asks, Visits!RecordReads, BookedInv
<1>4. x.row = i /\ x.result = r /\ x.date = d /\ x.was = inspections[i].result
  BY <1>2
<1>5. inspections[i].result = "failed" => Rebooked(i)
  BY DEF BookedInv, Visits!FailureIsRebooked, Visits!Rows, Rebooked
<1>6. RecordOf(w, p)'
  BY <1>3, <1>4, <1>5 DEF RecordOf, Visits!Rows, Rebooked, Visits!Results, Visits!Dates
<1> QED BY <1>3, <1>6, AskedKept

LEMMA DateCame ==
  ASSUME NEW w \in VisitLooks, BookedInv(w), NEW i \in Visits(w)!Rows, Visits(w)!DateComes(i)
  PROVE  BookedInv(w)'
<1>1. PICK x : x = [inspections[i] EXCEPT !.date = "past"]
  OBVIOUS
<1>2. /\ inspections \in Seq(VisitRow(w)) /\ i \in 1 .. Len(inspections)
      /\ inspections[i] \in VisitRow(w)
  BY DEF BookedInv, Visits!Rows
<1>3. /\ x \in VisitRow(w) /\ x.date = "past"
      /\ x.result = inspections[i].result /\ x.repeats = inspections[i].repeats
  BY <1>1, <1>2 DEF VisitRow, Visits!Dates
<1>4. inspections' = [inspections EXCEPT ![i] = x] /\ inspectionAsked' = inspectionAsked
  BY <1>1, <1>2 DEF Visits!DateComes
<1>5. /\ inspections' \in Seq(VisitRow(w)) /\ Len(inspections') = Len(inspections)
      /\ inspections'[i] = x /\ \A j \in 1 .. Len(inspections) : j # i => inspections'[j] = inspections[j]
  BY <1>2, <1>3, <1>4, Changed
<1>6. /\ \A j \in 1 .. Len(inspections) : /\ inspections'[j].repeats = inspections[j].repeats
                                          /\ inspections'[j].result = inspections[j].result
      /\ \A j \in 1 .. Len(inspections) : inspections'[j].date = "future" => inspections[j].date = "future"
  BY <1>3, <1>5
<1>7. \A j : Rebooked(j) <=> Rebooked(j)'
  BY <1>5, <1>6 DEF Rebooked
<1>8. Visits(w)!FailureIsRebooked'
  <2>1. \A j \in 1 .. Len(inspections) : inspections[j].result = "failed" => Rebooked(j)
    BY DEF BookedInv, Visits!FailureIsRebooked, Visits!Rows, Rebooked
  <2>2. \A j \in 1 .. Len(inspections') : inspections'[j].result = "failed" => Rebooked(j)'
    BY <1>5, <1>6, <1>7, <2>1
  <2> QED BY <2>2 DEF Visits!FailureIsRebooked, Visits!Rows, Rebooked
<1>9. Visits(w)!CompletedNotFuture'
  BY <1>5, <1>6 DEF BookedInv, Visits!CompletedNotFuture, Visits!Rows
<1>10. \A p \in Pair : Visits(w)!Asked(p, "record")' => RecordOf(w, p)'
  BY <1>4, <1>5, <1>7 DEF BookedInv, Visits!Asked, RecordOf
<1>11. Len(inspections') <= Most(w) /\ inspectionAsked' = [q \in Pair |-> inspectionAsked'[q]]
  BY <1>4, <1>5 DEF BookedInv
<1> QED BY <1>5, <1>8, <1>9, <1>10, <1>11, Zenon DEF BookedInv

\* What is written of inspection i, and whether the next one is booked with it.
LEMMA RecordWritten ==
  ASSUME NEW w \in VisitLooks, BookedInv(w), NEW p \in Pair, Visits(w)!RecordWrites(p)
  PROVE  BookedInv(w)'
<1>1. PICK q, i : q = inspectionAsked[p] /\ i = inspectionAsked[p].row
  OBVIOUS
<1>2. RecordOf(w, p)
  BY DEF BookedInv, Visits!RecordWrites
<1>3. /\ inspections \in Seq(VisitRow(w)) /\ i \in 1 .. Len(inspections)
      /\ inspections[i] \in VisitRow(w) /\ Len(inspections) \in Nat
  BY <1>1, <1>2 DEF BookedInv, RecordOf
<1>4. PICK new : new = [inspections[i] EXCEPT !.result = Visits(w)!Kept(q.result, @),
                                              !.date = Visits(w)!Kept(q.date, @)]
  OBVIOUS
<1>5. /\ new \in VisitRow(w) /\ new.repeats = inspections[i].repeats
      /\ new.result = Visits(w)!Kept(q.result, inspections[i].result)
  BY <1>1, <1>2, <1>3, <1>4 DEF VisitRow, RecordOf, Visits!Kept
<1>6. PICK updated : updated = [inspections EXCEPT ![i] = new]
  OBVIOUS
<1>7. /\ updated \in Seq(VisitRow(w)) /\ Len(updated) = Len(inspections)
      /\ updated[i] = new /\ \A j \in 1 .. Len(inspections) : j # i => updated[j] = inspections[j]
  BY <1>3, <1>5, <1>6, Changed
<1>8. /\ inspectionAsked' = [inspectionAsked EXCEPT ![p] = None]
      /\ IF ~Visits(w)!DatedRight(new) THEN inspections' = inspections
         ELSE IF Visits(w)!NowFailed(q)
         THEN /\ Len(inspections) < Most(w)
              /\ \E d \in Visits(w)!Dates : inspections' =
                   Append(updated, [result |-> "scheduled", date |-> d, repeats |-> i])
         ELSE inspections' = updated
  BY <1>1, <1>4, <1>6 DEF Visits!RecordWrites, Visits!Answered, Most
<1>9. /\ inspectionAsked' = [r \in Pair |-> inspectionAsked'[r]] /\ ~Visits(w)!Asked(p, "record")'
      /\ \A r \in Pair : r # p => inspectionAsked'[r] = inspectionAsked[r]
  BY <1>8 DEF BookedInv, Visits!Asked
<1>10. CASE ~Visits(w)!DatedRight(new)
  BY <1>8, <1>9, <1>10, AskedKept
<1> HIDE DEF Most
<1>11. \A j \in 1 .. Len(inspections) : inspections[j].result = "failed" => Rebooked(j)
  BY DEF BookedInv, Visits!FailureIsRebooked, Visits!Rows, Rebooked
<1>12. ASSUME Visits(w)!DatedRight(new),
              NEW s, s \in Seq(VisitRow(w)), Len(s) \in Nat, Len(s) >= Len(inspections),
              Len(s) <= Most(w), inspections' = s,
              \A j \in 1 .. Len(inspections) : s[j] = updated[j],
              \A j \in 1 .. Len(s) : j > Len(inspections) => s[j].result = "scheduled",
              new.result = "failed" => Rebooked(i)'
       PROVE  BookedInv(w)'
  <2>1. \A j : Rebooked(j) => Rebooked(j)'
    <3>1. \A k \in 1 .. Len(inspections) : s[k].repeats = inspections[k].repeats /\ k \in 1 .. Len(s)
      BY <1>3, <1>5, <1>7, <1>12
    <3> QED BY <1>12, <3>1 DEF Rebooked
  <2>2. Visits(w)!FailureIsRebooked'
    <3>1. \A j \in 1 .. Len(s) : s[j].result = "failed" => Rebooked(j)'
      BY <1>3, <1>7, <1>11, <1>12, <2>1
    <3> QED BY <1>12, <3>1 DEF Visits!FailureIsRebooked, Visits!Rows, Rebooked
  <2>3. Visits(w)!CompletedNotFuture'
    <3>1. new.result # "scheduled" => new.date # "future"
      BY <1>12 DEF Visits!DatedRight
    <3>2. \A j \in 1 .. Len(inspections) : inspections[j].result # "scheduled" => inspections[j].date # "future"
      BY DEF BookedInv, Visits!CompletedNotFuture, Visits!Rows
    <3>3. \A j \in 1 .. Len(s) : s[j].result # "scheduled" => s[j].date # "future"
      BY <1>3, <1>7, <1>12, <3>1, <3>2
    <3> QED BY <1>12, <3>3 DEF Visits!CompletedNotFuture, Visits!Rows
  <2>4. \A r \in Pair : Visits(w)!Asked(r, "record")' => RecordOf(w, r)'
    <3> SUFFICES ASSUME NEW r \in Pair, Visits(w)!Asked(r, "record")' PROVE RecordOf(w, r)'
      OBVIOUS
    <3>1. inspectionAsked'[r] = inspectionAsked[r] /\ RecordOf(w, r)
      BY <1>9 DEF BookedInv, Visits!Asked
    <3> QED BY <1>3, <1>12, <2>1, <3>1 DEF RecordOf
  <2> QED BY <1>9, <1>12, <2>2, <2>3, <2>4 DEF BookedInv
<1>13. CASE Visits(w)!DatedRight(new) /\ Visits(w)!NowFailed(q)
  <2>1. PICK d \in Visits(w)!Dates :
           inspections' = Append(updated, [result |-> "scheduled", date |-> d, repeats |-> i])
    BY <1>8, <1>13
  <2>2. PICK x : x = [result |-> "scheduled", date |-> d, repeats |-> i]
    OBVIOUS
  <2>3. Len(inspections) < Most(w) /\ Most(w) \in Nat
    BY <1>8, <1>13, CountsAssumption DEF Most
  <2>4. x \in VisitRow(w) /\ x.result = "scheduled" /\ x.repeats = i
    BY <1>3, <2>2, <2>3 DEF VisitRow, Visits!Results
  <2>5. /\ inspections' \in Seq(VisitRow(w)) /\ Len(inspections') = Len(inspections) + 1
        /\ inspections'[Len(inspections')] = x
        /\ \A j \in 1 .. Len(inspections) : inspections'[j] = updated[j]
    BY <1>7, <2>1, <2>2, <2>4, Appended
  <2>6. Rebooked(i)'
    BY <1>3, <2>4, <2>5 DEF Rebooked
  <2>7. \A j \in 1 .. Len(inspections') : j > Len(inspections) => inspections'[j].result = "scheduled"
    BY <1>3, <2>4, <2>5
  <2> QED BY <1>3, <1>12, <1>13, <2>3, <2>5, <2>6, <2>7
<1>14. CASE Visits(w)!DatedRight(new) /\ ~Visits(w)!NowFailed(q)
  <2>1. inspections' = updated
    BY <1>8, <1>14
  <2>2. new.result = "failed" => Rebooked(i)
    <3>1. CASE q.result = "kept"
      BY <1>3, <1>5, <1>11, <3>1 DEF Visits!Kept
    <3>2. CASE q.result # "kept"
      BY <1>1, <1>2, <1>5, <1>14, <3>2 DEF Visits!Kept, Visits!NowFailed, RecordOf
    <3> QED BY <3>1, <3>2
  <2>3. Rebooked(i) => Rebooked(i)'
    BY <1>3, <1>5, <1>7, <2>1 DEF Rebooked
  <2>4. Len(inspections) <= Most(w)
    BY DEF BookedInv
  <2> QED BY <1>3, <1>7, <1>12, <1>14, <2>1, <2>2, <2>3, <2>4
<1> QED BY <1>10, <1>13, <1>14

LEMMA BookedStep ==
  ASSUME NEW w \in VisitLooks, BookedInv(w), Visits(w)!Next PROVE BookedInv(w)'
<1>1. CASE Visits(w)!Schedule
  BY <1>1, Scheduled
<1>2. ASSUME NEW i \in Visits(w)!Rows, Visits(w)!DateComes(i) PROVE BookedInv(w)'
  BY <1>2, DateCame
<1>3. ASSUME NEW i \in Visits(w)!Rows, NEW p \in Pair, Visits(w)!RecordReads(p, i)
      PROVE  BookedInv(w)'
  BY <1>3, RecordRead
<1>4. ASSUME NEW p \in Pair, Visits(w)!RecordWrites(p) PROVE BookedInv(w)'
  BY <1>4, RecordWritten
<1>5. ASSUME NEW p \in Pair, Visits(w)!ResolveWrites(p) PROVE BookedInv(w)'
  <2>1. /\ inspectionAsked' = [inspectionAsked EXCEPT ![p] = None]
        /\ inspections' = inspections
    BY <1>5 DEF Visits!ResolveWrites, Visits!Answered
  <2>2. ~Visits(w)!Asked(p, "record")'
    BY <2>1 DEF Visits!Asked, BookedInv
  <2> QED BY <2>1, <2>2, AskedKept
<1>6. ASSUME NEW p \in Pair, NEW c, Visits(w)!ResolveReads(p, c) PROVE BookedInv(w)'
  <2>1. PICK how : Visits(w)!Asks(p, [op |-> "resolve", of |-> c, how |-> how, read |-> correction[c].at])
    BY <1>6 DEF Visits!ResolveReads
  <2>2. PICK x : x = [op |-> "resolve", of |-> c, how |-> how, read |-> correction[c].at]
    OBVIOUS
  <2>3. /\ inspectionAsked' = [inspectionAsked EXCEPT ![p] = x]
        /\ inspections' = inspections
    BY <1>6, <2>1, <2>2 DEF Visits!ResolveReads, Visits!Asks
  <2>4. ~Visits(w)!Asked(p, "record")'
    BY <2>2, <2>3 DEF Visits!Asked, BookedInv
  <2> QED BY <2>3, <2>4, AskedKept
<1>7. ASSUME NEW c, Visits(w)!Promote(c) PROVE BookedInv(w)'
  BY <1>7 DEF Visits!Promote, BookedInv, Visits!Asked, RecordOf, Rebooked,
     Visits!FailureIsRebooked, Visits!CompletedNotFuture, Visits!Rows
<1> QED BY <1>1, <1>2, <1>3, <1>4, <1>5, <1>6, <1>7 DEF Visits!Next

BookingInv == \E w \in VisitLooks :
  /\ w = which \/ which \notin VisitLooks
  /\ BookedInv(w)

\* "A failure nobody re-books is a permit that quietly stalls": each has its
\* re-inspection, and no result is of the future.
THEOREM FailuresAreRebooked == Spec => []FailureIsRebooked
<1>1. Init => BookingInv
  <2>1. Init => \E w \in VisitLooks : (w = which \/ which \notin VisitLooks) /\ Visits(w)!Init
    BY DEF Init
  <2> QED BY <2>1, BookedInit DEF BookingInv
<1>2. BookingInv /\ [Next]_all => BookingInv'
  <2> SUFFICES ASSUME BookingInv, [Next]_all PROVE BookingInv'
    OBVIOUS
  <2>1. PICK w \in VisitLooks : (w = which \/ which \notin VisitLooks) /\ BookedInv(w)
    BY DEF BookingInv
  <2>2. which' = which
    BY DEF Next, all
  <2>3. CASE UNCHANGED inspecting
    BY <2>1, <2>2, <2>3 DEF BookingInv, inspecting, BookedInv, Visits!Asked, RecordOf, Rebooked,
       Visits!FailureIsRebooked, Visits!CompletedNotFuture, Visits!Rows
  <2>4. CASE which = w /\ Visits(w)!Next
    BY <2>1, <2>2, <2>4, BookedStep DEF BookingInv
  <2> QED BY <2>1, <2>3, <2>4 DEF Next, all
<1>3. BookingInv => FailureIsRebooked
  BY DEF BookingInv, FailureIsRebooked, BookedInv, VisitLooks
<1> QED BY <1>1, <1>2, <1>3, PTL DEF Spec

-----------------------------------------------------------------------------
(* What a person decided is what the system goes by.                       *)

LEMMA ReviewedInit == Jurisdiction!Init => Jurisdiction!NothingUnreviewed
  BY DEF Jurisdiction!Init, Jurisdiction!NothingUnreviewed

LEMMA ReviewedStep ==
  Jurisdiction!NothingUnreviewed /\ [Jurisdiction!Next]_onboarding
    => Jurisdiction!NothingUnreviewed'
<1> SUFFICES ASSUME Jurisdiction!NothingUnreviewed, [Jurisdiction!Next]_onboarding
             PROVE  Jurisdiction!NothingUnreviewed'
  OBVIOUS
<1> USE DEF Jurisdiction!NothingUnreviewed
<1>1. ASSUME NEW a, NEW op, Jurisdiction!Reads(a, op) PROVE Jurisdiction!NothingUnreviewed'
  BY <1>1 DEF Jurisdiction!Reads
<1>2. ASSUME NEW a, Jurisdiction!Configure(a) PROVE Jurisdiction!NothingUnreviewed'
  BY <1>2, Zenon DEF Jurisdiction!Configure, Jurisdiction!Asked
<1>3. ASSUME NEW a, Jurisdiction!Connect(a) PROVE Jurisdiction!NothingUnreviewed'
  BY <1>3 DEF Jurisdiction!Connect, Jurisdiction!Asked
<1>4. ASSUME NEW a, Jurisdiction!Verify(a) PROVE Jurisdiction!NothingUnreviewed'
  BY <1>4, Zenon DEF Jurisdiction!Verify, Jurisdiction!Asked
<1>5. ASSUME NEW on \in BOOLEAN, Jurisdiction!Switch(on) PROVE Jurisdiction!NothingUnreviewed'
  BY <1>5, Zenon DEF Jurisdiction!Switch, Jurisdiction!CheckAllows
<1>6. ASSUME NEW n \in BOOLEAN, NEW ok \in BOOLEAN, Jurisdiction!Correct(n, ok)
      PROVE  Jurisdiction!NothingUnreviewed'
  BY <1>6, Zenon DEF Jurisdiction!Correct
<1>7. CASE UNCHANGED onboarding
  BY <1>7 DEF onboarding
<1> QED BY <1>1, <1>2, <1>3, <1>4, <1>5, <1>6, <1>7, Zenon DEF Jurisdiction!Next

\* As long as staff have not said otherwise since, whom a ticket waits for follows
\* from who has spoken, and it is not resolved.
TurnInv ==
  /\ support = [t \in Pair |-> support[t]] /\ said = [t \in Pair |-> said[t]]
  /\ resolved \subseteq triaged
  /\ \A t \in Pair \ triaged :
       /\ support[t] = "waiting_client" => "STAFF" \in said[t]
       /\ support[t] = "in_progress" => "CLIENT" \in said[t]
       /\ support[t] # "resolved"

LEMMA TurnInit == Support!Init => TurnInv
  BY DEF Support!Init, TurnInv

LEMMA TurnWritten ==
  ASSUME TurnInv, NEW t, NEW role \in {"CLIENT", "STAFF"},
         NEW internal \in BOOLEAN, NEW opening \in BOOLEAN,
         Support!Written(t, role, internal, opening)
  PROVE  TurnInv'
<1>1. CASE Support!Moves(internal, opening)
  <2>1. ~internal /\ ~opening
    BY <1>1 DEF Support!Moves
  <2>2. /\ support' = [support EXCEPT ![t] =
                         IF role = "CLIENT" THEN "in_progress" ELSE "waiting_client"]
        /\ resolved' = resolved \ {t} /\ triaged' = triaged \ {t}
        /\ said' = [said EXCEPT ![t] = @ \cup {role}]
    BY <1>1, <2>1 DEF Support!Written
  <2> QED BY <2>2 DEF TurnInv
<1>2. CASE ~Support!Moves(internal, opening)
  <2>1. /\ support' = [support EXCEPT ![t] = IF opening THEN "open" ELSE support[t]]
        /\ resolved' = resolved /\ triaged' = triaged
        /\ said' = [said EXCEPT ![t] = IF internal THEN @
                                       ELSE @ \cup {IF opening THEN "opening" ELSE role}]
    BY <1>2 DEF Support!Written
  <2>2. \A u \in Pair : said[u] \subseteq said'[u] /\ support'[u] \in {support[u], "open"}
    BY <2>1 DEF TurnInv
  <2>3. support' = [u \in Pair |-> support'[u]] /\ said' = [u \in Pair |-> said'[u]]
    BY <2>1 DEF TurnInv
  <2> QED BY <2>1, <2>2, <2>3 DEF TurnInv
<1> QED BY <1>1, <1>2

LEMMA TurnStep == TurnInv /\ [Support!Next]_supporting => TurnInv'
<1> SUFFICES ASSUME TurnInv, [Support!Next]_supporting PROVE TurnInv'
  OBVIOUS
<1>1. ASSUME NEW t \in Pair, NEW role \in Support!Roles, Support!Open(t, role) PROVE TurnInv'
  BY <1>1, TurnWritten DEF Support!Open, Support!Roles
<1>2. ASSUME NEW t \in Pair, NEW role \in Support!Roles, NEW i \in BOOLEAN,
             Support!Reply(t, role, i)
      PROVE  TurnInv'
  <2>1. (i /\ role = "STAFF") \in BOOLEAN
    OBVIOUS
  <2> QED BY <1>2, <2>1, TurnWritten DEF Support!Reply, Support!Roles
<1>3. ASSUME NEW t \in Pair, NEW s, Support!Triage(t, s) PROVE TurnInv'
  BY <1>3 DEF Support!Triage, TurnInv
<1>4. ASSUME NEW c \in Pair, Support!MessageReads(c) PROVE TurnInv'
  BY <1>4 DEF Support!MessageReads, TurnInv
<1>5. ASSUME NEW c \in Pair, NEW role \in Support!Roles, Support!MessageWrites(c, role)
      PROVE  TurnInv'
  <2>1. \/ \E t : Support!Written(t, role, FALSE, TRUE)
        \/ Support!Written(found[c], role, FALSE, FALSE)
    BY <1>5 DEF Support!MessageWrites
  <2> QED BY <2>1, TurnWritten DEF Support!Roles
<1>6. CASE UNCHANGED supporting
  BY <1>6 DEF supporting, TurnInv
<1> QED BY <1>1, <1>2, <1>3, <1>4, <1>5, <1>6 DEF Support!Next

LEMMA TurnHolds == TurnInv => Support!TurnWasTaken
  BY DEF TurnInv, Support!TurnWasTaken, Support!Live

\* The certificates: a decision, a date and a limit for each kind.
KindsOf(w) == IF w = "liability" THEN {"GENERAL_LIABILITY"}
              ELSE {"WORKERS_COMP", "WORKERS_COMP_EXEMPTION"}
CoverRow(w) == [decision : Certificate(w)!Decision, expires : 0 .. Days, low : BOOLEAN]

LEMMA CoverTyped ==
  ASSUME NEW w \in CoverLooks
  PROVE  Certificate(w)!TypeOK <=>
           /\ item \in [KindsOf(w) -> CoverRow(w)]
           /\ hold \in BOOLEAN /\ permits \in 0 .. MaxPermits
           /\ filing \in [Single -> BOOLEAN]
           /\ today \in 1 .. Days /\ evening \in BOOLEAN
  BY DEF Certificate!TypeOK, KindsOf, CoverRow

LEMMA CoverInit ==
  ASSUME NEW w \in CoverLooks, Certificate(w)!Init PROVE Certificate(w)!TypeOK
<1>1. [decision |-> "none", expires |-> 0, low |-> FALSE] \in CoverRow(w)
  BY DaysAssumption DEF CoverRow, Certificate!Decision
<1>2. item \in [KindsOf(w) -> CoverRow(w)]
  BY <1>1, Zenon DEF Certificate!Init, KindsOf
<1>3. filing \in [Single -> BOOLEAN] /\ hold \in BOOLEAN /\ evening \in BOOLEAN
  BY Zenon DEF Certificate!Init
<1>4. permits \in 0 .. MaxPermits /\ today \in 1 .. Days
  BY DaysAssumption DEF Certificate!Init
<1> QED BY <1>2, <1>3, <1>4, CoverTyped, Zenon

\* A certificate's row after a step.
LEMMA CoverWritten ==
  ASSUME NEW w \in CoverLooks, Certificate(w)!TypeOK, NEW k \in KindsOf(w),
         NEW x \in CoverRow(w), item' = [item EXCEPT ![k] = x],
         UNCHANGED <<hold, permits, filing, today, evening>>
  PROVE  Certificate(w)!TypeOK'
<1>1. item \in [KindsOf(w) -> CoverRow(w)]
  BY CoverTyped, Zenon
<1> HIDE DEF CoverRow, KindsOf
<1>2. item' \in [KindsOf(w) -> CoverRow(w)]
  BY <1>1
<1>3. /\ hold' \in BOOLEAN /\ permits' \in 0 .. MaxPermits
      /\ filing' \in [Single -> BOOLEAN]
      /\ today' \in 1 .. Days /\ evening' \in BOOLEAN
  BY CoverTyped, Zenon
<1> QED BY <1>2, <1>3, Zenon DEF Certificate!TypeOK, KindsOf, CoverRow

LEMMA CoverStep ==
  ASSUME NEW w \in CoverLooks, Certificate(w)!TypeOK, Certificate(w)!Next
  PROVE  Certificate(w)!TypeOK'
<1> DEFINE Kinds == KindsOf(w)
<1>0. /\ item \in [KindsOf(w) -> CoverRow(w)]
      /\ hold \in BOOLEAN /\ permits \in 0 .. MaxPermits
      /\ filing \in [Single -> BOOLEAN]
      /\ today \in 1 .. Days /\ evening \in BOOLEAN
  BY CoverTyped, Zenon
<1>1. ASSUME NEW k \in Kinds, NEW expires \in 0 .. Days, NEW low \in BOOLEAN,
             Certificate(w)!Record(k, expires, low)
      PROVE  Certificate(w)!TypeOK'
  <2>1. [decision |-> "pending_review", expires |-> expires, low |-> low] \in CoverRow(w)
    BY DEF CoverRow, Certificate!Decision
  <2> QED BY <1>1, <2>1, CoverWritten, Zenon DEF Certificate!Record
<1>2. ASSUME NEW k \in Kinds, NEW decision \in Certificate(w)!Decision, NEW expires \in 0 .. Days,
             Certificate(w)!Review(k, decision, expires)
      PROVE  Certificate(w)!TypeOK'
  <2>1. PICK x : x = [item[k] EXCEPT !.decision = decision,
                                     !.expires = IF expires = 0 THEN @ ELSE expires]
    OBVIOUS
  <2>2. PICK day \in 0 .. Days : day = IF expires = 0 THEN item[k].expires ELSE expires
    BY <1>0 DEF CoverRow
  <2>3. x = [item[k] EXCEPT !.decision = decision, !.expires = day]
    BY <2>1, <2>2
  <2>4. item[k] \in CoverRow(w)
    BY <1>0
  <2>5. x \in CoverRow(w)
    BY <2>3, <2>4, Zenon DEF CoverRow
  <2>6. item' = [item EXCEPT ![k] = x] /\ UNCHANGED <<hold, permits, filing, today, evening>>
    BY <1>2, <2>1, <1>0 DEF Certificate!Review
  <2> QED BY <2>5, <2>6, CoverWritten
<1>3. ASSUME NEW k \in Kinds, Certificate(w)!Waive(k) PROVE Certificate(w)!TypeOK'
  <2>1. PICK x : x = [item[k] EXCEPT !.decision = "waived"]
    OBVIOUS
  <2>2. item[k] \in CoverRow(w) /\ "waived" \in Certificate(w)!Decision
    BY <1>0 DEF Certificate!Decision
  <2>3. x \in CoverRow(w)
    BY <2>1, <2>2, Zenon DEF CoverRow
  <2>4. item' = [item EXCEPT ![k] = x] /\ UNCHANGED <<hold, permits, filing, today, evening>>
    BY <1>3, <2>1, <1>0 DEF Certificate!Waive
  <2> QED BY <2>3, <2>4, CoverWritten
<1>4. ASSUME NEW on \in BOOLEAN, Certificate(w)!SetHold(on) PROVE Certificate(w)!TypeOK'
  BY <1>0, <1>4, CoverTyped, Zenon DEF Certificate!SetHold, Certificate!TypeOK
<1>5. ASSUME NEW c \in Single, NEW managed \in BOOLEAN, NEW defensible \in BOOLEAN,
             Certificate(w)!FileReads(c, managed, defensible)
      PROVE  Certificate(w)!TypeOK'
  <2>1. filing' \in [Single -> BOOLEAN]
    BY <1>0, <1>5, Zenon DEF Certificate!FileReads
  <2> QED BY <1>0, <1>5, <2>1, Zenon DEF Certificate!FileReads, Certificate!TypeOK
<1>6. ASSUME NEW c \in Single, Certificate(w)!FileInserts(c) PROVE Certificate(w)!TypeOK'
  <2>1. filing' \in [Single -> BOOLEAN]
    BY <1>0, <1>6, Zenon DEF Certificate!FileInserts
  <2>2. permits' \in 0 .. MaxPermits
    BY <1>0, <1>6, DaysAssumption DEF Certificate!FileInserts
  <2> QED BY <1>0, <1>6, <2>1, <2>2, Zenon DEF Certificate!FileInserts, Certificate!TypeOK
<1>7. CASE Certificate(w)!Start
  <2>2. permits' \in 0 .. MaxPermits
    BY <1>0, <1>7, DaysAssumption DEF Certificate!Start
  <2> QED BY <1>0, <1>7, <2>2, Zenon DEF Certificate!Start, Certificate!TypeOK
<1>8. CASE Certificate(w)!TimePasses
  <2>1. evening' \in BOOLEAN
    BY <1>8, Zenon DEF Certificate!TimePasses
  <2>2. today' \in 1 .. Days
    BY <1>0, <1>8, DaysAssumption DEF Certificate!TimePasses
  <2> QED BY <1>0, <1>8, <2>1, <2>2, Zenon DEF Certificate!TimePasses, Certificate!TypeOK
<1>9. \/ \E k \in Kinds :
           \/ \E expires \in 0 .. Days, low \in BOOLEAN : Certificate(w)!Record(k, expires, low)
           \/ \E decision \in Certificate(w)!Decision, expires \in 0 .. Days :
                Certificate(w)!Review(k, decision, expires)
           \/ Certificate(w)!Waive(k)
      \/ \E on \in BOOLEAN : Certificate(w)!SetHold(on)
      \/ \E c \in Single : \/ \E managed, defensible \in BOOLEAN :
                                Certificate(w)!FileReads(c, managed, defensible)
                           \/ Certificate(w)!FileInserts(c)
      \/ Certificate(w)!Start \/ Certificate(w)!TimePasses
  BY Zenon DEF Certificate!Next, KindsOf
<1> HIDE DEF Kinds
<1> QED BY <1>1, <1>2, <1>3, <1>4, <1>5, <1>6, <1>7, <1>8, <1>9, Zenon

\* What the route takes for cleared, the database does: a date that the driver hands
\* back a day early is not yet past in either.
LEMMA CoverHolds ==
  ASSUME NEW w \in CoverLooks, Certificate(w)!TypeOK PROVE Certificate(w)!ClearedIsCovered
<1>1. /\ item \in [KindsOf(w) -> CoverRow(w)] /\ today \in Int
  BY CoverTyped, DaysAssumption
<1>2. ASSUME NEW k \in KindsOf(w), Certificate(w)!Valid(k) PROVE Certificate(w)!Counts(k)
  <2>1. item[k].expires \in Int
    BY <1>1 DEF CoverRow
  <2>2. Certificate(w)!CurrentDate \in {today, today + 1}
    BY DEF Certificate!CurrentDate
  <2> QED BY <1>1, <1>2, <2>1, <2>2 DEF Certificate!Valid, Certificate!DriverDay, Certificate!Counts
<1>3. ASSUME NEW k \in Certificate(w)!Blocking, Certificate(w)!Satisfied(k)
      PROVE  Certificate(w)!Counts(k) \/ (k = "WORKERS_COMP" /\ Certificate(w)!Counts("WORKERS_COMP_EXEMPTION"))
  <2>1. k \in KindsOf(w) /\ (k = "WORKERS_COMP" => "WORKERS_COMP_EXEMPTION" \in KindsOf(w))
    BY DEF Certificate!Blocking, KindsOf
  <2> QED BY <1>2, <1>3, <2>1 DEF Certificate!Satisfied
<1> QED BY <1>3 DEF Certificate!ClearedIsCovered, Certificate!ClearedToFile, Certificate!CanFileFor

\* An account once claimed stays so, and a link for a new password is of one.
RequestTyped(a) ==
  LET r == accountAsked[a] IN
  /\ AccountsOf!Asks(a, "forgot") => AccountsOf!Claimed(a)
  /\ AccountsOf!Asks(a, "invite") =>
       /\ r.to \in Users /\ r.role \in AccountsOf!Roles /\ r.company \in Employers \cup {None}
       /\ r.clientAdmin \in BOOLEAN
  /\ AccountsOf!Asks(a, "user") =>
       /\ r.locks \in Users /\ AccountsOf!Exists(r.locks)
       /\ r.role \in AccountsOf!Roles /\ r.active \in BOOLEAN
  /\ AccountsOf!Asks(a, "role") =>
       /\ r.locks \in Users /\ AccountsOf!Exists(r.locks)
       /\ r.role \in AccountsOf!Roles /\ r.company \in Employers \cup {None}
  /\ AccountsOf!Asks(a, "team_invite") =>
       r.to \in Users /\ r.company \in Employers /\ r.clientAdmin \in BOOLEAN
  /\ AccountsOf!Asks(a, "team") =>
       /\ r.locks \in Users /\ AccountsOf!Exists(r.locks)
       /\ r.active \in BOOLEAN /\ r.clientAdmin \in BOOLEAN
RowsInv ==
  /\ account \in [Users -> AccountsOf!Row \cup {None}]
  /\ AccountsOf!ResetIsForClaimed
ClaimInv ==
  /\ RowsInv
  /\ accountAsked = [u \in Users |-> accountAsked[u]]
  /\ \A u \in Users : RequestTyped(u)

\* The fields of a row, and the rows that changing some of them makes.
LEMMA RowFields ==
  ASSUME NEW r \in AccountsOf!Row
  PROVE  /\ r.role \in AccountsOf!Roles /\ r.company \in Employers \cup {None}
         /\ r.clientAdmin \in BOOLEAN /\ r.active \in BOOLEAN /\ r.password \in 0 .. 2
         /\ r.invited \in BOOLEAN /\ r.reset \in BOOLEAN
<1> HIDE DEF AccountsOf!Roles
<1> QED BY Zenon DEF AccountsOf!Row

LEMMA RowMade ==
  ASSUME NEW role \in AccountsOf!Roles, NEW c \in Employers \cup {None}, NEW admin \in BOOLEAN,
         NEW on \in BOOLEAN, NEW p \in 0 .. 2, NEW i \in BOOLEAN, NEW x \in BOOLEAN
  PROVE  [role |-> role, company |-> c, clientAdmin |-> admin, active |-> on, password |-> p,
          invited |-> i, reset |-> x] \in AccountsOf!Row
<1> HIDE DEF AccountsOf!Roles
<1> QED BY Zenon DEF AccountsOf!Row

LEMMA RowOfUser ==
  ASSUME NEW r \in AccountsOf!Row, NEW role \in AccountsOf!Roles, NEW on \in BOOLEAN
  PROVE  LET row == [r EXCEPT !.role = role, !.active = on]
         IN row \in AccountsOf!Row /\ row.password = r.password /\ row.reset = r.reset
<1> HIDE DEF AccountsOf!Roles
<1>1. [r EXCEPT !.role = role, !.active = on] \in AccountsOf!Row
  BY Zenon DEF AccountsOf!Row
<1>2. "password" \in DOMAIN r /\ "reset" \in DOMAIN r
  BY DEF AccountsOf!Row
<1>3. /\ [r EXCEPT !.role = role, !.active = on].password = r.password
      /\ [r EXCEPT !.role = role, !.active = on].reset = r.reset
  BY <1>2
<1> QED BY <1>1, <1>3, Zenon

WithRole(r, role, c) == [r EXCEPT !.role = role, !.company = c]
LEMMA RowOfRole ==
  ASSUME NEW r \in AccountsOf!Row, NEW role \in AccountsOf!Roles, NEW c \in Employers \cup {None}
  PROVE  /\ WithRole(r, role, c) \in AccountsOf!Row
         /\ WithRole(r, role, c).password = r.password /\ WithRole(r, role, c).reset = r.reset
<1> HIDE DEF AccountsOf!Roles
<1>1. WithRole(r, role, c) \in AccountsOf!Row
  BY Zenon DEF AccountsOf!Row, WithRole
<1>2. "password" \in DOMAIN r /\ "reset" \in DOMAIN r
  BY DEF AccountsOf!Row
<1>3. /\ WithRole(r, role, c).password = r.password
      /\ WithRole(r, role, c).reset = r.reset
  BY <1>2 DEF WithRole
<1> QED BY <1>1, <1>3

LEMMA RowOfTeam ==
  ASSUME NEW r \in AccountsOf!Row, NEW on \in BOOLEAN, NEW admin \in BOOLEAN
  PROVE  LET row == [r EXCEPT !.active = on, !.clientAdmin = admin]
         IN row \in AccountsOf!Row /\ row.password = r.password /\ row.reset = r.reset
<1> HIDE DEF AccountsOf!Roles
<1>1. [r EXCEPT !.active = on, !.clientAdmin = admin] \in AccountsOf!Row
  BY Zenon DEF AccountsOf!Row
<1>2. "password" \in DOMAIN r /\ "reset" \in DOMAIN r
  BY DEF AccountsOf!Row
<1>3. /\ [r EXCEPT !.active = on, !.clientAdmin = admin].password = r.password
      /\ [r EXCEPT !.active = on, !.clientAdmin = admin].reset = r.reset
  BY <1>2
<1> QED BY <1>1, <1>3, Zenon

LEMMA RowClaimed ==
  ASSUME NEW r \in AccountsOf!Row, NEW p \in 0 .. 2
  PROVE  /\ [r EXCEPT !.password = p, !.invited = FALSE, !.active = TRUE] \in AccountsOf!Row
         /\ [r EXCEPT !.password = p, !.invited = FALSE, !.active = TRUE].password = p
         /\ [r EXCEPT !.password = p, !.reset = FALSE] \in AccountsOf!Row
         /\ [r EXCEPT !.password = p, !.reset = FALSE].password = p
         /\ [r EXCEPT !.reset = TRUE] \in AccountsOf!Row
         /\ [r EXCEPT !.reset = TRUE].password = r.password
         /\ [r EXCEPT !.invited = TRUE, !.active = TRUE] \in AccountsOf!Row
         /\ [r EXCEPT !.invited = TRUE, !.active = TRUE].password = r.password
         /\ [r EXCEPT !.invited = TRUE, !.active = TRUE].reset = r.reset
<1> HIDE DEF AccountsOf!Roles
<1>1. [r EXCEPT !.password = p, !.invited = FALSE, !.active = TRUE] \in AccountsOf!Row
  BY Zenon DEF AccountsOf!Row
<1>2. [r EXCEPT !.password = p, !.reset = FALSE] \in AccountsOf!Row
  BY Zenon DEF AccountsOf!Row
<1>3. [r EXCEPT !.reset = TRUE] \in AccountsOf!Row
  BY Zenon DEF AccountsOf!Row
<1>4. [r EXCEPT !.invited = TRUE, !.active = TRUE] \in AccountsOf!Row
  BY Zenon DEF AccountsOf!Row
<1>5. "password" \in DOMAIN r /\ "reset" \in DOMAIN r
  BY DEF AccountsOf!Row
<1>6. /\ [r EXCEPT !.password = p, !.invited = FALSE, !.active = TRUE].password = p
      /\ [r EXCEPT !.password = p, !.reset = FALSE].password = p
      /\ [r EXCEPT !.reset = TRUE].password = r.password
      /\ [r EXCEPT !.invited = TRUE, !.active = TRUE].password = r.password
      /\ [r EXCEPT !.invited = TRUE, !.active = TRUE].reset = r.reset
  BY <1>5
<1> QED BY <1>1, <1>2, <1>3, <1>4, <1>6, Zenon

LEMMA ClaimInit == AccountsOf!Init => ClaimInv
<1> SUFFICES ASSUME AccountsOf!Init PROVE ClaimInv
  OBVIOUS
<1>1. PICK firm \in SUBSET Users, team \in SUBSET Users :
        account = [u \in Users |-> CASE u \in firm -> AccountsOf!Staffed(u, "ADMIN")
                                     [] u \in team -> AccountsOf!Staffed(u, "CLIENT")
                                     [] OTHER -> None]
  BY DEF AccountsOf!Init
<1>2. \A u \in Users, role \in AccountsOf!Roles :
        /\ AccountsOf!Staffed(u, role) \in AccountsOf!Row
        /\ AccountsOf!Staffed(u, role).reset = FALSE
  <2> SUFFICES ASSUME NEW u \in Users, NEW role \in AccountsOf!Roles
               PROVE  /\ AccountsOf!Staffed(u, role) \in AccountsOf!Row
                      /\ AccountsOf!Staffed(u, role).reset = FALSE
    OBVIOUS
  <2>1. (CHOOSE c \in Employers : TRUE) \in Employers
    BY AccountsAssumption
  <2>2. PICK c \in Employers \cup {None} :
          c = IF role = "CLIENT" THEN CHOOSE d \in Employers : TRUE ELSE None
    BY <2>1
  <2>3. PICK b \in BOOLEAN : b = (role = "CLIENT")
    OBVIOUS
  <2> DEFINE row == [role |-> role, company |-> c, clientAdmin |-> b, active |-> TRUE,
                     password |-> 1, invited |-> FALSE, reset |-> FALSE]
  <2>4. AccountsOf!Staffed(u, role) = row
    BY <2>2, <2>3, Zenon DEF AccountsOf!Staffed
  <2>5. role \in AccountsOf!Roles /\ TRUE \in BOOLEAN /\ FALSE \in BOOLEAN /\ 1 \in 0 .. 2
    OBVIOUS
  <2>6. row \in AccountsOf!Row
    BY <2>5, RowMade
  <2>7. row.reset = FALSE
    OBVIOUS
  <2> HIDE DEF row
  <2> QED BY <2>4, <2>6, <2>7
<1>3. \A u \in Users : account[u] = None \/ (account[u] \in AccountsOf!Row /\ account[u].reset = FALSE)
  BY <1>1, <1>2 DEF AccountsOf!Roles
<1>4. RowsInv
  BY <1>1, <1>3 DEF RowsInv, AccountsOf!ResetIsForClaimed, AccountsOf!Exists
<1>5. accountAsked = [u \in Users |-> accountAsked[u]] /\ \A u \in Users : RequestTyped(u)
  BY DEF AccountsOf!Init, RequestTyped, AccountsOf!Asks
<1> QED BY <1>4, <1>5 DEF ClaimInv

\* What is written of an account keeps it and its claim.
LEMMA AccountWritten ==
  ASSUME RowsInv, NEW v \in Users, NEW row \in AccountsOf!Row,
         account' = [account EXCEPT ![v] = row],
         AccountsOf!Claimed(v) => row.password > 0,
         row.reset => row.password > 0
  PROVE  /\ RowsInv'
         /\ \A u \in Users : AccountsOf!Exists(u) => AccountsOf!Exists(u)'
         /\ \A u \in Users : AccountsOf!Claimed(u) => AccountsOf!Claimed(u)'
<1>1. /\ account' \in [Users -> AccountsOf!Row \cup {None}]
      /\ account'[v] = row /\ \A u \in Users : u # v => account'[u] = account[u]
  <2> HIDE DEF AccountsOf!Row
  <2> QED BY DEF RowsInv
<1>2. row # None
  BY AccountsAssumption
<1>3. \A u \in Users : AccountsOf!Exists(u) => AccountsOf!Exists(u)'
  BY <1>1, <1>2 DEF AccountsOf!Exists
<1>4. \A u \in Users : AccountsOf!Claimed(u) => AccountsOf!Claimed(u)'
  BY <1>1, <1>2 DEF AccountsOf!Exists, AccountsOf!Claimed
<1>5. AccountsOf!ResetIsForClaimed'
  <2>1. \A u \in Users : u # v => (AccountsOf!Exists(u)' /\ account'[u].reset => AccountsOf!Claimed(u)')
    BY <1>1 DEF RowsInv, AccountsOf!ResetIsForClaimed, AccountsOf!Exists, AccountsOf!Claimed
  <2>2. account'[v].reset => AccountsOf!Claimed(v)'
    BY <1>1, <1>2 DEF AccountsOf!Exists, AccountsOf!Claimed
  <2> QED BY <2>1, <2>2, Zenon DEF AccountsOf!ResetIsForClaimed
<1> QED BY <1>1, <1>3, <1>4, <1>5, Zenon DEF RowsInv

\* What a request has read stays true of the accounts while others write them.
LEMMA RequestsStand ==
  ASSUME ClaimInv, RowsInv', NEW u \in Users, NEW x,
         accountAsked' = [accountAsked EXCEPT ![u] = x], RequestTyped(u)',
         \A v \in Users : AccountsOf!Exists(v) => AccountsOf!Exists(v)',
         \A v \in Users : AccountsOf!Claimed(v) => AccountsOf!Claimed(v)'
  PROVE  ClaimInv'
<1>1. accountAsked' = [v \in Users |-> accountAsked'[v]]
      /\ \A v \in Users : v # u => accountAsked'[v] = accountAsked[v]
  BY DEF ClaimInv
<1>2. ASSUME NEW v \in Users, v # u PROVE RequestTyped(v)'
  <2>1. RequestTyped(v) /\ accountAsked'[v] = accountAsked[v]
    BY <1>1, <1>2 DEF ClaimInv
  <2> QED BY <2>1 DEF RequestTyped, AccountsOf!Asks
<1> QED BY <1>1, <1>2 DEF ClaimInv

LEMMA AccountAsks ==
  ASSUME ClaimInv, NEW u \in Users, NEW x, AccountsOf!Ask(u, x),
         (accountAsked'[u] = x) => RequestTyped(u)'
  PROVE  ClaimInv'
<1>1. /\ accountAsked' = [accountAsked EXCEPT ![u] = x] /\ account' = account
      /\ accountAsked'[u] = x
  BY DEF ClaimInv, AccountsOf!Ask
<1>2. RowsInv'
  BY <1>1, Zenon DEF ClaimInv, RowsInv, AccountsOf!ResetIsForClaimed, AccountsOf!Exists, AccountsOf!Claimed
<1>3. \A v \in Users : /\ AccountsOf!Exists(v) => AccountsOf!Exists(v)'
                       /\ AccountsOf!Claimed(v) => AccountsOf!Claimed(v)'
  BY <1>1 DEF AccountsOf!Exists, AccountsOf!Claimed
<1> QED BY <1>1, <1>2, <1>3, RequestsStand

LEMMA AccountAnswers ==
  ASSUME ClaimInv, NEW u \in Users, NEW v \in Users, NEW row \in AccountsOf!Row,
         AccountsOf!Answer(u, v, row),
         AccountsOf!Claimed(v) => row.password > 0, row.reset => row.password > 0
  PROVE  ClaimInv'
<1>1. /\ accountAsked' = [accountAsked EXCEPT ![u] = None]
      /\ account' = [account EXCEPT ![v] = row]
  BY DEF AccountsOf!Answer
<1>2. RequestTyped(u)'
  BY <1>1 DEF ClaimInv, RequestTyped, AccountsOf!Asks
<1> QED BY <1>1, <1>2, AccountWritten, RequestsStand DEF ClaimInv

LEMMA AccountUpdates ==
  ASSUME ClaimInv, NEW v \in Users, NEW row \in AccountsOf!Row,
         account' = [account EXCEPT ![v] = row], accountAsked' = accountAsked,
         AccountsOf!Claimed(v) => row.password > 0, row.reset => row.password > 0
  PROVE  ClaimInv'
<1>1. /\ RowsInv'
      /\ \A u \in Users : AccountsOf!Exists(u) => AccountsOf!Exists(u)'
      /\ \A u \in Users : AccountsOf!Claimed(u) => AccountsOf!Claimed(u)'
  BY AccountWritten DEF ClaimInv
<1>2. ASSUME NEW u \in Users PROVE RequestTyped(u)'
  <2>1. RequestTyped(u)
    BY DEF ClaimInv
  <2> QED BY <1>1, <2>1 DEF RequestTyped, AccountsOf!Asks
<1> QED BY <1>1, <1>2 DEF ClaimInv

LEMMA RowThere ==
  ASSUME ClaimInv, NEW u \in Users, AccountsOf!Exists(u)
  PROVE  account[u] \in AccountsOf!Row /\ (account[u].reset => account[u].password > 0)
<1> HIDE DEF AccountsOf!Row
<1> QED BY DEF ClaimInv, RowsInv, AccountsOf!ResetIsForClaimed, AccountsOf!Exists, AccountsOf!Claimed

LEMMA ClaimSetup ==
  ASSUME ClaimInv, NEW u \in Users, AccountsOf!SetupAsks(u) \/ AccountsOf!SetupCreates(u)
  PROVE  ClaimInv'
<1>1. CASE AccountsOf!SetupAsks(u)
  <2>1. AccountsOf!Ask(u, [op |-> "setup"])
    BY <1>1 DEF AccountsOf!SetupAsks
  <2>2. (accountAsked'[u] = [op |-> "setup"]) => RequestTyped(u)'
    BY DEF RequestTyped, AccountsOf!Asks
  <2> QED BY <2>1, <2>2, AccountAsks
<1>2. CASE AccountsOf!SetupCreates(u)
  <2>1. PICK p \in 0 .. 2 :
          /\ p = IF AccountsOf!Exists(u) THEN AccountsOf!Another(account[u].password) ELSE 1
          /\ p > 0
    BY DEF AccountsOf!Another
  <2>2. PICK c \in Employers \cup {None} :
          c = IF AccountsOf!Exists(u) THEN account[u].company ELSE None
    BY RowThere, RowFields
  <2>3. PICK b \in BOOLEAN : b = (AccountsOf!Exists(u) /\ account[u].clientAdmin)
    OBVIOUS
  <2>4. PICK x \in BOOLEAN : x = (AccountsOf!Exists(u) /\ account[u].reset)
    OBVIOUS
  <2> DEFINE row == [role |-> "ADMIN", company |-> c, clientAdmin |-> b, active |-> TRUE,
                     password |-> p, invited |-> FALSE, reset |-> x]
  <2>5. AccountsOf!Answer(u, u, row)
    BY <1>2, <2>1, <2>2, <2>3, <2>4, Zenon DEF AccountsOf!SetupCreates
  <2>6. "ADMIN" \in AccountsOf!Roles /\ TRUE \in BOOLEAN /\ FALSE \in BOOLEAN
    BY DEF AccountsOf!Roles
  <2>7. row \in AccountsOf!Row
    BY <2>6, RowMade
  <2>8. row.password > 0
    BY <2>1
  <2> HIDE DEF row
  <2> QED BY <2>5, <2>7, <2>8, AccountAnswers
<1> QED BY <1>1, <1>2

\* An invitation accepted, a password reset, an invitation or a link sent again.
LEMMA ClaimUpdates ==
  ASSUME ClaimInv, NEW u \in Users,
         \/ AccountsOf!AcceptInvite(u) \/ AccountsOf!ResetPassword(u)
         \/ AccountsOf!ResendInvite(u) \/ AccountsOf!IssueReset(u)
  PROVE  ClaimInv'
<1> DEFINE r == account[u]
<1>1. r \in AccountsOf!Row /\ (r.reset => r.password > 0)
  BY RowThere, Zenon DEF AccountsOf!AcceptInvite, AccountsOf!ResetPassword, AccountsOf!ResendInvite,
     AccountsOf!IssueReset, AccountsOf!Claimed
<1>2. AccountsOf!Claimed(u) => r.password > 0
  BY DEF AccountsOf!Claimed
<1>3. CASE AccountsOf!AcceptInvite(u)
  <2> DEFINE row == [r EXCEPT !.password = 1, !.invited = FALSE, !.active = TRUE]
  <2>1. account' = [account EXCEPT ![u] = row] /\ accountAsked' = accountAsked
    BY <1>3 DEF AccountsOf!AcceptInvite, AccountsOf!Update
  <2>2. row \in AccountsOf!Row /\ row.password = 1
    <3>1. 1 \in 0 .. 2
      OBVIOUS
    <3> QED BY <1>1, <3>1, RowClaimed
  <2>3. row.password > 0
    BY <2>2
  <2> HIDE DEF row
  <2> QED BY <2>1, <2>2, <2>3, AccountUpdates
<1>4. CASE AccountsOf!ResetPassword(u)
  <2>1. PICK p \in 0 .. 2 : p = AccountsOf!Another(r.password) /\ p > 0
    BY DEF AccountsOf!Another
  <2> DEFINE row == [r EXCEPT !.password = p, !.reset = FALSE]
  <2>2. account' = [account EXCEPT ![u] = row] /\ accountAsked' = accountAsked
    BY <1>4, <2>1 DEF AccountsOf!ResetPassword, AccountsOf!Update
  <2>3. row \in AccountsOf!Row /\ row.password > 0
    BY <1>1, <2>1, RowClaimed
  <2> HIDE DEF row
  <2> QED BY <2>2, <2>3, AccountUpdates
<1>5. CASE AccountsOf!ResendInvite(u)
  <2> DEFINE row == [r EXCEPT !.invited = TRUE, !.active = TRUE]
  <2>1. account' = [account EXCEPT ![u] = row] /\ accountAsked' = accountAsked
    BY <1>5 DEF AccountsOf!ResendInvite, AccountsOf!Update
  <2>2. 1 \in 0 .. 2
    OBVIOUS
  <2>3. row \in AccountsOf!Row /\ row.password = r.password /\ row.reset = r.reset
    BY <1>1, <2>2, RowClaimed
  <2> HIDE DEF row
  <2> QED BY <1>1, <1>2, <2>1, <2>3, AccountUpdates
<1>6. CASE AccountsOf!IssueReset(u)
  <2> DEFINE row == [r EXCEPT !.reset = TRUE]
  <2>1. account' = [account EXCEPT ![u] = row] /\ accountAsked' = accountAsked
    BY <1>6 DEF AccountsOf!IssueReset
  <2>2. 1 \in 0 .. 2
    OBVIOUS
  <2>3. row \in AccountsOf!Row /\ row.password = r.password
    BY <1>1, <2>2, RowClaimed
  <2>4. row.password > 0
    BY <1>2, <1>6, <2>3 DEF AccountsOf!IssueReset
  <2> HIDE DEF row
  <2> QED BY <2>1, <2>3, <2>4, AccountUpdates
<1> QED BY <1>3, <1>4, <1>5, <1>6

LEMMA ClaimForgot ==
  ASSUME ClaimInv, NEW u \in Users, AccountsOf!ForgotAsks(u) \/ AccountsOf!ForgotSends(u)
  PROVE  ClaimInv'
<1>1. CASE AccountsOf!ForgotAsks(u)
  <2>1. AccountsOf!Ask(u, [op |-> "forgot"]) /\ AccountsOf!Claimed(u) /\ account' = account
    BY <1>1 DEF AccountsOf!ForgotAsks, AccountsOf!Ask
  <2>2. (accountAsked'[u] = [op |-> "forgot"]) => RequestTyped(u)'
    BY <2>1 DEF RequestTyped, AccountsOf!Asks, AccountsOf!Claimed, AccountsOf!Exists
  <2> QED BY <2>1, <2>2, AccountAsks
<1>2. CASE AccountsOf!ForgotSends(u)
  <2> DEFINE row == [account[u] EXCEPT !.reset = TRUE]
  <2>1. AccountsOf!Answer(u, u, row) /\ AccountsOf!Claimed(u)
    BY <1>2 DEF AccountsOf!ForgotSends, ClaimInv, RequestTyped
  <2>2. account[u] \in AccountsOf!Row /\ account[u].password > 0
    BY <2>1, RowThere DEF AccountsOf!Claimed
  <2>3. 1 \in 0 .. 2
    OBVIOUS
  <2>4. row \in AccountsOf!Row /\ row.password = account[u].password
    BY <2>2, <2>3, RowClaimed
  <2> HIDE DEF row
  <2> QED BY <2>1, <2>2, <2>4, AccountAnswers
<1> QED BY <1>1, <1>2

LEMMA ClaimInvite ==
  ASSUME ClaimInv, NEW a \in Users,
         AccountsOf!InviteWrites(a) \/ \E u \in Users : AccountsOf!InviteAsks(a, u)
  PROVE  ClaimInv'
<1>1. ASSUME NEW u \in Users, AccountsOf!InviteAsks(a, u) PROVE ClaimInv'
  <2>1. PICK role \in AccountsOf!Roles, c \in Employers \cup {None}, admin \in BOOLEAN :
          LET first == role = "CLIENT" /\
                 \A v \in Users \ {u} : AccountsOf!Exists(v) => account[v].company # c
          IN AccountsOf!Ask(a, [op |-> "invite", to |-> u, role |-> role, company |-> c,
                                clientAdmin |-> admin \/ first])
    BY <1>1 DEF AccountsOf!InviteAsks
  <2>2. PICK first \in BOOLEAN :
          first = (role = "CLIENT" /\
                     \A v \in Users \ {u} : AccountsOf!Exists(v) => account[v].company # c)
    OBVIOUS
  <2>3. PICK b \in BOOLEAN : b = (admin \/ first)
    OBVIOUS
  <2> DEFINE x == [op |-> "invite", to |-> u, role |-> role, company |-> c, clientAdmin |-> b]
  <2>4. AccountsOf!Ask(a, x)
    BY <2>1, <2>2, <2>3, Zenon
  <2>5. (accountAsked'[a] = x) => RequestTyped(a)'
    BY DEF RequestTyped, AccountsOf!Asks
  <2> HIDE DEF x
  <2> QED BY <2>4, <2>5, AccountAsks
<1>2. CASE AccountsOf!InviteWrites(a)
  <2> DEFINE r == accountAsked[a]
             v == r.to
  <2>1. /\ v \in Users /\ r.role \in AccountsOf!Roles /\ r.company \in Employers \cup {None}
        /\ r.clientAdmin \in BOOLEAN
    BY <1>2 DEF AccountsOf!InviteWrites, ClaimInv, RequestTyped
  <2>2. PICK p \in 0 .. 2 : p = IF AccountsOf!Exists(v) THEN account[v].password ELSE 0
    BY <2>1, RowThere, RowFields
  <2>3. PICK b \in BOOLEAN : b = (r.clientAdmin \/ (AccountsOf!Exists(v) /\ account[v].clientAdmin))
    OBVIOUS
  <2>4. PICK x \in BOOLEAN : x = (AccountsOf!Exists(v) /\ account[v].reset)
    OBVIOUS
  <2> DEFINE row == [role |-> r.role, company |-> r.company, clientAdmin |-> b, active |-> TRUE,
                     password |-> p, invited |-> TRUE, reset |-> x]
  <2>5. AccountsOf!Answer(a, v, row)
    <3>1. AccountsOf!Invited(v, r) = row
      BY <2>2, <2>3, <2>4, Zenon DEF AccountsOf!Invited
    <3> QED BY <1>2, <3>1, Zenon DEF AccountsOf!InviteWrites
  <2>6. row \in AccountsOf!Row
    BY <2>1, RowMade
  <2>7. row.password = p /\ row.reset = x
    OBVIOUS
  <2>8. /\ AccountsOf!Claimed(v) => p > 0
        /\ x => p > 0
    BY <2>1, <2>2, <2>4, RowThere DEF AccountsOf!Claimed
  <2> HIDE DEF row, v
  <2>9. v \in Users
    BY <2>1
  <2> QED BY <2>5, <2>6, <2>7, <2>8, <2>9, AccountAnswers
<1> QED BY <1>1, <1>2

\* An administrator's change to an account that is there.
LEMMA ClaimChange ==
  ASSUME ClaimInv, NEW a \in Users,
         \/ AccountsOf!UpdateUserWrites(a) \/ AccountsOf!ChangeRoleWrites(a)
         \/ AccountsOf!TeamUpdateWrites(a)
  PROVE  ClaimInv'
<1> DEFINE r == accountAsked[a]
           v == r.locks
<1>1. v \in Users /\ AccountsOf!Exists(v)
  BY Zenon DEF AccountsOf!UpdateUserWrites, AccountsOf!ChangeRoleWrites, AccountsOf!TeamUpdateWrites,
     ClaimInv, RequestTyped
<1>2. /\ account[v] \in AccountsOf!Row
      /\ account[v].reset => account[v].password > 0
      /\ AccountsOf!Claimed(v) => account[v].password > 0
  BY <1>1, RowThere DEF AccountsOf!Claimed
<1>3. CASE AccountsOf!UpdateUserWrites(a)
  <2> DEFINE row == [account[v] EXCEPT !.role = r.role, !.active = r.active]
  <2>1. r.role \in AccountsOf!Roles /\ r.active \in BOOLEAN /\ AccountsOf!Answer(a, v, row)
    BY <1>3 DEF AccountsOf!UpdateUserWrites, ClaimInv, RequestTyped
  <2>2. /\ row \in AccountsOf!Row
        /\ row.password = account[v].password /\ row.reset = account[v].reset
    BY <1>2, <2>1, RowOfUser
  <2> HIDE DEF row, v
  <2> QED BY <1>1, <1>2, <2>1, <2>2, AccountAnswers
<1>4. CASE AccountsOf!ChangeRoleWrites(a)
  <2> DEFINE row == WithRole(account[v], r.role, r.company)
  <2>1. /\ r.role \in AccountsOf!Roles /\ r.company \in Employers \cup {None}
        /\ AccountsOf!Answer(a, v, row)
    BY <1>4 DEF AccountsOf!ChangeRoleWrites, ClaimInv, RequestTyped, WithRole
  <2>2. /\ row \in AccountsOf!Row
        /\ row.password = account[v].password /\ row.reset = account[v].reset
    BY <1>2, <2>1, RowOfRole
  <2> HIDE DEF row, v
  <2> QED BY <1>1, <1>2, <2>1, <2>2, AccountAnswers
<1>5. CASE AccountsOf!TeamUpdateWrites(a)
  <2> DEFINE row == [account[v] EXCEPT !.active = r.active, !.clientAdmin = r.clientAdmin]
  <2>1. r.active \in BOOLEAN /\ r.clientAdmin \in BOOLEAN /\ AccountsOf!Answer(a, v, row)
    BY <1>5 DEF AccountsOf!TeamUpdateWrites, ClaimInv, RequestTyped
  <2>2. /\ row \in AccountsOf!Row
        /\ row.password = account[v].password /\ row.reset = account[v].reset
    BY <1>2, <2>1, RowOfTeam
  <2> HIDE DEF row, v
  <2> QED BY <1>1, <1>2, <2>1, <2>2, AccountAnswers
<1> QED BY <1>3, <1>4, <1>5

LEMMA ClaimChangeAsked ==
  ASSUME ClaimInv, NEW a \in Users, NEW u \in Users,
         \/ AccountsOf!UpdateUserAsks(a, u) \/ AccountsOf!ChangeRoleAsks(a, u)
         \/ AccountsOf!TeamUpdateAsks(a, u)
  PROVE  ClaimInv'
<1>1. CASE AccountsOf!UpdateUserAsks(a, u)
  <2>1. PICK role \in AccountsOf!Roles, on \in BOOLEAN :
          AccountsOf!Ask(a, [op |-> "user", locks |-> u, role |-> role, active |-> on])
    BY <1>1 DEF AccountsOf!UpdateUserAsks
  <2> DEFINE x == [op |-> "user", locks |-> u, role |-> role, active |-> on]
  <2>2. AccountsOf!Exists(u)'
    BY <1>1, <2>1 DEF AccountsOf!UpdateUserAsks, AccountsOf!Ask, AccountsOf!Exists
  <2>3. (accountAsked'[a] = x) => RequestTyped(a)'
    BY <2>2 DEF RequestTyped, AccountsOf!Asks
  <2> HIDE DEF x
  <2> QED BY <2>1, <2>3, AccountAsks DEF x
<1>2. CASE AccountsOf!ChangeRoleAsks(a, u)
  <2>1. PICK role \in AccountsOf!Roles, c \in Employers \cup {None} :
          AccountsOf!Ask(a, [op |-> "role", locks |-> u, role |-> role, company |-> c])
    BY <1>2 DEF AccountsOf!ChangeRoleAsks
  <2> DEFINE x == [op |-> "role", locks |-> u, role |-> role, company |-> c]
  <2>2. AccountsOf!Exists(u)'
    BY <1>2, <2>1 DEF AccountsOf!ChangeRoleAsks, AccountsOf!Ask, AccountsOf!Exists
  <2>3. (accountAsked'[a] = x) => RequestTyped(a)'
    BY <2>2 DEF RequestTyped, AccountsOf!Asks
  <2> HIDE DEF x
  <2> QED BY <2>1, <2>3, AccountAsks DEF x
<1>3. CASE AccountsOf!TeamUpdateAsks(a, u)
  <2>1. PICK on \in BOOLEAN, admin \in BOOLEAN :
          AccountsOf!Ask(a, [op |-> "team", locks |-> u, active |-> on, clientAdmin |-> admin])
    BY <1>3 DEF AccountsOf!TeamUpdateAsks
  <2> DEFINE x == [op |-> "team", locks |-> u, active |-> on, clientAdmin |-> admin]
  <2>2. AccountsOf!Exists(u)'
    BY <1>3, <2>1 DEF AccountsOf!TeamUpdateAsks, AccountsOf!Ask, AccountsOf!Exists
  <2>3. (accountAsked'[a] = x) => RequestTyped(a)'
    BY <2>2 DEF RequestTyped, AccountsOf!Asks
  <2> HIDE DEF x
  <2> QED BY <2>1, <2>3, AccountAsks DEF x
<1> QED BY <1>1, <1>2, <1>3

LEMMA ClaimTeamInvite ==
  ASSUME ClaimInv, NEW a \in Users,
         AccountsOf!TeamInviteWrites(a) \/ \E u \in Users : AccountsOf!TeamInviteAsks(a, u)
  PROVE  ClaimInv'
<1>1. ASSUME NEW u \in Users, AccountsOf!TeamInviteAsks(a, u) PROVE ClaimInv'
  <2>1. PICK c \in Employers, admin \in BOOLEAN :
          AccountsOf!Ask(a, [op |-> "team_invite", to |-> u, company |-> c, clientAdmin |-> admin])
    BY <1>1 DEF AccountsOf!TeamInviteAsks
  <2> DEFINE x == [op |-> "team_invite", to |-> u, company |-> c, clientAdmin |-> admin]
  <2>2. (accountAsked'[a] = x) => RequestTyped(a)'
    BY DEF RequestTyped, AccountsOf!Asks
  <2> HIDE DEF x
  <2> QED BY <2>1, <2>2, AccountAsks DEF x
<1>2. CASE AccountsOf!TeamInviteWrites(a)
  <2> DEFINE r == accountAsked[a]
             v == r.to
  <2>1. v \in Users /\ r.company \in Employers /\ r.clientAdmin \in BOOLEAN
    BY <1>2 DEF AccountsOf!TeamInviteWrites, ClaimInv, RequestTyped
  <2>2. ~(AccountsOf!Exists(v) /\ account[v].reset) /\ ~AccountsOf!Claimed(v)
    BY <1>2, <2>1 DEF AccountsOf!TeamInviteWrites, ClaimInv, RowsInv, AccountsOf!ResetIsForClaimed,
       AccountsOf!Claimed
  <2> DEFINE row == [role |-> "CLIENT", company |-> r.company, clientAdmin |-> r.clientAdmin,
                     active |-> TRUE, password |-> 0, invited |-> TRUE, reset |-> FALSE]
  <2>3. AccountsOf!Answer(a, v, row)
    BY <1>2, <2>2, Zenon DEF AccountsOf!TeamInviteWrites
  <2>4. row \in AccountsOf!Row
    <3>1. /\ "CLIENT" \in AccountsOf!Roles /\ r.company \in Employers \cup {None}
          /\ TRUE \in BOOLEAN /\ FALSE \in BOOLEAN /\ 0 \in 0 .. 2
      BY <2>1 DEF AccountsOf!Roles
    <3> QED BY <2>1, <3>1, RowMade
  <2>5. row.reset = FALSE
    OBVIOUS
  <2> HIDE DEF row, v
  <2>6. v \in Users
    BY <2>1 DEF v
  <2> QED BY <2>2, <2>3, <2>4, <2>5, <2>6, AccountAnswers
<1> QED BY <1>1, <1>2

LEMMA ClaimStep == ClaimInv /\ [AccountsOf!Next]_accounts => ClaimInv'
<1> SUFFICES ASSUME ClaimInv, [AccountsOf!Next]_accounts PROVE ClaimInv'
  OBVIOUS
<1>1. ASSUME NEW u \in Users, AccountsOf!Abandon(u) PROVE ClaimInv'
  <2>1. accountAsked' = [accountAsked EXCEPT ![u] = None] /\ account' = account
    BY <1>1 DEF AccountsOf!Abandon
  <2>2. RowsInv' /\ \A v \in Users : /\ AccountsOf!Exists(v) => AccountsOf!Exists(v)'
                                     /\ AccountsOf!Claimed(v) => AccountsOf!Claimed(v)'
    BY <2>1, Zenon DEF ClaimInv, RowsInv, AccountsOf!ResetIsForClaimed, AccountsOf!Exists,
       AccountsOf!Claimed
  <2>3. RequestTyped(u)'
    BY <2>1 DEF ClaimInv, RequestTyped, AccountsOf!Asks
  <2> QED BY <2>1, <2>2, <2>3, RequestsStand
<1>2. CASE UNCHANGED accounts
  <2>1. account' = account /\ accountAsked' = accountAsked
    BY <1>2 DEF accounts
  <2> QED BY <2>1, Zenon DEF ClaimInv, RowsInv, RequestTyped, AccountsOf!Asks,
        AccountsOf!ResetIsForClaimed, AccountsOf!Exists, AccountsOf!Claimed
<1>3. CASE AccountsOf!Next
  BY <1>1, <1>3, ClaimSetup, ClaimUpdates, ClaimForgot, ClaimInvite, ClaimChange, ClaimChangeAsked,
     ClaimTeamInvite, Zenon DEF AccountsOf!Next
<1> QED BY <1>2, <1>3

LEMMA ClaimHolds == ClaimInv => AccountsOf!ResetIsForClaimed
  BY DEF ClaimInv, RowsInv

CertifiedInv == \E w \in CoverLooks :
  /\ w = which \/ which \notin CoverLooks
  /\ Certificate(w)!TypeOK

DecisionsInv ==
  /\ Jurisdiction!NothingUnreviewed
  /\ TurnInv
  /\ ClaimInv
  /\ CertifiedInv

LEMMA CertifiedStep == CertifiedInv /\ [Next]_all => CertifiedInv'
<1> SUFFICES ASSUME CertifiedInv, [Next]_all PROVE CertifiedInv'
  OBVIOUS
<1>1. PICK w \in CoverLooks : (w = which \/ which \notin CoverLooks) /\ Certificate(w)!TypeOK
  BY DEF CertifiedInv
<1>2. which' = which
  BY DEF Next, all
<1>3. CASE UNCHANGED certifying
  <2>1. UNCHANGED <<item, hold, permits, filing, today, evening>>
    BY <1>3 DEF certifying
  <2>2. Certificate(w)!TypeOK'
    BY <1>1, <2>1, Zenon DEF Certificate!TypeOK
  <2> QED BY <1>1, <1>2, <2>2, Zenon DEF CertifiedInv
<1>4. CASE which = w /\ Certificate(w)!Next
  <2>1. Certificate(w)!TypeOK'
    BY <1>1, <1>4, CoverStep
  <2> QED BY <1>2, <1>4, <2>1, Zenon DEF CertifiedInv
<1> QED BY <1>1, <1>3, <1>4 DEF Next, all

\* What a person decided is what the system goes by: no check of a jurisdiction that
\* nobody has looked at, no ticket that waits for whom it does not, no certificate
\* that is replaced or expired, no password reset for an address nobody claimed,
\* whatever requests overlap.
THEOREM DecisionsStand == Spec => []DecisionsHold
<1>1. Init => DecisionsInv
  <2>1. Init => \E w \in CoverLooks : (w = which \/ which \notin CoverLooks) /\ Certificate(w)!Init
    BY DEF Init
  <2>2. Init => CertifiedInv
    BY <2>1, CoverInit DEF CertifiedInv
  <2>3. Init => Jurisdiction!Init /\ Support!Init /\ AccountsOf!Init
    BY DEF Init
  <2> QED BY <2>2, <2>3, ReviewedInit, TurnInit, ClaimInit DEF DecisionsInv
<1>2. DecisionsInv /\ [Next]_all => DecisionsInv'
  <2>1. Next => /\ [Jurisdiction!Next]_onboarding /\ [Support!Next]_supporting
                /\ [AccountsOf!Next]_accounts
    BY DEF Next
  <2>2. UNCHANGED all => UNCHANGED <<onboarding, supporting, accounts>>
    BY DEF all
  <2> QED BY <2>1, <2>2, ReviewedStep, TurnStep, ClaimStep, CertifiedStep DEF DecisionsInv
<1>3. DecisionsInv => DecisionsHold
  <2> SUFFICES ASSUME DecisionsInv PROVE DecisionsHold
    OBVIOUS
  <2>1. /\ Jurisdiction!NothingUnreviewed /\ Support!TurnWasTaken /\ AccountsOf!ResetIsForClaimed
    BY TurnHolds, ClaimHolds DEF DecisionsInv
  <2>2. \A w \in CoverLooks : which = w => Certificate(w)!ClearedIsCovered
    BY CoverHolds DEF DecisionsInv, CertifiedInv
  <2> QED BY <2>1, <2>2 DEF DecisionsHold, CoverLooks
<1> QED BY <1>1, <1>2, <1>3, PTL DEF Spec

-----------------------------------------------------------------------------
(* What was done is not undone.                                            *)

\* What a check has read is not at an end.
OnlyLive(x) == "read" \in DOMAIN x /\ x.read \notin OnePermit!Terminal

\* A status change asked for is one from the status the permit still has, unless it
\* was forced; nobody deletes, and no check follows, what was seen to stand.
PermitInv ==
  /\ permitAsked = [p \in Pair |-> permitAsked[p]] /\ run = [r \in Runs |-> run[r]]
  /\ \A p, q \in Pair :
       OnePermit!Asked(p, "status") /\ OnePermit!Asked(q, "status") => p = q
  /\ \A p \in Pair : OnePermit!Asked(p, "status") /\ ~permitAsked[p].force
       => permitAsked[p].to \in OnePermit!Transitions[permit]
  /\ \A p \in Pair : OnePermit!Asked(p, "delete") => permitAsked[p].read \notin OnePermit!Live
  /\ \A r \in Runs : run[r] # None => OnlyLive(run[r])

Possible ==
  \A p \in Pair : OnePermit!Asked(p, "status") /\ ~permitAsked[p].force /\ permitAsked'[p] = None
    => permit' \in OnePermit!Transitions[permit]
Ended ==
  permit' # permit /\ permit \in OnePermit!Terminal =>
    \/ permitAsked' # permitAsked \/ run' = run
    \/ \E r \in Runs : run[r] # None /\ run'[r] = None /\ run[r].read \notin OnePermit!Terminal
LiveKept ==
  ~deleted /\ deleted' /\ permit \in OnePermit!Live =>
    \E p \in Pair :
      OnePermit!Asked(p, "delete") /\ permitAsked'[p] = None /\ permitAsked[p].read # permit

LEMMA PermitInit == OnePermit!Init => PermitInv
  BY DEF OnePermit!Init, PermitInv, OnePermit!Asked

\* A new request leaves the others as they are; so does an answered one.
LEMMA PermitAsks ==
  ASSUME PermitInv, NEW p \in Pair, NEW x, permitAsked' = [permitAsked EXCEPT ![p] = x],
         permit' = permit, run' = run,
         x = None \/ x.op \notin {"status", "delete"}
         \/ (x.op = "status" /\ ~OnePermit!Locked
              /\ (~x.force => x.to \in OnePermit!Transitions[permit]))
         \/ (x.op = "delete" /\ x.read \notin OnePermit!Live)
  PROVE  PermitInv'
<1>1. /\ permitAsked' = [q \in Pair |-> permitAsked'[q]]
      /\ permitAsked'[p] = x /\ \A q \in Pair : q # p => permitAsked'[q] = permitAsked[q]
  BY DEF PermitInv
<1>2. \A q \in Pair : q # p =>
        /\ OnePermit!Asked(q, "status")' <=> OnePermit!Asked(q, "status")
        /\ OnePermit!Asked(q, "delete")' <=> OnePermit!Asked(q, "delete")
  BY <1>1 DEF OnePermit!Asked
<1>3. OnePermit!Asked(p, "status")' => \A q \in Pair : ~OnePermit!Asked(q, "status")
  BY <1>1 DEF OnePermit!Asked, OnePermit!Locked
<1>4. OnePermit!Asked(p, "status")' /\ ~x.force => x.to \in OnePermit!Transitions[permit]
  BY <1>1 DEF OnePermit!Asked
<1>5. OnePermit!Asked(p, "delete")' => x.read \notin OnePermit!Live
  BY <1>1 DEF OnePermit!Asked
<1>6. \A q, s \in Pair : OnePermit!Asked(q, "status")' /\ OnePermit!Asked(s, "status")' => q = s
  BY <1>2, <1>3 DEF PermitInv
<1>7. \A q \in Pair : OnePermit!Asked(q, "status")' /\ ~permitAsked'[q].force
        => permitAsked'[q].to \in OnePermit!Transitions[permit]
  BY <1>1, <1>2, <1>4 DEF PermitInv
<1>8. \A q \in Pair : OnePermit!Asked(q, "delete")' => permitAsked'[q].read \notin OnePermit!Live
  BY <1>1, <1>2, <1>5 DEF PermitInv
<1> QED BY <1>1, <1>6, <1>7, <1>8 DEF PermitInv

\* The status moves while no change of it is asked for.
LEMMA PermitMoves ==
  ASSUME PermitInv, ~OnePermit!Locked, permitAsked' = permitAsked,
         run' = [r \in Runs |-> run'[r]],
         \A r \in Runs : run'[r] = None \/ OnlyLive(run'[r])
  PROVE  PermitInv'
<1>1. \A q \in Pair : ~OnePermit!Asked(q, "status")
  BY DEF OnePermit!Locked, OnePermit!Asked
<1> QED BY <1>1 DEF PermitInv, OnePermit!Asked

LEMMA PermitStep == PermitInv /\ [OnePermit!Next]_permitting => PermitInv'
<1> SUFFICES ASSUME PermitInv, [OnePermit!Next]_permitting PROVE PermitInv'
  OBVIOUS
<1>1. ASSUME NEW p \in Pair, OnePermit!ChangeStatusReads(p) PROVE PermitInv'
  <2>1. PICK s \in OnePermit!Status, force \in BOOLEAN :
          /\ force \/ s \in OnePermit!Transitions[permit]
          /\ OnePermit!Asks(p, [op |-> "status", to |-> s, force |-> force])
    BY <1>1 DEF OnePermit!ChangeStatusReads
  <2>2. PICK x : x = [op |-> "status", to |-> s, force |-> force]
    OBVIOUS
  <2>3. /\ permitAsked' = [permitAsked EXCEPT ![p] = x] /\ permit' = permit /\ run' = run
        /\ ~OnePermit!Locked
    BY <1>1, <2>1, <2>2 DEF OnePermit!ChangeStatusReads, OnePermit!Asks
  <2>4. x.op = "status" /\ (~x.force => x.to \in OnePermit!Transitions[permit])
    BY <2>1, <2>2
  <2> QED BY <2>3, <2>4, PermitAsks
<1>2. ASSUME NEW p \in Pair, OnePermit!ChangeStatusWrites(p) PROVE PermitInv'
  <2>1. /\ permitAsked' = [permitAsked EXCEPT ![p] = None] /\ run' = run
        /\ OnePermit!Asked(p, "status")
    BY <1>2 DEF OnePermit!ChangeStatusWrites, OnePermit!Answered
  <2>2. /\ permitAsked' = [q \in Pair |-> permitAsked'[q]] /\ permitAsked'[p] = None
        /\ \A q \in Pair : q # p => permitAsked'[q] = permitAsked[q]
    BY <2>1 DEF PermitInv
  <2>3. \A q \in Pair : ~OnePermit!Asked(q, "status")'
    BY <2>1, <2>2 DEF OnePermit!Asked, PermitInv
  <2>4. \A q \in Pair : OnePermit!Asked(q, "delete")' => permitAsked'[q].read \notin OnePermit!Live
    BY <2>2 DEF OnePermit!Asked, PermitInv
  <2> QED BY <2>1, <2>2, <2>3, <2>4 DEF PermitInv
<1>3. CASE OnePermit!Advance \/ OnePermit!ObserveStatus
  BY <1>3, PermitMoves DEF OnePermit!Advance, OnePermit!ObserveStatus, PermitInv
<1>4. ASSUME NEW p \in Pair, OnePermit!DeleteReads(p) PROVE PermitInv'
  <2>1. PICK x : x = [op |-> "delete", read |-> permit]
    OBVIOUS
  <2>2. /\ permitAsked' = [permitAsked EXCEPT ![p] = x] /\ permit' = permit /\ run' = run
        /\ permit \notin OnePermit!Live
    BY <1>4, <2>1 DEF OnePermit!DeleteReads, OnePermit!Asks, OnePermit!MayDelete
  <2>3. x.op = "delete" /\ x.read \notin OnePermit!Live
    BY <2>1, <2>2
  <2> QED BY <2>2, <2>3, PermitAsks
<1>5. ASSUME NEW p \in Pair, OnePermit!DeleteWrites(p) PROVE PermitInv'
  BY <1>5, PermitAsks DEF OnePermit!DeleteWrites, OnePermit!Answered
<1>6. ASSUME NEW p \in Pair, OnePermit!LogCorrectionReads(p) PROVE PermitInv'
  <2>1. PICK x : x = [op |-> "correct", cycle |-> cycles]
    OBVIOUS
  <2>2. permitAsked' = [permitAsked EXCEPT ![p] = x] /\ permit' = permit /\ run' = run
    BY <1>6, <2>1 DEF OnePermit!LogCorrectionReads, OnePermit!Asks
  <2>3. x.op \notin {"status", "delete"}
    BY <2>1
  <2> QED BY <2>2, <2>3, PermitAsks
<1>7. ASSUME NEW p \in Pair, OnePermit!LogCorrectionWrites(p) PROVE PermitInv'
  <2>1. /\ permitAsked' = [permitAsked EXCEPT ![p] = None] /\ run' = run
        /\ ~OnePermit!Locked
    BY <1>7 DEF OnePermit!LogCorrectionWrites, OnePermit!Answered
  <2>2. /\ permitAsked' = [q \in Pair |-> permitAsked'[q]] /\ permitAsked'[p] = None
        /\ \A q \in Pair : q # p => permitAsked'[q] = permitAsked[q]
    BY <2>1 DEF PermitInv
  <2>3. \A q \in Pair : ~OnePermit!Asked(q, "status")'
    BY <2>1, <2>2 DEF OnePermit!Asked, OnePermit!Locked
  <2>4. \A q \in Pair : OnePermit!Asked(q, "delete")' => permitAsked'[q].read \notin OnePermit!Live
    BY <2>2 DEF OnePermit!Asked, PermitInv
  <2> QED BY <2>1, <2>2, <2>3, <2>4 DEF PermitInv
<1>8. CASE OnePermit!Sweep
  BY <1>8, PermitMoves DEF OnePermit!Sweep, PermitInv
<1>9. CASE OnePermit!CheckTimesOut
  <2>1. permitAsked' = permitAsked /\ permit' = permit
    BY <1>9 DEF OnePermit!CheckTimesOut
  <2>2. /\ run' = [r \in Runs |-> run'[r]]
        /\ \A r \in Runs : run'[r] = None \/ run'[r] = run[r]
    BY <1>9 DEF OnePermit!CheckTimesOut, PermitInv
  <2> QED BY <2>1, <2>2 DEF PermitInv, OnePermit!Asked
<1>10. ASSUME NEW r \in Runs, OnePermit!CheckReads(r) PROVE PermitInv'
  <2>1. permitAsked' = permitAsked /\ permit' = permit
    BY <1>10 DEF OnePermit!CheckReads
  <2>2. PICK x : x = [read |-> permit, heard |-> None]
    OBVIOUS
  <2>3. run' = run \/ (run' = [run EXCEPT ![r] = x] /\ permit \notin OnePermit!Terminal)
    BY <1>10, <2>2 DEF OnePermit!CheckReads, OnePermit!NotAsked
  <2>4. "read" \in DOMAIN x /\ x.read = permit
    BY <2>2
  <2>5. /\ run' = [q \in Runs |-> run'[q]]
        /\ \A q \in Runs : run'[q] = run[q] \/ OnlyLive(run'[q])
    BY <2>3, <2>4 DEF PermitInv, OnlyLive
  <2> QED BY <2>1, <2>5 DEF PermitInv, OnePermit!Asked
<1>11. ASSUME NEW r \in Runs, OnePermit!PortalAnswers(r) PROVE PermitInv'
  <2>1. permitAsked' = permitAsked /\ permit' = permit /\ run[r] # None
    BY <1>11 DEF OnePermit!PortalAnswers
  <2>2. PICK d : run' = [run EXCEPT ![r].heard = d]
    BY <1>11 DEF OnePermit!PortalAnswers
  <2>3. OnlyLive(run[r])
    BY <2>1 DEF PermitInv
  <2>4. PICK x : x = [run[r] EXCEPT !.heard = d]
    OBVIOUS
  <2>5. "read" \in DOMAIN x /\ x.read = run[r].read
    BY <2>3, <2>4 DEF OnlyLive
  <2>6. run' = [run EXCEPT ![r] = x]
    BY <2>2, <2>4
  <2>7. /\ run' = [q \in Runs |-> run'[q]]
        /\ \A q \in Runs : run'[q] = run[q] \/ OnlyLive(run'[q])
    BY <2>3, <2>5, <2>6 DEF PermitInv, OnlyLive
  <2> QED BY <2>1, <2>7 DEF PermitInv, OnePermit!Asked
<1>12. ASSUME NEW r \in Runs, OnePermit!CheckWrites(r) PROVE PermitInv'
  <2>1. permitAsked' = permitAsked /\ ~OnePermit!Locked /\ run' = [run EXCEPT ![r] = None]
    BY <1>12 DEF OnePermit!CheckWrites
  <2> QED BY <2>1, PermitMoves DEF PermitInv
<1>13. CASE UNCHANGED permitting
  BY <1>13 DEF permitting, PermitInv, OnePermit!Asked
<1> QED BY <1>1, <1>2, <1>3, <1>4, <1>5, <1>6, <1>7, <1>8, <1>9, <1>10, <1>11, <1>12, <1>13
     DEF OnePermit!Next

\* A status that moves was not locked, or is the one its lock was for.
LEMMA PermitPossible ==
  PermitInv /\ [OnePermit!Next]_permitting => [Possible]_permit /\ [Ended]_permit /\ [LiveKept]_deleted
<1> SUFFICES ASSUME PermitInv, [OnePermit!Next]_permitting
             PROVE  [Possible]_permit /\ [Ended]_permit /\ [LiveKept]_deleted
  OBVIOUS
<1>1. ASSUME NEW p \in Pair, OnePermit!ChangeStatusWrites(p)
      PROVE  Possible /\ Ended /\ UNCHANGED deleted
  <2>1. /\ permitAsked' = [permitAsked EXCEPT ![p] = None] /\ permit' = permitAsked[p].to
        /\ OnePermit!Asked(p, "status") /\ run' = run /\ deleted' = deleted
    BY <1>1 DEF OnePermit!ChangeStatusWrites, OnePermit!Answered
  <2>2. Ended
    BY <2>1 DEF Ended
  <2>3. Possible
    <3> SUFFICES ASSUME NEW q \in Pair, OnePermit!Asked(q, "status"), ~permitAsked[q].force,
                        permitAsked'[q] = None
                 PROVE  permit' \in OnePermit!Transitions[permit]
      BY DEF Possible
    <3> QED BY <2>1 DEF PermitInv
  <2> QED BY <2>1, <2>2, <2>3
<1>2. CASE OnePermit!Advance \/ OnePermit!ObserveStatus
  <2>1. permitAsked' = permitAsked /\ run' = run /\ deleted' = deleted /\ ~OnePermit!Locked
    BY <1>2 DEF OnePermit!Advance, OnePermit!ObserveStatus
  <2> QED BY <2>1 DEF Possible, Ended, OnePermit!Asked, OnePermit!Locked
<1>3. ASSUME NEW p \in Pair, OnePermit!DeleteWrites(p) PROVE LiveKept /\ permit' = permit
  <2>1. /\ permit' = permit /\ permitAsked' = [permitAsked EXCEPT ![p] = None]
        /\ OnePermit!Asked(p, "delete")
    BY <1>3 DEF OnePermit!DeleteWrites, OnePermit!Answered
  <2>2. permitAsked'[p] = None /\ permitAsked[p].read \notin OnePermit!Live
    BY <2>1 DEF PermitInv
  <2> QED BY <2>1, <2>2 DEF LiveKept
<1>4. ASSUME NEW p \in Pair, OnePermit!LogCorrectionWrites(p)
      PROVE  Possible /\ Ended /\ UNCHANGED deleted
  <2>1. /\ permit' = IF permit \in OnePermit!Terminal THEN permit ELSE "corrections_required"
        /\ ~OnePermit!Locked /\ deleted' = deleted
    BY <1>4 DEF OnePermit!LogCorrectionWrites
  <2> QED BY <2>1 DEF Possible, Ended, OnePermit!Locked, OnePermit!Asked
<1>5. ASSUME NEW r \in Runs, OnePermit!CheckWrites(r) PROVE Possible /\ Ended /\ UNCHANGED deleted
  <2>1. /\ ~OnePermit!Locked /\ deleted' = deleted /\ run[r] # None
        /\ run' = [run EXCEPT ![r] = None]
    BY <1>5 DEF OnePermit!CheckWrites
  <2>2. run'[r] = None /\ run[r].read \notin OnePermit!Terminal
    BY <2>1 DEF PermitInv, OnlyLive
  <2> QED BY <2>1, <2>2 DEF Possible, Ended, OnePermit!Locked, OnePermit!Asked
<1>6. ASSUME NEW p \in Pair,
             \/ OnePermit!ChangeStatusReads(p) \/ OnePermit!DeleteReads(p)
             \/ OnePermit!LogCorrectionReads(p)
      PROVE  permit' = permit /\ deleted' = deleted
  BY <1>6 DEF OnePermit!ChangeStatusReads, OnePermit!DeleteReads, OnePermit!LogCorrectionReads
<1>7. ASSUME NEW r \in Runs, OnePermit!CheckReads(r) \/ OnePermit!PortalAnswers(r)
      PROVE  permit' = permit /\ deleted' = deleted
  BY <1>7 DEF OnePermit!CheckReads, OnePermit!PortalAnswers
<1>8. CASE OnePermit!Sweep \/ OnePermit!CheckTimesOut \/ UNCHANGED permitting
  BY <1>8 DEF OnePermit!Sweep, OnePermit!CheckTimesOut, permitting
<1> QED BY <1>1, <1>2, <1>3, <1>4, <1>5, <1>6, <1>7, <1>8 DEF OnePermit!Next

\* What a permit was converted with is on the checklist.
ApplicationInv ==
  /\ carried \subseteq Application!Provided
  /\ applicationAsked = [p \in Single |-> applicationAsked[p]]
  /\ checklist = [d \in Application!Documents |-> checklist[d]]

Uploaded ==
  Application!Provided \subseteq Application!Provided' /\ carried \subseteq Application!Provided'
Followed ==
  Application!Required(facts, FALSE, FALSE) \subseteq Application!Listed
    => \/ Application!Required(facts', FALSE, FALSE) \subseteq Application!Listed'
       \/ \E p \in Single : applicationAsked[p] \notin {None, facts} /\ applicationAsked'[p] = None

\* What the facts call for they call for with subcontractors or a septic tank as well.
LEMMA RequiredGrows ==
  ASSUME NEW f, NEW hasSubs, NEW hasSeptic
  PROVE  /\ Application!Required(f, FALSE, FALSE) \subseteq Application!Required(f, hasSubs, hasSeptic)
         /\ Application!Required(f, hasSubs, hasSeptic) \subseteq Application!Documents
  BY Zenon DEF Application!Required, Application!Documents

\* A checklist synced keeps what was provided and lists what is required.
LEMMA SyncedLists ==
  ASSUME NEW required, required \subseteq Application!Documents,
         checklist' = Application!Synced(checklist, required)
  PROVE  /\ Application!Provided' = Application!Provided
         /\ required \subseteq Application!Listed'
         /\ checklist' = [d \in Application!Documents |-> checklist'[d]]
<1>1. /\ checklist' = [d \in Application!Documents |-> checklist'[d]]
      /\ \A d \in Application!Documents : checklist'[d] =
           IF checklist[d] = "provided" THEN "provided"
           ELSE IF d \in required THEN "missing" ELSE "none"
  BY DEF Application!Synced
<1>2. \A d \in Application!Documents :
        /\ checklist'[d] = "provided" <=> checklist[d] = "provided"
        /\ d \in required => checklist'[d] # "none"
  BY <1>1
<1> QED BY <1>1, <1>2 DEF Application!Provided, Application!Listed

LEMMA ApplicationInit == Application!Init => ApplicationInv
<1> SUFFICES ASSUME Application!Init PROVE ApplicationInv
  OBVIOUS
<1>1. carried = {} /\ applicationAsked = [p \in Single |-> None]
  BY DEF Application!Init
<1>2. PICK septic \in BOOLEAN : checklist =
        Application!Synced([d \in Application!Documents |-> "none"],
                           Application!Required(facts, FALSE, septic))
  BY DEF Application!Init
<1>3. checklist = [d \in Application!Documents |-> checklist[d]]
  BY <1>2 DEF Application!Synced
<1> QED BY <1>1, <1>3 DEF ApplicationInv

\* Whatever is asked of an application, it keeps its papers and lists what it must.
LEMMA ApplicationStep ==
  ApplicationInv /\ [Application!Next]_applying =>
    ApplicationInv' /\ [Uploaded]_<<checklist, carried>> /\ [Followed]_applying
<1> SUFFICES ASSUME ApplicationInv, [Application!Next]_applying
             PROVE  /\ ApplicationInv' /\ [Uploaded]_<<checklist, carried>>
                    /\ [Followed]_applying
  OBVIOUS
<1>1. CASE Application!Edit
  <2>1. PICK septic \in BOOLEAN : checklist' =
          Application!Synced(checklist, Application!Required(facts', subs > 0, septic))
    BY <1>1 DEF Application!Edit
  <2>2. carried' = carried /\ applicationAsked' = applicationAsked
    BY <1>1 DEF Application!Edit
  <2> DEFINE required == Application!Required(facts', subs > 0, septic)
  <2>3. /\ Application!Required(facts', FALSE, FALSE) \subseteq required
        /\ required \subseteq Application!Documents
    BY RequiredGrows
  <2> HIDE DEF required
  <2>4. checklist' = Application!Synced(checklist, required)
    BY <2>1 DEF required
  <2>5. /\ Application!Provided' = Application!Provided /\ required \subseteq Application!Listed'
        /\ checklist' = [d \in Application!Documents |-> checklist'[d]]
    BY <2>3, <2>4, SyncedLists
  <2> QED BY <2>2, <2>3, <2>5 DEF ApplicationInv, Uploaded, Followed
<1>2. ASSUME NEW p \in Single, Application!AddSubcontractorReads(p)
      PROVE  ApplicationInv' /\ UNCHANGED <<checklist, carried>> /\ Followed
  <2>1. /\ applicationAsked' = [applicationAsked EXCEPT ![p] = facts]
        /\ checklist' = checklist /\ carried' = carried /\ facts' = facts
    BY <1>2 DEF Application!AddSubcontractorReads
  <2>2. applicationAsked' = [q \in Single |-> applicationAsked'[q]]
    BY <2>1 DEF ApplicationInv
  <2> QED BY <2>1, <2>2 DEF ApplicationInv, Followed, Application!Provided, Application!Listed
<1>3. ASSUME NEW p \in Single, Application!AddSubcontractorWrites(p)
      PROVE  ApplicationInv' /\ Uploaded /\ Followed
  <2> DEFINE required == Application!Required(applicationAsked[p], TRUE, FALSE)
  <2>1. /\ checklist' = Application!Synced(checklist, required)
        /\ applicationAsked' = [applicationAsked EXCEPT ![p] = None]
        /\ carried' = carried /\ facts' = facts /\ applicationAsked[p] # None
    BY <1>3 DEF Application!AddSubcontractorWrites
  <2>2. /\ Application!Required(applicationAsked[p], FALSE, FALSE) \subseteq required
        /\ required \subseteq Application!Documents
    BY RequiredGrows
  <2> HIDE DEF required
  <2>3. /\ Application!Provided' = Application!Provided /\ required \subseteq Application!Listed'
        /\ checklist' = [d \in Application!Documents |-> checklist'[d]]
    BY <2>1, <2>2, SyncedLists
  <2>4. /\ applicationAsked' = [q \in Single |-> applicationAsked'[q]]
        /\ applicationAsked'[p] = None
    BY <2>1 DEF ApplicationInv
  <2>5. Followed
    <3>1. CASE applicationAsked[p] = facts
      BY <3>1, <2>1, <2>2, <2>3 DEF Followed
    <3>2. CASE applicationAsked[p] # facts
      BY <3>2, <2>1, <2>4 DEF Followed
    <3> QED BY <3>1, <3>2
  <2> QED BY <2>1, <2>3, <2>4, <2>5 DEF ApplicationInv, Uploaded
<1>4. CASE Application!AttachDocument
  <2>1. PICK d \in Application!Documents : checklist' = [checklist EXCEPT ![d] = "provided"]
    BY <1>4 DEF Application!AttachDocument
  <2>2. carried' = carried /\ applicationAsked' = applicationAsked /\ facts' = facts
    BY <1>4 DEF Application!AttachDocument
  <2>3. /\ checklist' = [e \in Application!Documents |-> checklist'[e]]
        /\ \A e \in Application!Documents :
             checklist'[e] = IF e = d THEN "provided" ELSE checklist[e]
    BY <2>1 DEF ApplicationInv
  <2>4. /\ Application!Provided \subseteq Application!Provided'
        /\ Application!Listed \subseteq Application!Listed'
    BY <2>3 DEF Application!Provided, Application!Listed
  <2> QED BY <2>2, <2>3, <2>4 DEF ApplicationInv, Uploaded, Followed
<1>5. CASE Application!Convert
  <2>1. /\ checklist' = checklist /\ carried' = Application!Provided
        /\ applicationAsked' = applicationAsked /\ facts' = facts
    BY <1>5 DEF Application!Convert
  <2> QED BY <2>1 DEF ApplicationInv, Uploaded, Followed, Application!Provided, Application!Listed
<1>6. CASE \/ Application!RemoveSubcontractor \/ Application!Submit \/ Application!Review
           \/ UNCHANGED applying
  <2>1. /\ checklist' = checklist /\ carried' = carried
        /\ applicationAsked' = applicationAsked /\ facts' = facts
    BY <1>6 DEF Application!RemoveSubcontractor, Application!Submit, Application!Review, applying
  <2> QED BY <2>1 DEF ApplicationInv, Followed, Application!Provided, Application!Listed
<1> QED BY <1>1, <1>2, <1>3, <1>4, <1>5, <1>6 DEF Application!Next

\* A request about a correction is one of the three of the route.
ResolveInv ==
  /\ inspectionAsked = [p \in Pair |-> inspectionAsked[p]]
  /\ correction = [c \in Corrections |-> correction[c]]
  /\ \A p \in Pair : Visits("resolutions")!Asked(p, "resolve")
       => inspectionAsked[p].how \in {"resolve", "reopen", "date"}

LEMMA ResolveInit == Visits("resolutions")!Init => ResolveInv
  BY DEF Visits!Init, ResolveInv, Visits!Asked

\* A request that is made, or answered, leaves the others as they are.
LEMMA ResolveAsks ==
  ASSUME ResolveInv, NEW p \in Pair, NEW x, inspectionAsked' = [inspectionAsked EXCEPT ![p] = x],
         correction' = [c \in Corrections |-> correction'[c]],
         x = None \/ (x.op = "resolve" => x.how \in {"resolve", "reopen", "date"})
  PROVE  ResolveInv'
<1>1. /\ inspectionAsked' = [q \in Pair |-> inspectionAsked'[q]]
      /\ inspectionAsked'[p] = x
      /\ \A q \in Pair : q # p => inspectionAsked'[q] = inspectionAsked[q]
  BY DEF ResolveInv
<1>2. \A q \in Pair : Visits("resolutions")!Asked(q, "resolve")'
        => inspectionAsked'[q].how \in {"resolve", "reopen", "date"}
  BY <1>1 DEF Visits!Asked, ResolveInv
<1> QED BY <1>1, <1>2 DEF ResolveInv

\* A moment already recorded is kept by whoever read it.
LEMMA ResolveStep ==
  ResolveInv /\ [Visits("resolutions")!Next]_inspecting =>
    ResolveInv' /\ (Visits("resolutions")!KeepsFirstResolution \/ UNCHANGED inspecting)
<1> SUFFICES ASSUME ResolveInv, [Visits("resolutions")!Next]_inspecting
             PROVE  ResolveInv' /\ (Visits("resolutions")!KeepsFirstResolution
                                    \/ UNCHANGED inspecting)
  OBVIOUS
<1>0. ASSUME correction' = correction PROVE Visits("resolutions")!KeepsFirstResolution
  BY <1>0 DEF Visits!KeepsFirstResolution
<1>1. ASSUME NEW p \in Pair, NEW c \in Corrections, Visits("resolutions")!ResolveReads(p, c)
      PROVE  ResolveInv' /\ correction' = correction
  <2>1. PICK how \in {"resolve", "reopen", "date"} :
          Visits("resolutions")!Asks(p, [op |-> "resolve", of |-> c, how |-> how,
                                         read |-> correction[c].at])
    BY <1>1 DEF Visits!ResolveReads
  <2>2. PICK x : x = [op |-> "resolve", of |-> c, how |-> how, read |-> correction[c].at]
    OBVIOUS
  <2>3. inspectionAsked' = [inspectionAsked EXCEPT ![p] = x] /\ correction' = correction
    BY <1>1, <2>1, <2>2 DEF Visits!Asks, Visits!ResolveReads
  <2>4. x.how \in {"resolve", "reopen", "date"}
    BY <2>2
  <2>5. correction' = [d \in Corrections |-> correction'[d]]
    BY <2>3 DEF ResolveInv
  <2> QED BY <2>3, <2>4, <2>5, ResolveAsks
<1>2. ASSUME NEW p \in Pair, Visits("resolutions")!ResolveWrites(p)
      PROVE  ResolveInv' /\ Visits("resolutions")!KeepsFirstResolution
  <2> DEFINE at == Visits("resolutions")!ResolvedAt(p)
  <2>1. PICK b : correction' = [correction EXCEPT ![inspectionAsked[p].of] = [at |-> at, by |-> b]]
    <3>1. correction' = [correction EXCEPT ![inspectionAsked[p].of] =
            [at |-> at, by |-> IF at = None THEN correction[inspectionAsked[p].of].by ELSE p]]
      BY <1>2 DEF Visits!ResolveWrites
    <3> QED BY <3>1
  <2>2. PICK y : y = [at |-> at, by |-> b]
    OBVIOUS
  <2>3. y.at = at /\ correction' = [correction EXCEPT ![inspectionAsked[p].of] = y]
    BY <2>1, <2>2
  <2>4. /\ inspectionAsked' = [inspectionAsked EXCEPT ![p] = None]
        /\ Visits("resolutions")!Asked(p, "resolve")
    BY <1>2 DEF Visits!ResolveWrites, Visits!Answered
  <2>5. inspectionAsked'[p] = None
    BY <2>4 DEF ResolveInv
  <2>6. /\ correction' = [d \in Corrections |-> correction'[d]]
        /\ \A d \in Corrections : correction'[d] = correction[d] \/ correction'[d] = y
    BY <2>3 DEF ResolveInv
  <2>7. ResolveInv'
    BY <2>4, <2>6, ResolveAsks
  <2>8. ASSUME NEW c \in Corrections, correction[c].at # correction'[c].at,
               correction[c].at # None, correction'[c].at # None
        PROVE  inspectionAsked[p].how = "date" \/ inspectionAsked[p].read # correction[c].at
    <3>1. correction'[c].at = at
      BY <2>3, <2>6, <2>8
    <3>2. inspectionAsked[p].how \in {"resolve", "reopen", "date"}
      BY <2>4 DEF ResolveInv
    <3> QED BY <2>8, <3>1, <3>2 DEF Visits!ResolvedAt
  <2> QED BY <2>4, <2>5, <2>7, <2>8 DEF Visits!KeepsFirstResolution
<1>3. ASSUME NEW p \in Pair, NEW i, Visits("resolutions")!RecordReads(p, i)
      PROVE  ResolveInv' /\ correction' = correction
  <2>1. PICK r, d : Visits("resolutions")!Asks(p, [op |-> "record", row |-> i,
              was |-> inspections[i].result, result |-> r, date |-> d])
    BY <1>3 DEF Visits!RecordReads
  <2>2. PICK x : x = [op |-> "record", row |-> i, was |-> inspections[i].result,
                      result |-> r, date |-> d]
    OBVIOUS
  <2>3. inspectionAsked' = [inspectionAsked EXCEPT ![p] = x] /\ correction' = correction
    BY <1>3, <2>1, <2>2 DEF Visits!Asks, Visits!RecordReads
  <2>4. x.op # "resolve"
    BY <2>2
  <2>5. correction' = [e \in Corrections |-> correction'[e]]
    BY <2>3 DEF ResolveInv
  <2> QED BY <2>3, <2>4, <2>5, ResolveAsks
<1>4. ASSUME NEW p \in Pair, Visits("resolutions")!RecordWrites(p)
      PROVE  ResolveInv' /\ correction' = correction
  <2>1. inspectionAsked' = [inspectionAsked EXCEPT ![p] = None] /\ correction' = correction
    BY <1>4 DEF Visits!RecordWrites, Visits!Answered
  <2>2. correction' = [e \in Corrections |-> correction'[e]]
    BY <2>1 DEF ResolveInv
  <2> QED BY <2>1, <2>2, ResolveAsks
<1>5. ASSUME \/ Visits("resolutions")!Schedule
             \/ \E i \in Visits("resolutions")!Rows : Visits("resolutions")!DateComes(i)
             \/ \E c \in Corrections : Visits("resolutions")!Promote(c)
             \/ UNCHANGED inspecting
      PROVE  ResolveInv' /\ correction' = correction
  <2>1. inspectionAsked' = inspectionAsked /\ correction' = correction
    BY <1>5, Zenon DEF Visits!Schedule, Visits!DateComes, Visits!Promote, inspecting
  <2> QED BY <2>1 DEF ResolveInv, Visits!Asked
<1> QED BY <1>0, <1>1, <1>2, <1>3, <1>4, <1>5 DEF Visits!Next

\* The three together.
HistoryInv ==
  PermitInv /\ ApplicationInv /\ (which = "resolutions" => ResolveInv)

\* What was done is not undone by what was asked meanwhile: an unforced change of a
\* permit's status is one the table has, its end is left by what was begun before it
\* only, nobody deletes a permit they saw issued, no upload of an application is
\* dropped, and the moment a correction was first resolved stays.
THEOREM HistoryStays == Spec => HistoryKept
<1>1. Init => HistoryInv
  <2>1. Init => OnePermit!Init /\ Application!Init
    BY DEF Init
  <2>2. Init /\ which = "resolutions" => Visits("resolutions")!Init
    <3>1. Init => \E w \in VisitLooks : (w = which \/ which \notin VisitLooks) /\ Visits(w)!Init
      BY DEF Init
    <3> QED BY <3>1 DEF VisitLooks
  <2> QED BY <2>1, <2>2, PermitInit, ApplicationInit, ResolveInit DEF HistoryInv
<1>2. HistoryInv /\ [Next]_all => HistoryInv' /\ [Possible]_permit /\ [Ended]_permit
        /\ [LiveKept]_deleted /\ [Uploaded]_<<checklist, carried>> /\ [Followed]_applying
        /\ [which = "resolutions" => Visits("resolutions")!KeepsFirstResolution]_all
  <2> SUFFICES ASSUME HistoryInv, [Next]_all
               PROVE  /\ HistoryInv' /\ [Possible]_permit /\ [Ended]_permit
                      /\ [LiveKept]_deleted /\ [Uploaded]_<<checklist, carried>>
                      /\ [Followed]_applying
                      /\ [which = "resolutions" => Visits("resolutions")!KeepsFirstResolution]_all
    OBVIOUS
  <2>1. [OnePermit!Next]_permitting /\ [Application!Next]_applying /\ which' = which
    BY DEF Next, all
  <2>2. which = "resolutions" => [Visits("resolutions")!Next]_inspecting
    <3> SUFFICES ASSUME which = "resolutions", Next PROVE Visits("resolutions")!Next
      BY DEF all
    <3>1. \E w \in VisitLooks : which = w /\ Visits(w)!Next
      BY DEF Next, VisitLooks
    <3> QED BY <3>1
  <2>3. PermitInv' /\ [Possible]_permit /\ [Ended]_permit /\ [LiveKept]_deleted
    BY <2>1, PermitStep, PermitPossible DEF HistoryInv
  <2>4. ApplicationInv' /\ [Uploaded]_<<checklist, carried>> /\ [Followed]_applying
    BY <2>1, ApplicationStep DEF HistoryInv
  <2>5. which = "resolutions" => ResolveInv'
          /\ (Visits("resolutions")!KeepsFirstResolution \/ UNCHANGED inspecting)
    BY <2>2, ResolveStep DEF HistoryInv
  <2>6. UNCHANGED inspecting => Visits("resolutions")!KeepsFirstResolution
    BY DEF inspecting, Visits!KeepsFirstResolution
  <2> QED BY <2>1, <2>3, <2>4, <2>5, <2>6 DEF HistoryInv
<1>3. HistoryInv /\ [Next]_all => HistoryInv' /\ [KeepsHistory]_all
  <2>1. /\ Possible => OnePermit!MovesPossibly
        /\ Ended => OnePermit!KeepsEnd
        /\ LiveKept => OnePermit!KeepsLive
    BY DEF Possible, Ended, LiveKept, OnePermit!MovesPossibly, OnePermit!KeepsEnd,
           OnePermit!KeepsLive
  <2>2. /\ Uploaded => Application!KeepsUploads
        /\ Followed => Application!FollowsFacts
    BY DEF Uploaded, Followed, Application!KeepsUploads, Application!FollowsFacts
  <2> QED BY <1>2, <2>1, <2>2 DEF KeepsHistory
<1> QED
  BY <1>1, <1>3, PTL DEF Spec, HistoryKept, KeepsHistory

-----------------------------------------------------------------------------
(* Somebody is left to administer.                                         *)

IsAdmin(v) ==
  AccountsOf!Exists(v) /\ account[v].active /\ account[v].role = "ADMIN"

\* What a request nobody overtook has read is still so: who asks for the change of
\* another's account is an administrator, who asks for their own leaves it one, and
\* a contractor's team does without whom it demotes.
TeamStands(u, on, admin) ==
  /\ account[u].role # "ADMIN"
  /\ account[u].clientAdmin /\ ~(on /\ admin)
       => AccountsOf!OtherClientAdmins(u, account[u].company) # {}
StillRead(a) ==
  LET r == accountAsked[a]
      u == r.locks
  IN /\ AccountsOf!Asks(a, "user") =>
          (a = u => r.role = "ADMIN" /\ r.active) /\ (a # u => IsAdmin(a))
     /\ AccountsOf!Asks(a, "role") => a # u /\ IsAdmin(a)
     /\ AccountsOf!Asks(a, "team") => TeamStands(u, r.active, r.clientAdmin)
FirmInv ==
  /\ \A u \in Users : AccountsOf!Exists(u) => AccountsOf!Allowed(account[u])
  /\ \A a \in Users : a \in accountStale \/ StillRead(a)

\* The three properties of a step.
AdminKept ==
  AccountsOf!HasAdmin /\ ~AccountsOf!HasAdmin' =>
    \E a \in Users : AccountsOf!Asks(a, "invite") \/ (accountAsked[a] # None /\ a \in accountStale)
TeamKept ==
  \A a \in Users, c \in Employers :
    /\ a \notin accountStale
    /\ AccountsOf!Asks(a, "team") /\ AccountsOf!TeamUpdateWrites(a)
    /\ AccountsOf!HasClientAdmin(c)
    => AccountsOf!HasClientAdmin(c)'
PasswordKept ==
  \A u \in Users : AccountsOf!Claimed(u) /\ account'[u].password # account[u].password =>
    AccountsOf!ResetPassword(u) \/ AccountsOf!SetupCreates(u)

\* A change of a row that leaves a person what they were, or makes them active.
SameStanding(r, row) ==
  /\ row.role = r.role /\ row.company = r.company /\ row.clientAdmin = r.clientAdmin
  /\ r.active => row.active

LEMMA RowStanding ==
  ASSUME NEW r \in AccountsOf!Row, NEW p \in 0 .. 2
  PROVE  /\ SameStanding(r, [r EXCEPT !.password = p, !.invited = FALSE, !.active = TRUE])
         /\ SameStanding(r, [r EXCEPT !.password = p, !.reset = FALSE])
         /\ SameStanding(r, [r EXCEPT !.reset = TRUE])
         /\ SameStanding(r, [r EXCEPT !.invited = TRUE, !.active = TRUE])
<1>1. /\ "role" \in DOMAIN r /\ "company" \in DOMAIN r
      /\ "clientAdmin" \in DOMAIN r /\ "active" \in DOMAIN r
  BY DEF AccountsOf!Row
<1>2. SameStanding(r, [r EXCEPT !.password = p, !.invited = FALSE, !.active = TRUE])
  BY <1>1 DEF SameStanding
<1>3. SameStanding(r, [r EXCEPT !.password = p, !.reset = FALSE])
  BY <1>1 DEF SameStanding
<1>4. SameStanding(r, [r EXCEPT !.reset = TRUE])
  BY <1>1 DEF SameStanding
<1>5. SameStanding(r, [r EXCEPT !.invited = TRUE, !.active = TRUE])
  BY <1>1 DEF SameStanding
<1> QED BY <1>2, <1>3, <1>4, <1>5

LEMMA FirmInit == AccountsOf!Init => FirmInv
<1> SUFFICES ASSUME AccountsOf!Init PROVE FirmInv
  OBVIOUS
<1>1. PICK firm \in SUBSET Users, team \in SUBSET Users :
        account = [u \in Users |-> CASE u \in firm -> AccountsOf!Staffed(u, "ADMIN")
                                     [] u \in team -> AccountsOf!Staffed(u, "CLIENT")
                                     [] OTHER -> None]
  BY DEF AccountsOf!Init
<1>2. (CHOOSE c \in Employers : TRUE) \in Employers
  BY AccountsAssumption
<1>3. \A u \in Users, role \in {"ADMIN", "CLIENT"} : AccountsOf!Allowed(AccountsOf!Staffed(u, role))
  BY <1>2, AccountsAssumption DEF AccountsOf!Allowed, AccountsOf!Staffed
<1>4. \A u \in Users : account[u] = None \/ AccountsOf!Allowed(account[u])
  BY <1>1, <1>3
<1>5. \A a \in Users : StillRead(a)
  BY DEF AccountsOf!Init, StillRead, AccountsOf!Asks
<1> QED BY <1>4, <1>5 DEF FirmInv, AccountsOf!Exists

\* A request made now has read what is so now.
LEMMA FirmAsks ==
  ASSUME ClaimInv, FirmInv, NEW u \in Users, NEW x, AccountsOf!Ask(u, x),
         (accountAsked'[u] = x) => StillRead(u)'
  PROVE  FirmInv' /\ account' = account
<1>1. /\ accountAsked' = [accountAsked EXCEPT ![u] = x] /\ account' = account
      /\ accountStale' = accountStale /\ accountAsked'[u] = x
      /\ \A a \in Users : a # u => accountAsked'[a] = accountAsked[a]
  BY DEF ClaimInv, AccountsOf!Ask
<1>2. ASSUME NEW a \in Users, a # u, StillRead(a) PROVE StillRead(a)'
  BY <1>1, <1>2 DEF StillRead, TeamStands, AccountsOf!Asks, IsAdmin, AccountsOf!Exists,
     AccountsOf!OtherClientAdmins, AccountsOf!Administers
<1>3. \A a \in Users : AccountsOf!Exists(a)' => AccountsOf!Allowed(account[a])'
  BY <1>1 DEF FirmInv, AccountsOf!Exists, AccountsOf!Allowed
<1> QED BY <1>1, <1>2, <1>3 DEF FirmInv

\* A write that is no answer overtakes nobody, and demotes nobody.
LEMMA FirmUpdates ==
  ASSUME ClaimInv, FirmInv, NEW v \in Users, NEW row \in AccountsOf!Row,
         AccountsOf!Exists(v), SameStanding(account[v], row),
         account' = [account EXCEPT ![v] = row], accountAsked' = accountAsked,
         accountStale' = accountStale
  PROVE  FirmInv' /\ (AccountsOf!HasAdmin => AccountsOf!HasAdmin')
<1> HIDE DEF AccountsOf!Row
<1>1. /\ account'[v] = row /\ row # None
      /\ \A u \in Users : u # v => account'[u] = account[u]
  BY AccountsAssumption DEF ClaimInv, RowsInv
<1>2. \A u \in Users : AccountsOf!Exists(u) <=> AccountsOf!Exists(u)'
  BY <1>1 DEF AccountsOf!Exists
<1>3. \A u \in Users : AccountsOf!Exists(u) => SameStanding(account[u], account'[u])
  BY <1>1 DEF SameStanding
<1>4. \A u \in Users : IsAdmin(u) => IsAdmin(u)'
  BY <1>2, <1>3 DEF IsAdmin, SameStanding
<1>5. \A u \in Users : AccountsOf!Exists(u)' => AccountsOf!Allowed(account[u])'
  BY <1>2, <1>3 DEF FirmInv, AccountsOf!Allowed, SameStanding
<1>6. ASSUME NEW a \in Users, StillRead(a) PROVE StillRead(a)'
  <2>1. ASSUME NEW u \in Users, NEW on, NEW admin, AccountsOf!Exists(u), TeamStands(u, on, admin)
        PROVE  TeamStands(u, on, admin)'
    <3>1. /\ account'[u].role = account[u].role /\ account'[u].company = account[u].company
          /\ account'[u].clientAdmin = account[u].clientAdmin
      BY <1>3, <2>1 DEF SameStanding
    <3>2. \A c : \A w \in Users : AccountsOf!Administers(w, c) => AccountsOf!Administers(w, c)'
      BY <1>2, <1>3 DEF AccountsOf!Administers, SameStanding
    <3>3. PICK c : c = account[u].company
      OBVIOUS
    <3>4. AccountsOf!OtherClientAdmins(u, c) \subseteq AccountsOf!OtherClientAdmins(u, c)'
      BY <3>2 DEF AccountsOf!OtherClientAdmins
    <3>5. AccountsOf!OtherClientAdmins(u, account[u].company)' = AccountsOf!OtherClientAdmins(u, c)'
      BY <3>1, <3>3 DEF AccountsOf!OtherClientAdmins
    <3> QED BY <2>1, <3>1, <3>3, <3>4, <3>5 DEF TeamStands
  <2>2. AccountsOf!Asks(a, "user") =>
          /\ a = accountAsked[a].locks => accountAsked[a].role = "ADMIN" /\ accountAsked[a].active
          /\ a # accountAsked[a].locks => IsAdmin(a)'
    BY <1>4, <1>6, Zenon DEF StillRead
  <2>3. AccountsOf!Asks(a, "role") => a # accountAsked[a].locks /\ IsAdmin(a)'
    BY <1>4, <1>6, Zenon DEF StillRead
  <2>4. AccountsOf!Asks(a, "team") =>
          TeamStands(accountAsked[a].locks, accountAsked[a].active, accountAsked[a].clientAdmin)'
    <3> SUFFICES ASSUME AccountsOf!Asks(a, "team")
                 PROVE  TeamStands(accountAsked[a].locks, accountAsked[a].active,
                                   accountAsked[a].clientAdmin)'
      OBVIOUS
    <3>1. PICK u \in Users : u = accountAsked[a].locks /\ AccountsOf!Exists(u)
      BY DEF ClaimInv, RequestTyped
    <3>2. PICK on, admin : on = accountAsked[a].active /\ admin = accountAsked[a].clientAdmin
      OBVIOUS
    <3>3. TeamStands(u, on, admin)
      BY <1>6, <3>1, <3>2 DEF StillRead
    <3>4. TeamStands(u, on, admin)'
      BY <2>1, <3>1, <3>3
    <3> QED BY <3>1, <3>2, <3>4
  <2>5. \A op : AccountsOf!Asks(a, op)' <=> AccountsOf!Asks(a, op)
    BY DEF AccountsOf!Asks
  <2> QED BY <2>2, <2>3, <2>4, <2>5 DEF StillRead
<1>7. AccountsOf!HasAdmin => AccountsOf!HasAdmin'
  <2>1. AccountsOf!HasAdmin <=> \E u \in Users : IsAdmin(u)
    BY DEF AccountsOf!HasAdmin, IsAdmin
  <2>2. AccountsOf!HasAdmin' <=> \E u \in Users : IsAdmin(u)'
    BY DEF AccountsOf!HasAdmin, IsAdmin, AccountsOf!Exists
  <2> QED BY <1>4, <2>1, <2>2, Zenon
<1> QED BY <1>5, <1>6, <1>7 DEF FirmInv

\* Whoever answers overtakes all who wait. The firm keeps an administrator if what is
\* written is one, if who it is written of was none, or if there is another.
LEMMA FirmAnswers ==
  ASSUME ClaimInv, FirmInv, NEW u \in Users, NEW v \in Users, NEW row \in AccountsOf!Row,
         AccountsOf!Answer(u, v, row),
         \/ row.role = "ADMIN" /\ row.active
         \/ ~IsAdmin(v)
         \/ \E w \in Users \ {v} : IsAdmin(w)
         \/ \E a \in Users : \/ AccountsOf!Asks(a, "invite")
                             \/ accountAsked[a] # None /\ a \in accountStale,
         AccountsOf!Claimed(v) => row.password = account[v].password \/ AccountsOf!SetupCreates(v)
  PROVE  FirmInv' /\ AdminKept /\ PasswordKept
<1> HIDE DEF AccountsOf!Row
<1>1. /\ account' = [account EXCEPT ![v] = row] /\ AccountsOf!Allowed(row)
      /\ accountAsked' = [accountAsked EXCEPT ![u] = None]
      /\ accountStale' = (accountStale \ {u}) \cup {w \in Users \ {u} : accountAsked[w] # None}
  BY DEF AccountsOf!Answer
<1>2. /\ account'[v] = row /\ row # None
      /\ \A w \in Users : w # v => account'[w] = account[w]
  BY <1>1, AccountsAssumption DEF ClaimInv, RowsInv
<1>3. /\ accountAsked'[u] = None
      /\ \A w \in Users : w # u => accountAsked'[w] = accountAsked[w]
  BY <1>1 DEF ClaimInv
<1>4. \A w \in Users : w \in accountStale' \/ StillRead(w)'
  <2> SUFFICES ASSUME NEW w \in Users, w \notin accountStale' PROVE StillRead(w)'
    OBVIOUS
  <2>1. accountAsked'[w] = None
    BY <1>1, <1>3
  <2> QED BY <2>1 DEF StillRead, AccountsOf!Asks
<1>5. \A w \in Users : AccountsOf!Exists(w)' => AccountsOf!Allowed(account[w])'
  <2>1. AccountsOf!Allowed(account[v])'
    BY <1>1, <1>2 DEF AccountsOf!Allowed
  <2>2. ASSUME NEW w \in Users, w # v, AccountsOf!Exists(w)' PROVE AccountsOf!Allowed(account[w])'
    BY <1>2, <2>2 DEF FirmInv, AccountsOf!Exists, AccountsOf!Allowed
  <2> QED BY <2>1, <2>2
<1>6. AdminKept
  <2>1. \A w \in Users : w # v /\ IsAdmin(w) => IsAdmin(w)'
    BY <1>2 DEF IsAdmin, AccountsOf!Exists
  <2>2. row.role = "ADMIN" /\ row.active => IsAdmin(v)'
    BY <1>2 DEF IsAdmin, AccountsOf!Exists
  <2>3. AccountsOf!HasAdmin => \E w \in Users : IsAdmin(w)
    BY DEF AccountsOf!HasAdmin, IsAdmin
  <2>4. (\E w \in Users : IsAdmin(w)') => AccountsOf!HasAdmin'
    BY DEF AccountsOf!HasAdmin, IsAdmin, AccountsOf!Exists
  <2> QED BY <2>1, <2>2, <2>3, <2>4, Zenon DEF AdminKept
<1>7. PasswordKept
  BY <1>2 DEF PasswordKept, AccountsOf!Claimed
<1> QED BY <1>4, <1>5, <1>6, <1>7 DEF FirmInv

\* A step that leaves the accounts as they are keeps who is in them.
LEMMA FirmReads ==
  ASSUME account' = account
  PROVE  AdminKept /\ PasswordKept
<1>1. AccountsOf!HasAdmin' = AccountsOf!HasAdmin
  BY DEF AccountsOf!HasAdmin, AccountsOf!Exists
<1> QED BY <1>1 DEF AdminKept, PasswordKept

LEMMA FirmSetup ==
  ASSUME ClaimInv, FirmInv, NEW u \in Users, AccountsOf!SetupAsks(u) \/ AccountsOf!SetupCreates(u)
  PROVE  FirmInv' /\ AdminKept /\ PasswordKept
<1>1. CASE AccountsOf!SetupAsks(u)
  <2>1. AccountsOf!Ask(u, [op |-> "setup"])
    BY <1>1 DEF AccountsOf!SetupAsks
  <2>2. (accountAsked'[u] = [op |-> "setup"]) => StillRead(u)'
    BY DEF StillRead, AccountsOf!Asks
  <2> QED BY <2>1, <2>2, FirmAsks, FirmReads
<1>2. CASE AccountsOf!SetupCreates(u)
  <2>1. PICK p \in 0 .. 2 :
          p = IF AccountsOf!Exists(u) THEN AccountsOf!Another(account[u].password) ELSE 1
    BY DEF AccountsOf!Another
  <2>2. PICK c \in Employers \cup {None} :
          c = IF AccountsOf!Exists(u) THEN account[u].company ELSE None
    BY RowThere, RowFields
  <2>3. PICK b \in BOOLEAN : b = (AccountsOf!Exists(u) /\ account[u].clientAdmin)
    OBVIOUS
  <2>4. PICK x \in BOOLEAN : x = (AccountsOf!Exists(u) /\ account[u].reset)
    OBVIOUS
  <2> DEFINE row == [role |-> "ADMIN", company |-> c, clientAdmin |-> b, active |-> TRUE,
                     password |-> p, invited |-> FALSE, reset |-> x]
  <2>5. AccountsOf!Answer(u, u, row)
    BY <1>2, <2>1, <2>2, <2>3, <2>4, Zenon DEF AccountsOf!SetupCreates
  <2>6. "ADMIN" \in AccountsOf!Roles /\ TRUE \in BOOLEAN /\ FALSE \in BOOLEAN
    BY DEF AccountsOf!Roles
  <2>7. row \in AccountsOf!Row
    BY <2>6, RowMade
  <2>8. row.role = "ADMIN" /\ row.active
    OBVIOUS
  <2> HIDE DEF row
  <2> QED BY <1>2, <2>5, <2>7, <2>8, FirmAnswers
<1> QED BY <1>1, <1>2

LEMMA FirmChanges ==
  ASSUME ClaimInv, FirmInv, NEW u \in Users,
         \/ AccountsOf!AcceptInvite(u) \/ AccountsOf!ResetPassword(u)
         \/ AccountsOf!ResendInvite(u) \/ AccountsOf!IssueReset(u)
  PROVE  FirmInv' /\ AdminKept /\ PasswordKept
<1> DEFINE r == account[u]
<1>1. AccountsOf!Exists(u) /\ r \in AccountsOf!Row
  BY RowThere, Zenon DEF AccountsOf!AcceptInvite, AccountsOf!ResetPassword, AccountsOf!ResendInvite,
     AccountsOf!IssueReset, AccountsOf!Claimed
<1>2. 1 \in 0 .. 2 /\ AccountsOf!Another(r.password) \in 0 .. 2
  BY DEF AccountsOf!Another
<1>3. PICK row \in AccountsOf!Row :
        /\ account' = [account EXCEPT ![u] = row] /\ SameStanding(r, row)
        /\ AccountsOf!Claimed(u) => row.password = r.password \/ AccountsOf!ResetPassword(u)
  <2>1. CASE AccountsOf!AcceptInvite(u)
    <3>1. account' = [account EXCEPT ![u] = [r EXCEPT !.password = 1, !.invited = FALSE,
                                                      !.active = TRUE]]
      BY <2>1 DEF AccountsOf!AcceptInvite, AccountsOf!Update
    <3>2. ~AccountsOf!Claimed(u)
      BY <2>1 DEF AccountsOf!AcceptInvite
    <3> QED BY <1>1, <1>2, <3>1, <3>2, RowClaimed, RowStanding
  <2>2. CASE AccountsOf!ResetPassword(u)
    <3>1. account' = [account EXCEPT ![u] = [r EXCEPT !.password = AccountsOf!Another(r.password),
                                                      !.reset = FALSE]]
      BY <2>2 DEF AccountsOf!ResetPassword, AccountsOf!Update
    <3> QED BY <1>1, <1>2, <2>2, <3>1, RowClaimed, RowStanding
  <2>3. CASE AccountsOf!ResendInvite(u)
    <3>1. account' = [account EXCEPT ![u] = [r EXCEPT !.invited = TRUE, !.active = TRUE]]
      BY <2>3 DEF AccountsOf!ResendInvite, AccountsOf!Update
    <3> QED BY <1>1, <1>2, <3>1, RowClaimed, RowStanding
  <2>4. CASE AccountsOf!IssueReset(u)
    <3>1. account' = [account EXCEPT ![u] = [r EXCEPT !.reset = TRUE]]
      BY <2>4 DEF AccountsOf!IssueReset
    <3> QED BY <1>1, <1>2, <3>1, RowClaimed, RowStanding
  <2> QED BY <2>1, <2>2, <2>3, <2>4
<1>4. accountAsked' = accountAsked /\ accountStale' = accountStale
  BY Zenon DEF AccountsOf!AcceptInvite, AccountsOf!ResetPassword, AccountsOf!ResendInvite,
     AccountsOf!IssueReset, AccountsOf!Update
<1>5. FirmInv' /\ (AccountsOf!HasAdmin => AccountsOf!HasAdmin')
  BY <1>1, <1>3, <1>4, FirmUpdates
<1>6. PasswordKept
  <2> HIDE DEF AccountsOf!Row
  <2>1. account'[u] = row /\ \A w \in Users : w # u => account'[w] = account[w]
    BY <1>3 DEF ClaimInv, RowsInv
  <2> QED BY <1>3, <2>1 DEF PasswordKept
<1> QED BY <1>5, <1>6 DEF AdminKept

LEMMA FirmForgot ==
  ASSUME ClaimInv, FirmInv, NEW u \in Users, AccountsOf!ForgotAsks(u) \/ AccountsOf!ForgotSends(u)
  PROVE  FirmInv' /\ AdminKept /\ PasswordKept
<1>1. CASE AccountsOf!ForgotAsks(u)
  <2>1. AccountsOf!Ask(u, [op |-> "forgot"])
    BY <1>1 DEF AccountsOf!ForgotAsks
  <2>2. (accountAsked'[u] = [op |-> "forgot"]) => StillRead(u)'
    BY DEF StillRead, AccountsOf!Asks
  <2> QED BY <2>1, <2>2, FirmAsks, FirmReads
<1>2. CASE AccountsOf!ForgotSends(u)
  <2> DEFINE row == [account[u] EXCEPT !.reset = TRUE]
  <2>1. AccountsOf!Answer(u, u, row) /\ AccountsOf!Claimed(u)
    BY <1>2 DEF AccountsOf!ForgotSends, ClaimInv, RequestTyped
  <2>2. account[u] \in AccountsOf!Row /\ AccountsOf!Exists(u)
    BY <2>1, RowThere DEF AccountsOf!Claimed
  <2>3. 1 \in 0 .. 2
    OBVIOUS
  <2>4. /\ row \in AccountsOf!Row /\ row.password = account[u].password
        /\ SameStanding(account[u], row)
    BY <2>2, <2>3, RowClaimed, RowStanding
  <2>5. (row.role = "ADMIN" /\ row.active) \/ ~IsAdmin(u)
    BY <2>4 DEF IsAdmin, SameStanding
  <2> HIDE DEF row
  <2> QED BY <2>1, <2>4, <2>5, FirmAnswers
<1> QED BY <1>1, <1>2

LEMMA FirmInvite ==
  ASSUME ClaimInv, FirmInv, NEW a \in Users,
         AccountsOf!InviteWrites(a) \/ \E u \in Users : AccountsOf!InviteAsks(a, u)
  PROVE  FirmInv' /\ AdminKept /\ PasswordKept
<1>1. ASSUME NEW u \in Users, AccountsOf!InviteAsks(a, u)
      PROVE  FirmInv' /\ AdminKept /\ PasswordKept
  <2>1. PICK role \in AccountsOf!Roles, c \in Employers \cup {None}, admin \in BOOLEAN :
          LET first == role = "CLIENT" /\
                 \A v \in Users \ {u} : AccountsOf!Exists(v) => account[v].company # c
          IN AccountsOf!Ask(a, [op |-> "invite", to |-> u, role |-> role, company |-> c,
                                clientAdmin |-> admin \/ first])
    BY <1>1 DEF AccountsOf!InviteAsks
  <2>2. PICK b \in BOOLEAN :
          b = (admin \/ (role = "CLIENT" /\
                 \A v \in Users \ {u} : AccountsOf!Exists(v) => account[v].company # c))
    OBVIOUS
  <2> DEFINE x == [op |-> "invite", to |-> u, role |-> role, company |-> c, clientAdmin |-> b]
  <2>3. AccountsOf!Ask(a, x)
    BY <2>1, <2>2, Zenon
  <2>4. (accountAsked'[a] = x) => StillRead(a)'
    BY DEF StillRead, AccountsOf!Asks
  <2> HIDE DEF x
  <2> QED BY <2>3, <2>4, FirmAsks, FirmReads
<1>2. CASE AccountsOf!InviteWrites(a)
  <2> DEFINE r == accountAsked[a]
             v == r.to
  <2>1. /\ v \in Users /\ r.role \in AccountsOf!Roles /\ r.company \in Employers \cup {None}
        /\ r.clientAdmin \in BOOLEAN
    BY <1>2 DEF AccountsOf!InviteWrites, ClaimInv, RequestTyped
  <2>2. PICK p \in 0 .. 2 : p = IF AccountsOf!Exists(v) THEN account[v].password ELSE 0
    BY <2>1, RowThere, RowFields
  <2>3. PICK b \in BOOLEAN : b = (r.clientAdmin \/ (AccountsOf!Exists(v) /\ account[v].clientAdmin))
    OBVIOUS
  <2>4. PICK x \in BOOLEAN : x = (AccountsOf!Exists(v) /\ account[v].reset)
    OBVIOUS
  <2> DEFINE row == [role |-> r.role, company |-> r.company, clientAdmin |-> b, active |-> TRUE,
                     password |-> p, invited |-> TRUE, reset |-> x]
  <2>5. AccountsOf!Answer(a, v, row)
    <3>1. AccountsOf!Invited(v, r) = row
      BY <2>2, <2>3, <2>4, Zenon DEF AccountsOf!Invited
    <3> QED BY <1>2, <3>1, Zenon DEF AccountsOf!InviteWrites
  <2>6. row \in AccountsOf!Row
    BY <2>1, RowMade
  <2>7. AccountsOf!Claimed(v) => row.password = account[v].password
    BY <2>2 DEF AccountsOf!Claimed
  <2>8. AccountsOf!Asks(a, "invite")
    BY <1>2 DEF AccountsOf!InviteWrites
  <2> HIDE DEF row, v
  <2>9. v \in Users
    BY <2>1 DEF v
  <2> QED BY <2>5, <2>6, <2>7, <2>8, <2>9, FirmAnswers
<1> QED BY <1>1, <1>2

\* A contractor's invitation is for an address of the contractor's, so of no
\* administrator of the firm's.
LEMMA FirmTeamInvite ==
  ASSUME ClaimInv, FirmInv, NEW a \in Users,
         AccountsOf!TeamInviteWrites(a) \/ \E u \in Users : AccountsOf!TeamInviteAsks(a, u)
  PROVE  FirmInv' /\ AdminKept /\ PasswordKept
<1>1. ASSUME NEW u \in Users, AccountsOf!TeamInviteAsks(a, u)
      PROVE  FirmInv' /\ AdminKept /\ PasswordKept
  <2>1. PICK c \in Employers, admin \in BOOLEAN :
          AccountsOf!Ask(a, [op |-> "team_invite", to |-> u, company |-> c, clientAdmin |-> admin])
    BY <1>1 DEF AccountsOf!TeamInviteAsks
  <2> DEFINE x == [op |-> "team_invite", to |-> u, company |-> c, clientAdmin |-> admin]
  <2>2. (accountAsked'[a] = x) => StillRead(a)'
    BY DEF StillRead, AccountsOf!Asks
  <2> HIDE DEF x
  <2> QED BY <2>1, <2>2, FirmAsks, FirmReads DEF x
<1>2. CASE AccountsOf!TeamInviteWrites(a)
  <2> DEFINE r == accountAsked[a]
             v == r.to
  <2>1. v \in Users /\ r.company \in Employers /\ r.clientAdmin \in BOOLEAN
    BY <1>2 DEF AccountsOf!TeamInviteWrites, ClaimInv, RequestTyped
  <2>2. /\ ~(AccountsOf!Exists(v) /\ account[v].reset) /\ ~AccountsOf!Claimed(v)
        /\ AccountsOf!Exists(v) => account[v].company = r.company
    BY <1>2, <2>1 DEF AccountsOf!TeamInviteWrites, ClaimInv, RowsInv, AccountsOf!ResetIsForClaimed,
       AccountsOf!Claimed
  <2> DEFINE row == [role |-> "CLIENT", company |-> r.company, clientAdmin |-> r.clientAdmin,
                     active |-> TRUE, password |-> 0, invited |-> TRUE, reset |-> FALSE]
  <2>3. AccountsOf!Answer(a, v, row)
    BY <1>2, <2>2, Zenon DEF AccountsOf!TeamInviteWrites
  <2>4. row \in AccountsOf!Row
    <3>1. /\ "CLIENT" \in AccountsOf!Roles /\ r.company \in Employers \cup {None}
          /\ TRUE \in BOOLEAN /\ FALSE \in BOOLEAN /\ 0 \in 0 .. 2
      BY <2>1 DEF AccountsOf!Roles
    <3> QED BY <2>1, <3>1, RowMade
  <2>5. ~IsAdmin(v)
    <3>1. r.company # None
      BY <2>1, AccountsAssumption
    <3>2. AccountsOf!Exists(v) => (account[v].role = "CLIENT" <=> account[v].company # None)
      BY <2>1 DEF FirmInv, AccountsOf!Allowed
    <3> QED BY <2>2, <3>1, <3>2 DEF IsAdmin
  <2> HIDE DEF row, v
  <2>6. v \in Users
    BY <2>1 DEF v
  <2> QED BY <2>2, <2>3, <2>4, <2>5, <2>6, FirmAnswers
<1> QED BY <1>1, <1>2

\* The changes of an account that is there, as they are asked for.
LEMMA FirmChangeAsked ==
  ASSUME ClaimInv, FirmInv, NEW a \in Users, NEW u \in Users,
         \/ AccountsOf!UpdateUserAsks(a, u) \/ AccountsOf!ChangeRoleAsks(a, u)
         \/ AccountsOf!TeamUpdateAsks(a, u)
  PROVE  FirmInv' /\ AdminKept /\ PasswordKept
<1>1. CASE AccountsOf!UpdateUserAsks(a, u)
  <2>1. PICK role \in AccountsOf!Roles, on \in BOOLEAN :
          /\ a = u => on /\ role = "ADMIN"
          /\ AccountsOf!Ask(a, [op |-> "user", locks |-> u, role |-> role, active |-> on])
    BY <1>1 DEF AccountsOf!UpdateUserAsks
  <2> DEFINE x == [op |-> "user", locks |-> u, role |-> role, active |-> on]
  <2>2. IsAdmin(a)'
    BY <1>1, <2>1 DEF AccountsOf!UpdateUserAsks, AccountsOf!Ask, AccountsOf!Exists,
       AccountsOf!Stands, AccountsOf!Claimed, IsAdmin
  <2>3. (accountAsked'[a] = x) => StillRead(a)'
    BY <2>1, <2>2 DEF StillRead, AccountsOf!Asks
  <2> HIDE DEF x
  <2> QED BY <2>1, <2>3, FirmAsks, FirmReads DEF x
<1>2. CASE AccountsOf!ChangeRoleAsks(a, u)
  <2>1. PICK role \in AccountsOf!Roles, c \in Employers \cup {None} :
          AccountsOf!Ask(a, [op |-> "role", locks |-> u, role |-> role, company |-> c])
    BY <1>2 DEF AccountsOf!ChangeRoleAsks
  <2> DEFINE x == [op |-> "role", locks |-> u, role |-> role, company |-> c]
  <2>2. IsAdmin(a)' /\ a # u
    BY <1>2, <2>1 DEF AccountsOf!ChangeRoleAsks, AccountsOf!Ask, AccountsOf!Exists,
       AccountsOf!Stands, AccountsOf!Claimed, IsAdmin
  <2>3. (accountAsked'[a] = x) => StillRead(a)'
    BY <2>2 DEF StillRead, AccountsOf!Asks
  <2> HIDE DEF x
  <2> QED BY <2>1, <2>3, FirmAsks, FirmReads DEF x
<1>3. CASE AccountsOf!TeamUpdateAsks(a, u)
  <2>1. PICK c \in Employers, on \in BOOLEAN, admin \in BOOLEAN :
          /\ AccountsOf!Exists(u) /\ account[u].company = c
          /\ account[u].clientAdmin /\ ~(on /\ admin)
               => AccountsOf!OtherClientAdmins(u, c) # {}
          /\ AccountsOf!Ask(a, [op |-> "team", locks |-> u, active |-> on, clientAdmin |-> admin])
    BY <1>3 DEF AccountsOf!TeamUpdateAsks
  <2> DEFINE x == [op |-> "team", locks |-> u, active |-> on, clientAdmin |-> admin]
  <2>2. account[u].role # "ADMIN"
    <3>1. account[u].company # None
      BY <2>1, AccountsAssumption
    <3> QED BY <2>1, <3>1 DEF FirmInv, AccountsOf!Allowed
  <2>3. TeamStands(u, on, admin)
    BY <2>1, <2>2 DEF TeamStands
  <2>4. account' = account
    BY <2>1 DEF AccountsOf!Ask
  <2>5. TeamStands(u, on, admin)'
    BY <2>3, <2>4 DEF TeamStands, AccountsOf!OtherClientAdmins, AccountsOf!Administers,
       AccountsOf!Exists
  <2>6. (accountAsked'[a] = x) => StillRead(a)'
    BY <2>5 DEF StillRead, AccountsOf!Asks
  <2> HIDE DEF x
  <2> QED BY <2>1, <2>6, FirmAsks, FirmReads DEF x
<1> QED BY <1>1, <1>2, <1>3

\* And as they are written: by somebody who is still an administrator, or of somebody
\* who is none.
LEMMA FirmChange ==
  ASSUME ClaimInv, FirmInv, NEW a \in Users,
         \/ AccountsOf!UpdateUserWrites(a) \/ AccountsOf!ChangeRoleWrites(a)
         \/ AccountsOf!TeamUpdateWrites(a)
  PROVE  FirmInv' /\ AdminKept /\ PasswordKept
<1> DEFINE r == accountAsked[a]
           v == r.locks
<1>1. v \in Users /\ AccountsOf!Exists(v) /\ accountAsked[a] # None
  BY Zenon DEF AccountsOf!UpdateUserWrites, AccountsOf!ChangeRoleWrites, AccountsOf!TeamUpdateWrites,
     AccountsOf!Asks, ClaimInv, RequestTyped
<1>2. account[v] \in AccountsOf!Row
  BY <1>1, RowThere
<1>3. a \in accountStale \/ StillRead(a)
  BY DEF FirmInv
<1>4. CASE AccountsOf!UpdateUserWrites(a)
  <2> DEFINE row == [account[v] EXCEPT !.role = r.role, !.active = r.active]
  <2>1. r.role \in AccountsOf!Roles /\ r.active \in BOOLEAN /\ AccountsOf!Answer(a, v, row)
    BY <1>4 DEF AccountsOf!UpdateUserWrites, ClaimInv, RequestTyped
  <2>2. row \in AccountsOf!Row /\ row.password = account[v].password
    BY <1>2, <2>1, RowOfUser
  <2>3. row.role = r.role /\ row.active = r.active
    <3>1. "role" \in DOMAIN account[v] /\ "active" \in DOMAIN account[v]
      BY <1>2 DEF AccountsOf!Row
    <3> QED BY <3>1
  <2>4. a \in accountStale \/ (row.role = "ADMIN" /\ row.active) \/ (a # v /\ IsAdmin(a))
    BY <1>3, <1>4, <2>3 DEF AccountsOf!UpdateUserWrites, StillRead
  <2> HIDE DEF row, v
  <2> QED BY <1>1, <2>1, <2>2, <2>4, FirmAnswers
<1>5. CASE AccountsOf!ChangeRoleWrites(a)
  <2> DEFINE row == WithRole(account[v], r.role, r.company)
  <2>1. /\ r.role \in AccountsOf!Roles /\ r.company \in Employers \cup {None}
        /\ AccountsOf!Answer(a, v, row)
    BY <1>5 DEF AccountsOf!ChangeRoleWrites, ClaimInv, RequestTyped, WithRole
  <2>2. row \in AccountsOf!Row /\ row.password = account[v].password
    BY <1>2, <2>1, RowOfRole
  <2>3. a \in accountStale \/ (a # v /\ IsAdmin(a))
    BY <1>3, <1>5 DEF AccountsOf!ChangeRoleWrites, StillRead
  <2> HIDE DEF row, v
  <2> QED BY <1>1, <2>1, <2>2, <2>3, FirmAnswers
<1>6. CASE AccountsOf!TeamUpdateWrites(a)
  <2> DEFINE row == [account[v] EXCEPT !.active = r.active, !.clientAdmin = r.clientAdmin]
  <2>1. r.active \in BOOLEAN /\ r.clientAdmin \in BOOLEAN /\ AccountsOf!Answer(a, v, row)
    BY <1>6 DEF AccountsOf!TeamUpdateWrites, ClaimInv, RequestTyped
  <2>2. row \in AccountsOf!Row /\ row.password = account[v].password
    BY <1>2, <2>1, RowOfTeam
  <2>3. a \in accountStale \/ ~IsAdmin(v)
    BY <1>3, <1>6 DEF AccountsOf!TeamUpdateWrites, StillRead, TeamStands, IsAdmin
  <2> HIDE DEF row, v
  <2> QED BY <1>1, <2>1, <2>2, <2>3, FirmAnswers
<1> QED BY <1>4, <1>5, <1>6

\* A contractor's team still has who it was counted on for.
LEMMA FirmTeam == ClaimInv /\ FirmInv => TeamKept
<1> SUFFICES ASSUME ClaimInv, FirmInv, NEW a \in Users, NEW c \in Employers,
                    a \notin accountStale, AccountsOf!Asks(a, "team"),
                    AccountsOf!TeamUpdateWrites(a), AccountsOf!HasClientAdmin(c)
             PROVE  AccountsOf!HasClientAdmin(c)'
  BY DEF TeamKept
<1> DEFINE r == accountAsked[a]
<1>1. PICK u \in Users :
        /\ u = r.locks /\ AccountsOf!Exists(u) /\ r.active \in BOOLEAN /\ r.clientAdmin \in BOOLEAN
        /\ TeamStands(u, r.active, r.clientAdmin)
  BY DEF ClaimInv, RequestTyped, FirmInv, StillRead
<1> DEFINE row == [account[u] EXCEPT !.active = r.active, !.clientAdmin = r.clientAdmin]
<1>2. account[u] \in AccountsOf!Row
  BY <1>1, RowThere
<1>3. /\ row.active = r.active /\ row.clientAdmin = r.clientAdmin
      /\ row.company = account[u].company
  <2>1. /\ "active" \in DOMAIN account[u] /\ "clientAdmin" \in DOMAIN account[u]
        /\ "company" \in DOMAIN account[u]
    BY <1>2 DEF AccountsOf!Row
  <2> QED BY <2>1
<1>4. account' = [account EXCEPT ![u] = row] /\ row # None
  <2>1. row \in AccountsOf!Row
    BY <1>1, <1>2, RowOfTeam
  <2>2. account' = [account EXCEPT ![u] = row]
    BY <1>1 DEF AccountsOf!TeamUpdateWrites, AccountsOf!Answer
  <2> HIDE DEF row
  <2> QED BY <2>1, <2>2, AccountsAssumption
<1> HIDE DEF row
<1>5. account'[u] = row /\ \A w \in Users : w # u => account'[w] = account[w]
  <2> HIDE DEF AccountsOf!Row
  <2> QED BY <1>1, <1>4 DEF ClaimInv, RowsInv
<1>6. \A w \in Users : w # u /\ AccountsOf!Administers(w, c) => AccountsOf!Administers(w, c)'
  BY <1>5 DEF AccountsOf!Administers, AccountsOf!Exists
<1>7. PICK w \in Users : AccountsOf!Administers(w, c)
  BY DEF AccountsOf!HasClientAdmin
<1>8. CASE w # u
  BY <1>6, <1>7, <1>8 DEF AccountsOf!HasClientAdmin
<1>9. CASE w = u /\ r.active /\ r.clientAdmin
  <2>1. AccountsOf!Administers(u, c)'
    BY <1>1, <1>3, <1>4, <1>5, <1>7, <1>9 DEF AccountsOf!Administers, AccountsOf!Exists
  <2> QED BY <1>1, <2>1 DEF AccountsOf!HasClientAdmin
<1>10. CASE w = u /\ ~(r.active /\ r.clientAdmin)
  <2>1. AccountsOf!OtherClientAdmins(u, c) # {}
    BY <1>1, <1>7, <1>10 DEF TeamStands, AccountsOf!Administers
  <2>2. PICK v \in Users : v # u /\ AccountsOf!Administers(v, c)
    BY <2>1 DEF AccountsOf!OtherClientAdmins
  <2> QED BY <1>6, <2>2 DEF AccountsOf!HasClientAdmin
<1> QED BY <1>8, <1>9, <1>10

LEMMA FirmStep ==
  ClaimInv /\ FirmInv /\ [AccountsOf!Next]_accounts => FirmInv' /\ AdminKept /\ PasswordKept
<1> SUFFICES ASSUME ClaimInv, FirmInv, [AccountsOf!Next]_accounts
             PROVE  FirmInv' /\ AdminKept /\ PasswordKept
  OBVIOUS
<1>1. ASSUME NEW u \in Users, AccountsOf!Abandon(u) PROVE FirmInv' /\ account' = account
  <2>1. /\ accountAsked' = [accountAsked EXCEPT ![u] = None] /\ account' = account
        /\ accountStale' = accountStale \ {u}
    BY <1>1 DEF AccountsOf!Abandon
  <2>2. accountAsked'[u] = None /\ \A a \in Users : a # u => accountAsked'[a] = accountAsked[a]
    BY <2>1 DEF ClaimInv
  <2>3. StillRead(u)'
    BY <2>2 DEF StillRead, AccountsOf!Asks
  <2>4. ASSUME NEW a \in Users, a # u, StillRead(a) PROVE StillRead(a)'
    BY <2>1, <2>2, <2>4 DEF StillRead, TeamStands, AccountsOf!Asks, IsAdmin, AccountsOf!Exists,
       AccountsOf!OtherClientAdmins, AccountsOf!Administers
  <2>5. \A a \in Users : AccountsOf!Exists(a)' => AccountsOf!Allowed(account[a])'
    BY <2>1 DEF FirmInv, AccountsOf!Exists, AccountsOf!Allowed
  <2> QED BY <2>1, <2>3, <2>4, <2>5 DEF FirmInv
<1>2. CASE UNCHANGED accounts
  <2>1. account' = account /\ accountAsked' = accountAsked /\ accountStale' = accountStale
    BY <1>2 DEF accounts
  <2>2. FirmInv'
    BY <2>1 DEF FirmInv, StillRead, TeamStands, AccountsOf!Asks, IsAdmin, AccountsOf!Exists,
       AccountsOf!OtherClientAdmins, AccountsOf!Administers, AccountsOf!Allowed
  <2> QED BY <2>1, <2>2, FirmReads
<1> QED BY <1>1, <1>2, FirmReads, FirmSetup, FirmChanges, FirmForgot, FirmInvite, FirmTeamInvite,
           FirmChangeAsked, FirmChange DEF AccountsOf!Next

\* A member as a company's row says.
MemberRow == [role : MembersOf!Roles, active : BOOLEAN]

\* What a request nobody overtook has read of whom it is about is still so: who is
\* invited is no active member, and who stops being an owner is not the only one.
RosterRead(p) ==
  LET r == memberAsked[p] IN
  /\ r.op = "invite" => ~MembersOf!Holds(r.to, "owner")
  /\ r.op = "update" /\ MembersOf!Holds(r.to, "owner")
         /\ (r.role \notin {"owner", None} \/ r.active = FALSE) =>
       \E q \in Users : q # r.to /\ MembersOf!Holds(q, "owner")
MemberInv ==
  /\ member \in [Users -> MemberRow \cup {None}]
  /\ memberAsked = [p \in Users |-> memberAsked[p]]
  /\ \A p \in Users : memberAsked[p] # None =>
       /\ memberAsked[p].to \in Users
       /\ memberAsked[p].op = "invite" => memberAsked[p].role \in MembersOf!Roles
       /\ memberAsked[p].op = "update" =>
            /\ memberAsked[p].role \in MembersOf!Roles \cup {None}
            /\ memberAsked[p].active \in BOOLEAN \cup {None}
            /\ member[memberAsked[p].to] # None
       /\ \E q \in Users : member[q] # None
       /\ p \in memberStale \/ RosterRead(p)

OwnersKept ==
  MembersOf!Owners # {} /\ MembersOf!Owners' = {} =>
    \E p \in Users : memberAsked[p] # None /\ p \in memberStale

LEMMA MemberInit == MembersOf!Init => MemberInv
  BY DEF MembersOf!Init, MemberInv

\* A request made now has read what is so now.
LEMMA MemberAsks ==
  ASSUME MemberInv, NEW p \in Users, NEW role, NEW x, MembersOf!Ask(p, role, x),
         x.to \in Users,
         x.op = "invite" => x.role \in MembersOf!Roles,
         x.op = "update" => /\ x.role \in MembersOf!Roles \cup {None}
                            /\ x.active \in BOOLEAN \cup {None} /\ member[x.to] # None,
         (memberAsked'[p] = x) => RosterRead(p)'
  PROVE  MemberInv' /\ member' = member
<1>1. /\ memberAsked' = [memberAsked EXCEPT ![p] = x] /\ member' = member
      /\ memberStale' = memberStale /\ \E q \in Users : member[q] # None
  BY DEF MembersOf!Ask, MembersOf!Holds
<1>2. /\ memberAsked' = [q \in Users |-> memberAsked'[q]] /\ memberAsked'[p] = x
      /\ \A q \in Users : q # p => memberAsked'[q] = memberAsked[q]
  BY <1>1 DEF MemberInv
<1>3. ASSUME NEW q \in Users, q # p, RosterRead(q) PROVE RosterRead(q)'
  BY <1>1, <1>2, <1>3 DEF RosterRead, MembersOf!Holds
<1>4. ASSUME NEW q \in Users, memberAsked'[q] # None
      PROVE  /\ memberAsked'[q].to \in Users
             /\ memberAsked'[q].op = "invite" => memberAsked'[q].role \in MembersOf!Roles
             /\ memberAsked'[q].op = "update" =>
                  /\ memberAsked'[q].role \in MembersOf!Roles \cup {None}
                  /\ memberAsked'[q].active \in BOOLEAN \cup {None}
                  /\ member[memberAsked'[q].to] # None
             /\ \E o \in Users : member[o] # None
             /\ q \in memberStale \/ RosterRead(q)'
  BY <1>1, <1>2, <1>3, <1>4 DEF MemberInv
<1> QED BY <1>1, <1>2, <1>4 DEF MemberInv

\* An answer overtakes who waits, and takes nobody off the roster.
LEMMA MemberAnswers ==
  ASSUME MemberInv, NEW p \in Users, NEW v \in Users, NEW row \in MemberRow,
         MembersOf!Answered(p), member' = [member EXCEPT ![v] = row],
         \/ row.role = "owner" /\ row.active
         \/ ~MembersOf!Holds(v, "owner")
         \/ \E q \in Users : q # v /\ MembersOf!Holds(q, "owner")
         \/ memberAsked[p] # None /\ p \in memberStale
  PROVE  MemberInv' /\ OwnersKept
<1>1. /\ memberAsked' = [memberAsked EXCEPT ![p] = None]
      /\ memberStale' = (memberStale \ {p}) \cup {q \in Users \ {p} : memberAsked[q] # None}
  BY DEF MembersOf!Answered
<1>2. /\ memberAsked' = [q \in Users |-> memberAsked'[q]] /\ memberAsked'[p] = None
      /\ \A q \in Users : q # p => memberAsked'[q] = memberAsked[q]
  BY <1>1 DEF MemberInv
<1>3. /\ member' \in [Users -> MemberRow \cup {None}] /\ member'[v] = row /\ row # None
      /\ \A q \in Users : q # v => member'[q] = member[q]
  <2>1. row # None
    BY MembersNone DEF MemberRow
  <2> HIDE DEF MemberRow
  <2> QED BY <2>1 DEF MemberInv
<1>4. ASSUME NEW q \in Users, memberAsked'[q] # None
      PROVE  q # p /\ q \in memberStale' /\ memberAsked'[q] = memberAsked[q]
  BY <1>1, <1>2, <1>4
<1>5. MemberInv'
  <2>1. \A q \in Users : member[q] # None => member'[q] # None
    BY <1>3
  <2>2. ASSUME NEW q \in Users, memberAsked'[q] # None
        PROVE  /\ memberAsked'[q].to \in Users
               /\ memberAsked'[q].op = "invite" => memberAsked'[q].role \in MembersOf!Roles
               /\ memberAsked'[q].op = "update" =>
                    /\ memberAsked'[q].role \in MembersOf!Roles \cup {None}
                    /\ memberAsked'[q].active \in BOOLEAN \cup {None}
                    /\ member'[memberAsked'[q].to] # None
               /\ \E o \in Users : member'[o] # None
               /\ q \in memberStale'
    BY <1>4, <2>1, <2>2 DEF MemberInv
  <2> QED BY <1>2, <1>3, <2>2 DEF MemberInv
<1>6. OwnersKept
  <2>1. \A q \in Users : q # v /\ MembersOf!Holds(q, "owner") => MembersOf!Holds(q, "owner")'
    BY <1>3 DEF MembersOf!Holds
  <2>2. row.role = "owner" /\ row.active => MembersOf!Holds(v, "owner")'
    BY <1>3 DEF MembersOf!Holds
  <2>3. \A q \in Users : MembersOf!Holds(q, "owner") <=> q \in MembersOf!Owners
    BY DEF MembersOf!Owners
  <2>4. \A q \in Users : MembersOf!Holds(q, "owner")' <=> q \in MembersOf!Owners'
    BY DEF MembersOf!Owners, MembersOf!Holds
  <2>5. MembersOf!Owners # {} => \E q \in Users : MembersOf!Holds(q, "owner")
    BY DEF MembersOf!Owners
  <2> QED BY <2>1, <2>2, <2>4, <2>5, Zenon DEF OwnersKept
<1> QED BY <1>5, <1>6

LEMMA MemberStep ==
  MemberInv /\ [MembersOf!Next]_members => MemberInv' /\ OwnersKept
<1> SUFFICES ASSUME MemberInv, [MembersOf!Next]_members PROVE MemberInv' /\ OwnersKept
  OBVIOUS
<1>0. ASSUME member' = member PROVE OwnersKept
  <2>1. MembersOf!Owners' = MembersOf!Owners
    BY <1>0 DEF MembersOf!Owners, MembersOf!Holds
  <2> QED BY <2>1 DEF OwnersKept
<1>1. ASSUME NEW p \in Users, MembersOf!CreateCompany(p) PROVE MemberInv' /\ OwnersKept
  <2>1. PICK row \in MemberRow : /\ row = [role |-> "owner", active |-> TRUE]
                                 /\ row.role = "owner" /\ row.active
    <3>1. [role |-> "owner", active |-> TRUE] \in MemberRow
      BY DEF MemberRow, MembersOf!Roles
    <3> QED BY <3>1
  <2>2. /\ \A q \in Users : member[q] = None
        /\ member' = [member EXCEPT ![p] = row] /\ memberAsked' = memberAsked
    BY <1>1, <2>1 DEF MembersOf!CreateCompany
  <2>3. \A q \in Users : memberAsked[q] = None
    BY <2>2 DEF MemberInv
  <2>4. /\ member' \in [Users -> MemberRow \cup {None}] /\ member'[p] = row /\ row # None
    <3>1. row # None
      BY MembersNone DEF MemberRow
    <3> HIDE DEF MemberRow
    <3> QED BY <2>2, <3>1 DEF MemberInv
  <2>5. p \in MembersOf!Owners'
    BY <2>1, <2>4 DEF MembersOf!Owners, MembersOf!Holds
  <2>6. MemberInv'
    BY <2>2, <2>3, <2>4 DEF MemberInv
  <2> QED BY <2>5, <2>6 DEF OwnersKept
<1>2. ASSUME NEW p \in Users, NEW q \in Users, MembersOf!InviteAsks(p, q)
      PROVE  MemberInv' /\ member' = member
  <2>1. PICK role \in MembersOf!Roles :
          MembersOf!Ask(p, role, [op |-> "invite", to |-> q, role |-> role])
    BY <1>2 DEF MembersOf!InviteAsks
  <2>2. PICK x : x = [op |-> "invite", to |-> q, role |-> role]
    OBVIOUS
  <2>3. x.op = "invite" /\ x.to = q /\ x.role = role /\ MembersOf!Ask(p, role, x)
    BY <2>1, <2>2
  <2>4. ~MembersOf!Holds(q, "owner")'
    BY <1>2, <2>3 DEF MembersOf!InviteAsks, MembersOf!Holds, MembersOf!Ask
  <2>5. (memberAsked'[p] = x) => RosterRead(p)'
    BY <2>3, <2>4 DEF RosterRead, MembersOf!Holds
  <2> QED BY <2>3, <2>5, MemberAsks
<1>3. ASSUME NEW p \in Users, NEW q \in Users, MembersOf!UpdateAsks(p, q)
      PROVE  MemberInv' /\ member' = member
  <2>1. PICK role \in MembersOf!Roles \cup {None}, on \in BOOLEAN \cup {None} :
          /\ member[q] # None
          /\ member[q].role = "owner" /\ (role \notin {"owner", None} \/ on = FALSE) =>
               \E o, r \in MembersOf!Owners : o # r
          /\ MembersOf!Ask(p, role, [op |-> "update", to |-> q, role |-> role, active |-> on])
    BY <1>3 DEF MembersOf!UpdateAsks
  <2>2. PICK x : x = [op |-> "update", to |-> q, role |-> role, active |-> on]
    OBVIOUS
  <2>3. /\ x.op = "update" /\ x.to = q /\ x.role = role /\ x.active = on
        /\ MembersOf!Ask(p, role, x) /\ member' = member
    BY <2>1, <2>2 DEF MembersOf!Ask
  <2>4. MembersOf!Holds(q, "owner")' /\ (role \notin {"owner", None} \/ on = FALSE) =>
          \E o \in Users : o # q /\ MembersOf!Holds(o, "owner")'
    <3>1. \A o \in MembersOf!Owners : o \in Users /\ MembersOf!Holds(o, "owner")'
      BY <2>3 DEF MembersOf!Owners, MembersOf!Holds
    <3>2. MembersOf!Holds(q, "owner")' => member[q].role = "owner"
      BY <2>3 DEF MembersOf!Holds
    <3> QED BY <2>1, <3>1, <3>2
  <2>5. (memberAsked'[p] = x) => RosterRead(p)'
    BY <2>3, <2>4, Zenon DEF RosterRead
  <2> QED BY <2>1, <2>3, <2>5, MemberAsks
<1>4. ASSUME NEW p \in Users, MembersOf!InviteWrites(p) PROVE MemberInv' /\ OwnersKept
  <2>1. PICK v \in Users, role \in MembersOf!Roles : v = memberAsked[p].to /\ role = memberAsked[p].role
    BY <1>4 DEF MembersOf!InviteWrites, MemberInv
  <2>2. PICK row \in MemberRow : row = [role |-> role, active |-> TRUE]
    BY Zenon DEF MemberRow
  <2>3. member' = [member EXCEPT ![v] = row] /\ MembersOf!Answered(p)
    BY <1>4, <2>1, <2>2 DEF MembersOf!InviteWrites
  <2>4. p \in memberStale \/ ~MembersOf!Holds(v, "owner")
    BY <1>4, <2>1 DEF MembersOf!InviteWrites, MemberInv, RosterRead
  <2>5. memberAsked[p] # None
    BY <1>4 DEF MembersOf!InviteWrites
  <2> QED BY <2>3, <2>4, <2>5, MemberAnswers
<1>5. ASSUME NEW p \in Users, MembersOf!UpdateWrites(p) PROVE MemberInv' /\ OwnersKept
  <2> DEFINE r == memberAsked[p]
  <2>1. PICK v \in Users : /\ v = r.to /\ r # None /\ r.op = "update"
                           /\ member[v] # None /\ r.role \in MembersOf!Roles \cup {None}
                           /\ r.active \in BOOLEAN \cup {None}
    BY <1>5 DEF MembersOf!UpdateWrites, MemberInv
  <2>2. member[v] \in MemberRow
    <3> HIDE DEF MemberRow
    <3> QED BY <2>1 DEF MemberInv
  <2>3. member[v].role \in MembersOf!Roles /\ member[v].active \in BOOLEAN
    BY <2>2 DEF MemberRow
  <2>4. PICK role \in MembersOf!Roles : role = IF r.role = None THEN member[v].role ELSE r.role
    BY <2>1, <2>3
  <2>5. PICK on \in BOOLEAN : on = IF r.active = None THEN member[v].active ELSE r.active
    BY <2>1, <2>3
  <2>6. PICK row \in MemberRow : row = [role |-> role, active |-> on]
    BY Zenon DEF MemberRow
  <2>7. row.role = role /\ row.active = on
    BY <2>6
  <2>8. member' = [member EXCEPT ![v] = row] /\ MembersOf!Answered(p)
    BY <1>5, <2>1, <2>4, <2>5, <2>6, Zenon DEF MembersOf!UpdateWrites
  <2>9. \/ p \in memberStale \/ ~MembersOf!Holds(v, "owner")
        \/ \E q \in Users : q # v /\ MembersOf!Holds(q, "owner")
        \/ role = "owner" /\ on
    <3>1. p \in memberStale \/ RosterRead(p)
      BY <2>1 DEF MemberInv
    <3>2. CASE r.role \notin {"owner", None} \/ r.active = FALSE
      BY <2>1, <3>1, <3>2 DEF RosterRead
    <3>3. CASE r.role \in {"owner", None} /\ r.active # FALSE /\ MembersOf!Holds(v, "owner")
      <4>1. role = "owner"
        BY <2>4, <3>3 DEF MembersOf!Holds
      <4>2. on
        BY <2>1, <2>5, <3>3 DEF MembersOf!Holds
      <4> QED BY <4>1, <4>2
    <3> QED BY <3>2, <3>3
  <2> QED BY <2>1, <2>7, <2>8, <2>9, MemberAnswers
<1>6. CASE UNCHANGED members
  <2>1. member' = member /\ memberAsked' = memberAsked /\ memberStale' = memberStale
    BY <1>6 DEF members
  <2>2. \A p \in Users : RosterRead(p)' <=> RosterRead(p)
    BY <2>1 DEF RosterRead, MembersOf!Holds
  <2>3. MemberInv'
    BY <2>1, <2>2 DEF MemberInv
  <2> QED BY <1>0, <2>1, <2>3
<1> QED BY <1>0, <1>1, <1>2, <1>3, <1>4, <1>5, <1>6 DEF MembersOf!Next

\* Neither the firm nor a company is left without somebody to administer it by requests
\* each of which left somebody and that nobody overtook, and no invitation changes the
\* password of an account its owner has claimed.
THEOREM SomebodyAdministers == Spec => AccountsKept
<1> DEFINE Inv == ClaimInv /\ FirmInv /\ MemberInv
<1>1. Init => Inv
  <2>1. Init => AccountsOf!Init /\ MembersOf!Init
    BY DEF Init
  <2> QED BY <2>1, ClaimInit, FirmInit, MemberInit
<1>2. Inv /\ [Next]_all =>
        Inv' /\ [AdminKept]_accounts /\ [TeamKept]_accounts /\ [OwnersKept]_members
             /\ [PasswordKept]_accounts
  <2>1. [Next]_all => [AccountsOf!Next]_accounts /\ [MembersOf!Next]_members
    BY DEF Next, all
  <2> QED BY <2>1, ClaimStep, FirmStep, FirmTeam, MemberStep
<1> HIDE DEF Inv
<1>3. Inv /\ [Next]_all => Inv' /\ [KeepsAccounts]_all
  <2>1. /\ AdminKept => AccountsOf!KeepsAdministrator
        /\ TeamKept => AccountsOf!KeepsCompanyAdmin
        /\ PasswordKept => AccountsOf!TakesNoClaimed
        /\ OwnersKept => MembersOf!KeepsOwner
    BY DEF AdminKept, TeamKept, PasswordKept, OwnersKept, AccountsOf!KeepsAdministrator,
           AccountsOf!KeepsCompanyAdmin, AccountsOf!TakesNoClaimed, MembersOf!KeepsOwner
  <2> QED BY <1>2, <2>1 DEF KeepsAccounts
<1> QED
  BY <1>1, <1>3, PTL DEF Spec, AccountsKept, KeepsAccounts
=============================================================================
