----------------------------- MODULE Inspections -----------------------------
(***************************************************************************)
(* What follows a permit's filing: its inspections, each failure of which  *)
(* books the next one, its corrections, resolved and reopened, and the     *)
(* requirements a jurisdiction's corrections teach.                        *)
(*                                                                         *)
(* Both PATCH routes read the row without a lock, decide on what they read *)
(* and write in a later statement, so each is two steps.                   *)
(***************************************************************************)
EXTENDS Naturals, Sequences, FiniteSets

CONSTANTS People, Corrections, None,
          MaxInspections,    \* bound on the inspections of the permit
          MaxRequirements    \* bound on the requirements learned

VARIABLES
  inspections,   \* permit_inspections: result, date, and the one each repeats
  correction,    \* permit_corrections: resolved_at and resolved_by
  requirements,  \* jurisdiction_requirements under one key
  asked          \* what each caller's request has read and waits to write
vars == <<inspections, correction, requirements, asked>>

\* "passed" stands for every other way an inspection ends.
Results == {"scheduled", "passed", "failed"}
\* More than a day ahead, earlier than that, or no date.
Dates == {"future", "past", None}
Rows == 1 .. Len(inspections)

TypeOK ==
  /\ inspections \in Seq([result : Results, date : Dates, repeats : 0 .. MaxInspections])
  /\ Len(inspections) <= MaxInspections
  /\ correction \in [Corrections -> [at : People \cup {None}, by : People \cup {None}]]
  /\ requirements \in Seq([scope : {"one type", "every type"}, from : Corrections])
  /\ \A p \in People : asked[p] = None \/ asked[p].op \in {"record", "resolve"}

Init ==
  /\ inspections = << >>
  /\ correction = [c \in Corrections |-> [at |-> None, by |-> None]]
  /\ requirements = << >>
  /\ asked = [p \in People |-> None]

Asks(p, request) == asked[p] = None /\ asked' = [asked EXCEPT ![p] = request]
Asked(p, op) == asked[p] # None /\ asked[p].op = op
Answered(p) == asked' = [asked EXCEPT ![p] = None]

-----------------------------------------------------------------------------
\* POST /api/inspections, of its own or as a re-inspection of another.
Schedule ==
  /\ Len(inspections) < MaxInspections
  /\ \E d \in Dates, i \in {0} \cup Rows :
       inspections' = Append(inspections, [result |-> "scheduled", date |-> d, repeats |-> i])
  /\ UNCHANGED <<correction, requirements, asked>>

\* PATCH /api/inspections/:id. A field the body leaves out is "kept". What has
\* not happened yet has no result.
Kept(change, value) == IF change = "kept" THEN value ELSE change
RecordReads(p, i) ==
  /\ \E r \in Results \cup {"kept"}, d \in Dates \cup {"kept"} :
       /\ r \in {"kept", "scheduled"} \/ Kept(d, inspections[i].date) # "future"
       /\ Asks(p, [op |-> "record", row |-> i, was |-> inspections[i].result,
                   result |-> r, date |-> d])
  /\ UNCHANGED <<inspections, correction, requirements>>

\* Mutant: the table does not check what the route checked on its own read.
DatedAnyway(inspection) == TRUE
\* inspections_completed_not_future, the table's own check.
DatedRight(inspection) == inspection.result = "scheduled" \/ inspection.date # "future"
\* Mutant: only a first result can be a failure.
FirstFailed(request) == request.result = "failed" /\ request.was = "scheduled"
\* The transition books the re-inspection, not the value: judged on what was read.
NowFailed(request) == request.result = "failed" /\ request.was # "failed"
RecordWrites(p) ==
  /\ Asked(p, "record")
  /\ LET old == inspections[asked[p].row]
         new == [old EXCEPT !.result = Kept(asked[p].result, @), !.date = Kept(asked[p].date, @)]
         updated == [inspections EXCEPT ![asked[p].row] = new]
     IN IF ~DatedRight(new)
        THEN UNCHANGED inspections
        ELSE IF NowFailed(asked[p])
        THEN /\ Len(inspections) < MaxInspections
             /\ \E d \in Dates : inspections' =
                  Append(updated, [result |-> "scheduled", date |-> d, repeats |-> asked[p].row])
        ELSE inspections' = updated
  /\ Answered(p)
  /\ UNCHANGED <<correction, requirements>>

DateComes(i) ==
  /\ inspections[i].date = "future"
  /\ inspections' = [inspections EXCEPT ![i].date = "past"]
  /\ UNCHANGED <<correction, requirements, asked>>

-----------------------------------------------------------------------------
\* PATCH /api/corrections/:id. "resolve" keeps the moment it read, "date" gives one.
ResolveReads(p, c) ==
  /\ \E how \in {"resolve", "reopen", "date"} :
       Asks(p, [op |-> "resolve", of |-> c, how |-> how, read |-> correction[c].at])
  /\ UNCHANGED <<inspections, correction, requirements>>
\* Mutant: resolving again is resolving now.
ResolvedNow(p) == IF asked[p].how = "reopen" THEN None ELSE p
ResolvedAt(p) ==
  CASE asked[p].how = "reopen" -> None
    [] asked[p].how = "resolve" /\ asked[p].read # None -> asked[p].read
    [] OTHER -> p
ResolveWrites(p) ==
  /\ Asked(p, "resolve")
  /\ correction' = [correction EXCEPT ![asked[p].of] =
       [at |-> ResolvedAt(p), by |-> IF ResolvedAt(p) = None THEN @.by ELSE p]]
  /\ Answered(p)
  /\ UNCHANGED <<inspections, requirements>>

\* POST /api/corrections/:id/promote upserts on (jurisdiction, type, key), and the
\* first correction stays the provenance. A null type conflicts with no row.
Promote(c) ==
  /\ Len(requirements) < MaxRequirements
  /\ \E scope \in {"one type", "every type"} :
       requirements' = IF scope = "one type" /\ \E k \in DOMAIN requirements :
                            requirements[k].scope = scope
                       THEN requirements
                       ELSE Append(requirements, [scope |-> scope, from |-> c])
  /\ UNCHANGED <<inspections, correction, asked>>

Next ==
  \/ Schedule
  \/ \E i \in Rows : DateComes(i) \/ \E p \in People : RecordReads(p, i)
  \/ \E p \in People : RecordWrites(p) \/ ResolveWrites(p)
  \/ \E p \in People, c \in Corrections : ResolveReads(p, c)
  \/ \E c \in Corrections : Promote(c)
Spec == Init /\ [][Next]_vars

-----------------------------------------------------------------------------
\* "A failure nobody re-books is a permit that quietly stalls": every failed
\* inspection has one that repeats it, whoever recorded what before.
FailureIsRebooked ==
  \A i \in Rows : inspections[i].result = "failed" => \E j \in Rows : inspections[j].repeats = i

\* What has a result has happened, though its date is moved by another request
\* between the route's look at it and the write.
CompletedNotFuture ==
  \A i \in Rows : inspections[i].result # "scheduled" => inspections[i].date # "future"

\* When a correction was cleared "is a fact, not something to overwrite": the
\* moment is replaced only by a request that gave another or had seen none.
KeepsFirstResolution ==
  \A c \in Corrections :
    LET old == correction[c].at  new == correction'[c].at
    IN  old # new /\ old # None /\ new # None
          => \E p \in People : Asked(p, "resolve") /\ asked'[p] = None
                                 /\ (asked[p].how = "date" \/ asked[p].read # old)
=============================================================================
