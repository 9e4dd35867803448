-------------------------------- MODULE Notary --------------------------------
(***************************************************************************)
(* One notarization. The routes read its status without a lock and update  *)
(* it by its id afterwards, so what keeps a completed act as it was are    *)
(* the table's two triggers, which run in the order of their names, and    *)
(* its checks.                                                             *)
(***************************************************************************)
EXTENDS Naturals

CONSTANTS Clerks, Notaries, None,
          Days  \* bound on the dates of acts and of commissions

VARIABLES
  act,     \* the notarizations row, None before it is asked for
  reading  \* what each caller, having read an act not completed, will write
vars == <<act, reading>>

Status == {"requested", "scheduled", "failed", "cancelled", "completed"}
Act == [status : Status, type : {"ron", "in_person"}, scheduled : BOOLEAN,
        done : 0 .. Days,          \* completed_at, 0 for none
        notary : Notaries \cup {None},
        expires : 0 .. Days,       \* notary_commission_expires_at
        recording : BOOLEAN,       \* session_recording_ref
        retention : 0 .. Days]     \* retention_until, ten years on

TypeOK ==
  /\ act \in Act \cup {None}
  /\ reading \in [Clerks -> {"nothing", "to change", "to complete"}]

Init == act = None /\ reading = [c \in Clerks |-> "nothing"]

-----------------------------------------------------------------------------
\* ocs.finalise_notarization, and what it refuses.
Finalised(new) == [new EXCEPT !.retention = IF new.status = "completed" THEN new.done ELSE 0]
\* Mutant: the expiry is looked at for a remote act only.
InForceIfRemote(new) == new.type = "ron" /\ new.expires # 0 => new.done <= new.expires
CommissionInForce(new) == new.expires # 0 => new.done <= new.expires

\* ocs.protect_completed_notarization: all but the provider's references is fixed.
Fixed(a) == <<a.status, a.type, a.done, a.notary, a.expires, a.retention>>
\* Mutant: the trigger is not there.
Unprotected(old, new) == TRUE
Protected(old, new) == old.status = "completed" => Fixed(new) = Fixed(old)

\* The table's three checks.
DatesHold(a) ==
  /\ (a.status = "completed") = (a.done # 0)
  /\ a.status = "completed" => a.notary # None /\ (a.type = "ron" => a.recording)

\* An UPDATE that asks for new: refused, and nothing changes, or written.
Stored(new) ==
  LET row == Finalised(new)
  IN IF /\ row.status = "completed" => CommissionInForce(row)
        /\ Protected(act, row) /\ DatesHold(row)
     THEN row ELSE act

-----------------------------------------------------------------------------
\* POST /api/notary.
Request(type, scheduled) ==
  /\ act = None
  /\ act' = [status |-> IF scheduled THEN "scheduled" ELSE "requested", type |-> type,
             scheduled |-> scheduled, done |-> 0, notary |-> None, expires |-> 0,
             recording |-> FALSE, retention |-> 0]
  /\ UNCHANGED reading

\* PATCH /api/notary/:id and POST .../complete: each looks at the status first.
Reads(c, why) ==
  /\ act # None /\ act.status # "completed"
  /\ reading[c] = "nothing" /\ why # "nothing"
  /\ reading' = [reading EXCEPT ![c] = why]
  /\ UNCHANGED act

\* A field the request leaves out stays; a date given to a request schedules it.
Change(c) ==
  /\ reading[c] = "to change"
  /\ \E status \in (Status \ {"completed"}) \cup {None}, type \in {act.type, "ron", "in_person"},
        given \in BOOLEAN, scheduled \in BOOLEAN,
        notary \in Notaries \cup {None, act.notary}, expires \in 0 .. Days :
       /\ ~given => scheduled = act.scheduled
       /\ act' = Stored([act EXCEPT
            !.status = IF status # None THEN status
                       ELSE IF given /\ scheduled /\ act.status = "requested" THEN "scheduled"
                       ELSE act.status,
            !.type = type, !.scheduled = scheduled, !.notary = notary, !.expires = expires])
  /\ reading' = [reading EXCEPT ![c] = "nothing"]

Complete(c) ==
  /\ reading[c] = "to complete"
  /\ \E done \in 1 .. Days, notary \in Notaries, expires \in 0 .. Days, recording \in BOOLEAN :
       act' = Stored([act EXCEPT !.status = "completed", !.done = done, !.notary = notary,
                                 !.expires = expires, !.recording = recording])
  /\ reading' = [reading EXCEPT ![c] = "nothing"]

Next ==
  \/ \E type \in {"ron", "in_person"}, scheduled \in BOOLEAN : Request(type, scheduled)
  \/ \E c \in Clerks : \/ \E why \in {"to change", "to complete"} : Reads(c, why)
                       \/ Change(c) \/ Complete(c)
Spec == Init /\ [][Next]_vars

-----------------------------------------------------------------------------
\* "A completed notarization is a finished record": whoever read it earlier, who
\* performed the act, when and under what commission stay as they were.
ActStands == [][act # None /\ act.status = "completed" => Fixed(act') = Fixed(act)]_vars

\* An act is never recorded as performed after its notary's commission had expired,
\* and a remote one never without its recording, whichever request came last.
ActIsGood ==
  act # None /\ act.status = "completed" =>
    /\ act.expires # 0 => act.done <= act.expires
    /\ act.type = "ron" => act.recording
=============================================================================
