-------------------------------- MODULE Filing --------------------------------
(***************************************************************************)
(* Whether a permit may be started for a contractor: the certificates on   *)
(* record, the decisions taken on them, the filing hold, and the three     *)
(* routes that start a permit. Only one of these asks.                     *)
(*                                                                         *)
(* Days are Florida's. The server and the database run in UTC, where the   *)
(* evening is already the next day; the driver hands a date column back as *)
(* the instant that day begins in UTC, the evening before in Florida.      *)
(***************************************************************************)
EXTENDS Integers

CONSTANTS Clerks,
          Kinds,       \* the kinds of certificate looked at
          Days,        \* bound on the clock and on the expiry dates
          MaxPermits   \* bound on the permits started

VARIABLES
  item,      \* compliance_items: item[k] the one row of its kind, its decision,
             \* its expires_at (0 for none), its limit too low or not
  hold,      \* companies.filing_hold
  permits,   \* how many permits have been started
  filing,    \* filing[c]: c's request has found the contractor cleared
  today, evening
vars == <<item, hold, permits, filing, today, evening>>

Blocking == Kinds \ {"WORKERS_COMP_EXEMPTION"}
Decision == {"none", "pending_review", "accepted", "rejected", "waived"}

TypeOK ==
  /\ item \in [Kinds -> [decision : Decision, expires : 0 .. Days, low : BOOLEAN]]
  /\ hold \in BOOLEAN /\ permits \in 0 .. MaxPermits
  /\ filing \in [Clerks -> BOOLEAN]
  /\ today \in 1 .. Days /\ evening \in BOOLEAN

Init ==
  /\ item = [k \in Kinds |-> [decision |-> "none", expires |-> 0, low |-> FALSE]]
  /\ hold = FALSE /\ permits = 0
  /\ filing = [c \in Clerks |-> FALSE]
  /\ today = 1 /\ evening = FALSE

-----------------------------------------------------------------------------
\* calendarDay of a date column as the driver hands it back.
DriverDay(date) == date - 1

\* computeComplianceStatus, for a row. Expiring soon counts as valid.
Valid(k) ==
  /\ item[k].decision = "accepted"
  /\ item[k].expires # 0 => DriverDay(item[k].expires) >= today

\* assessCompliance: an exemption stands in for workers' compensation, and only a
\* general liability limit has a minimum.
LimitShort(k) == k = "GENERAL_LIABILITY" /\ item[k].low
\* Mutant: an exemption on record is enough.
SatisfiedOnRecord(k) ==
  \/ Valid(k) /\ ~LimitShort(k)
  \/ k = "WORKERS_COMP" /\ item["WORKERS_COMP_EXEMPTION"].decision # "none"
Satisfied(k) ==
  \/ Valid(k) /\ ~LimitShort(k)
  \/ k = "WORKERS_COMP" /\ Valid("WORKERS_COMP_EXEMPTION")
ClearedToFile == \A k \in Blocking : Satisfied(k)

\* ocs.can_file_for: the answer the database gives the compliance screens.
CurrentDate == IF evening THEN today + 1 ELSE today
Counts(k) == \/ item[k].decision = "waived"
             \/ /\ item[k].decision = "accepted"
                /\ item[k].expires = 0 \/ item[k].expires >= CurrentDate
CanFileFor ==
  \A k \in Blocking : Counts(k) \/ (k = "WORKERS_COMP" /\ Counts("WORKERS_COMP_EXEMPTION"))

-----------------------------------------------------------------------------
\* POST /api/compliance: a replacement goes back for review.
Record(k, expires, low) ==
  /\ item' = [item EXCEPT ![k] = [decision |-> "pending_review", expires |-> expires, low |-> low]]
  /\ UNCHANGED <<hold, permits, filing, today, evening>>

\* POST .../review, with the dates the reviewer corrects.
Review(k, decision, expires) ==
  /\ item[k].decision # "none" /\ decision \in {"accepted", "rejected"}
  /\ item' = [item EXCEPT ![k].decision = decision,
                          ![k].expires = IF expires = 0 THEN @ ELSE expires]
  /\ UNCHANGED <<hold, permits, filing, today, evening>>

\* POST .../waive.
Waive(k) ==
  /\ item[k].decision # "none"
  /\ item' = [item EXCEPT ![k].decision = "waived"]
  /\ UNCHANGED <<hold, permits, filing, today, evening>>

\* PATCH /api/clients/:id puts the contractor on hold, or takes them off it.
SetHold(on) ==
  /\ hold # on /\ hold' = on
  /\ UNCHANGED <<item, permits, filing, today, evening>>

\* POST /api/permits reads the hold, the certificates and, on the managed line,
\* the licence, all unlocked, and then inserts the permit.
FileReads(c, managed, defensible) ==
  /\ ~filing[c] /\ permits < MaxPermits
  /\ ~hold /\ ClearedToFile
  /\ managed => defensible
  /\ filing' = [filing EXCEPT ![c] = TRUE]
  /\ UNCHANGED <<item, hold, permits, today, evening>>
FileInserts(c) ==
  /\ filing[c] /\ permits < MaxPermits
  /\ permits' = permits + 1
  /\ filing' = [filing EXCEPT ![c] = FALSE]
  /\ UNCHANGED <<item, hold, today, evening>>

\* POST /v1/permits looks at the project alone, and so does the conversion of an
\* accepted application.
Start ==
  /\ permits < MaxPermits /\ permits' = permits + 1
  /\ UNCHANGED <<item, hold, filing, today, evening>>

TimePasses ==
  /\ IF evening THEN today < Days /\ today' = today + 1 ELSE UNCHANGED today
  /\ evening' = ~evening
  /\ UNCHANGED <<item, hold, permits, filing>>

Next ==
  \/ \E k \in Kinds : \/ \E expires \in 0 .. Days, low \in BOOLEAN :
                           (low => k = "GENERAL_LIABILITY") /\ Record(k, expires, low)
                      \/ \E decision \in Decision, expires \in 0 .. Days :
                           Review(k, decision, expires)
                      \/ Waive(k)
  \/ \E on \in BOOLEAN : SetHold(on)
  \/ \E c \in Clerks : \/ \E managed, defensible \in BOOLEAN : FileReads(c, managed, defensible)
                       \/ FileInserts(c)
  \/ Start \/ TimePasses
Spec == Init /\ [][Next]_vars

-----------------------------------------------------------------------------
\* The route and the database answer the same question, each in its own way: the
\* route never finds a contractor cleared whom the screens show as blocked, at
\* whatever hour, whichever certificates were replaced, rejected or expired.
ClearedIsCovered == ClearedToFile => CanFileFor
=============================================================================
