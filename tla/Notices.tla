-------------------------------- MODULE Notices --------------------------------
(***************************************************************************)
(* The warning that a licence is about to expire: the daily scan that      *)
(* finds it, the job that tells the contractor's people and stamps the     *)
(* licence, and the email each of them is sent by a job of its own. The    *)
(* jobs are the queue's: an attempt may fail, be lost after it acted, or be *)
(* abandoned when its time is up and go on beside the next, and is made    *)
(* again until its tries run out.                                          *)
(***************************************************************************)
EXTENDS Naturals

CONSTANTS Users,     \* the owners and admins of the company
          Tries,     \* jobs.max_attempts
          Renewals   \* bound on the expiry dates the licence is given

VARIABLES
  licence,  \* its expiry date (by number), within its reminder days or not, stamped
            \* within the last week or not, and revoked or suspended or not
  crowded,  \* do as many items as a scan takes, 1000, match it and come before the licence?
  job,      \* compliance.notify_expiring, under the dedupe key of today or of an earlier day
  told,     \* who has a notification of which expiry date
  mail      \* mail[u]: the last delivery row made for u, its job, the steps of the
            \* attempt and of one abandoned, and whether the provider took the email
vars == <<licence, crowded, job, told, mail>>

Dates == 1 .. Renewals
Days == {"today", "earlier"}
NoJob == [live |-> FALSE, of |-> 1, tries |-> 0]
NoMail == [row |-> "none", job |-> "none", at |-> "idle", beside |-> "idle", tries |-> 0,
           taken |-> FALSE]
Steps == {"idle", "loaded", "posted", "refused"}

TypeOK ==
  /\ licence \in [of : Dates, near : BOOLEAN, stamped : BOOLEAN, void : BOOLEAN]
  /\ crowded \in BOOLEAN
  /\ job \in [Days -> [live : BOOLEAN, of : Dates, tries : 0 .. Tries]]
  /\ told \subseteq Users \X Dates
  /\ mail \in [Users -> [row : {"none", "queued", "sent", "failed"}, job : {"none", "live", "dead"},
                         at : Steps, beside : Steps, tries : 0 .. Tries, taken : BOOLEAN]]

\* POST /v1/licenses, or /v1/insurance-policies.
Init ==
  /\ licence = [of |-> 1, near |-> FALSE, stamped |-> FALSE, void |-> FALSE]
  /\ crowded = FALSE /\ job = [d \in Days |-> NoJob] /\ told = {}
  /\ mail = [u \in Users |-> NoMail]

-----------------------------------------------------------------------------
\* PATCH /v1/licenses/:id: a new expiry date restarts the reminders.
Renew ==
  /\ licence.of < Renewals
  /\ licence' = [licence EXCEPT !.of = @ + 1, !.near = FALSE, !.stamped = FALSE]
  /\ UNCHANGED <<crowded, job, told, mail>>
SetStanding ==
  /\ licence' = [licence EXCEPT !.void = ~@]
  /\ UNCHANGED <<crowded, job, told, mail>>

\* The scan runs every day, while the worker is there.
\* Bound: a job is over by the end of the day after its own.
NextDay ==
  /\ ~job["earlier"].live
  /\ job' = [today |-> NoJob, earlier |-> job["today"]]
  /\ licence' = [licence EXCEPT !.near = TRUE]
  /\ UNCHANGED <<crowded, told, mail>>
WeekPasses ==
  /\ licence.stamped /\ licence' = [licence EXCEPT !.stamped = FALSE]
  /\ UNCHANGED <<crowded, job, told, mail>>

\* Other people's items come and go: permits past their day are never stamped, so
\* they match every scan, before any licence, for as long as nobody moves them on.
OthersChange ==
  /\ crowded' = ~crowded
  /\ UNCHANGED <<licence, job, told, mail>>

\* Mutant: a licence never stamped compares as unknown, and is left out.
WantsSecondReminder(l) == l.near /\ ~l.void /\ ~l.stamped /\ \E u \in Users : <<u, l.of>> \in told
WantsReminder(l) == l.near /\ ~l.void /\ ~l.stamped
\* scan: of the items that match, the 1000 with the fewest days left; one job for the
\* company under the day's key, unless it is there already.
Scan ==
  /\ WantsReminder(licence) /\ ~crowded /\ ~job["today"].live
  /\ job' = [job EXCEPT !["today"] = [live |-> TRUE, of |-> licence.of, tries |-> 0]]
  /\ UNCHANGED <<licence, crowded, told, mail>>

\* notify: the notification, the delivery's row, and its job unless one is live
\* under the same key: the row is then nobody's.
Notified(u) ==
  IF mail[u].job = "live" THEN mail[u]
  ELSE [NoMail EXCEPT !.row = "queued", !.job = "live"]

\* notifyExpiring, one transaction: it tells of the date the scan saw, and stamps
\* the licence as it is now.
NotifyExpiring(d) ==
  /\ job[d].live
  /\ told' = told \cup (Users \X {job[d].of})
  /\ mail' = [u \in Users |-> Notified(u)]
  /\ licence' = [licence EXCEPT !.stamped = TRUE]
  /\ job' = [job EXCEPT ![d] = NoJob]
  /\ UNCHANGED crowded

\* The attempt fails and nothing of it stays; a dead job frees its key.
NotifyFails(d) ==
  /\ job[d].live
  /\ job' = [job EXCEPT ![d] = IF @.tries + 1 = Tries THEN NoJob ELSE [@ EXCEPT !.tries = @ + 1]]
  /\ UNCHANGED <<licence, crowded, told, mail>>

-----------------------------------------------------------------------------
NotSent(u) == mail[u].row # "sent"
DeliverLoads(u) ==
  /\ mail[u].job = "live" /\ mail[u].at = "idle"
  /\ mail' = [mail EXCEPT ![u] = IF NotSent(u) THEN [@ EXCEPT !.at = "loaded"]
                                 ELSE [@ EXCEPT !.job = "none"]]
  /\ UNCHANGED <<licence, crowded, job, told>>
\* sendEmail, of the attempt or of one abandoned: the provider takes it, and says so
\* or not.
DeliverPosts(u, attempt) ==
  /\ mail[u][attempt] = "loaded"
  /\ \E taken, answered \in BOOLEAN :
       mail' = [mail EXCEPT ![u].taken = @ \/ taken,
                            ![u][attempt] = IF taken /\ answered THEN "posted" ELSE "refused"]
  /\ UNCHANGED <<licence, crowded, job, told>>
\* The row records it, and the queue the attempt's end.
\* Mutant: the tries are not counted.
FailedAlways(m) == [m EXCEPT !.at = "idle"]
Failed(m) == [m EXCEPT !.at = "idle", !.tries = @ + 1,
                       !.job = IF m.tries + 1 = Tries THEN "dead" ELSE "live"]
\* Mutant: whatever was posted is recorded as sent.
RecordedAsSent(step) == "sent"
Recorded(step) == IF step = "posted" THEN "sent" ELSE "failed"
DeliverRecords(u) ==
  /\ mail[u].at \in {"posted", "refused"}
  /\ LET written == [mail[u] EXCEPT !.row = Recorded(mail[u].at)]
     IN \E answered \in BOOLEAN :
          mail' = [mail EXCEPT ![u] =
                     IF mail[u].at = "posted" /\ answered
                     THEN [written EXCEPT !.at = "idle", !.job = "none"]
                     ELSE Failed(written)]
  /\ UNCHANGED <<licence, crowded, job, told>>
\* The worker goes down.
DeliverDies(u) ==
  /\ mail[u].at # "idle"
  /\ mail' = [mail EXCEPT ![u] = Failed(@)]
  /\ UNCHANGED <<licence, crowded, job, told>>
\* runWithTimeout fails the attempt and abandons its handler, which goes on.
\* Bound: one abandoned handler of a row is followed at a time.
DeliverTimesOut(u) ==
  /\ mail[u].at # "idle" /\ mail[u].beside = "idle"
  /\ mail' = [mail EXCEPT ![u] = [Failed(@) EXCEPT !.beside = mail[u].at]]
  /\ UNCHANGED <<licence, crowded, job, told>>
\* It writes the row whatever the row says by then, and the queue nothing.
AbandonedRecords(u) ==
  /\ mail[u].beside \in {"posted", "refused"}
  /\ mail' = [mail EXCEPT ![u].row = Recorded(mail[u].beside), ![u].beside = "idle"]
  /\ UNCHANGED <<licence, crowded, job, told>>

Next ==
  \/ Renew \/ SetStanding \/ NextDay \/ WeekPasses \/ OthersChange \/ Scan
  \/ \E d \in Days : NotifyExpiring(d) \/ NotifyFails(d)
  \/ \E u \in Users : \/ DeliverLoads(u) \/ DeliverRecords(u) \/ DeliverDies(u)
                      \/ DeliverTimesOut(u) \/ AbandonedRecords(u)
                      \/ \E attempt \in {"at", "beside"} : DeliverPosts(u, attempt)
Spec == Init /\ [][Next]_vars

\* The worker scans every day and attempts its jobs; an attempt made again and
\* again succeeds in the end.  Of an abandoned handler nothing is asked.
JobFairness ==
  /\ WF_vars(WeekPasses) /\ WF_vars(Scan)
  /\ \A d \in Days : SF_vars(NotifyExpiring(d))
  /\ \A u \in Users : WF_vars(DeliverLoads(u) \/ DeliverPosts(u, "at") \/ DeliverRecords(u))
Fairness == WF_vars(NextDay) /\ JobFairness
FairSpec == Spec /\ Fairness

-----------------------------------------------------------------------------
\* "Did the customer actually get told": an email recorded as sent was taken by the
\* provider, whatever attempts were lost on the way or go on beside a later one.
SentWasTaken == \A u \in Users : mail[u].row = "sent" => mail[u].taken

\* A licence about to expire, and left so, is warned of: everybody is told of the
\* date it has, however jobs fail and whenever it was renewed, provided that other
\* people's items do not crowd it out of the scan again and again.
WarnedInTime ==
  <>[]~crowded => \A n \in Dates :
    (licence.near /\ licence.of = n) ~> (licence.of # n \/ licence.void \/ Users \X {n} \subseteq told)

\* Every email's job comes to an end.
EmailIsSettled == \A u \in Users : mail[u].job = "live" ~> mail[u].job # "live"
=============================================================================
