------------------------------ MODULE Tenancy ------------------------------
(***************************************************************************)
(* Whose rows a transaction may see and write. A request borrows a pooled  *)
(* connection, begins, names its company in settings local to the          *)
(* transaction, runs its statements and commits or rolls back; the         *)
(* policies of the tables compare each row with those settings. "If a code *)
(* path forgets to set the context the query returns ZERO rows."           *)
(*                                                                         *)
(* One table stands for each kind of policy. A connection whose rollback   *)
(* fails is taken to be lost, and the pool replaces it.                    *)
(***************************************************************************)
EXTENDS Naturals, FiniteSets

CONSTANTS Companies, Requests,
          AppConns,       \* connections of appPool, in the role ocs_app
          ServiceConns,   \* of servicePool: ocs_service, if it has a URL of its own
          MaxWrites,      \* bound on the rows a transaction changes
          None

VARIABLES
  separate,   \* DATABASE_SERVICE_URL is given
  conn,       \* per connection: who has it, its transaction and its settings
  req,        \* per request: what it is, how far it is and its connection
  rows        \* the committed rows
vars == <<separate, conn, req, rows>>

Conns == AppConns \cup ServiceConns
Tables == {"permits", "audit_log", "notes", "messages", "trades", "webhook_events",
           "demo_requests"}
\* A row of a tenant's table has its company; of the others, none.
Shared == {"trades", "webhook_events", "demo_requests"}
Row == {row \in [table : Tables, company : Companies \cup {None}, by : Requests \cup {None}] :
          (row.company = None) = (row.table \in Shared)}
\* What there is before anybody comes: a permit, an entry of the audit trail, an
\* internal note and a message of each company, and the firm's own rows.
Seed == {row \in Row : row.by = None}

\* The settings app.current_company_id and app.service_context, None when not set.
Unset == [company |-> None, service |-> None]
Free == [lent |-> None, begun |-> FALSE, local |-> Unset, session |-> Unset,
         added |-> {}, removed |-> {}]
Nobody == [kind |-> None, company |-> None, at |-> "idle", on |-> None]

Settled == [company : Companies \cup {None}, service : {"on", None}]
Slot == [lent : Requests \cup {None}, begun : BOOLEAN, local : Settled, session : Settled,
         added : SUBSET Row, removed : SUBSET Row]
TypeOK ==
  /\ separate \in BOOLEAN
  /\ conn \in [Conns -> Slot]
  /\ req \in [Requests -> [kind : {"contractor", "staff", "worker", "public", "other", None},
                           company : Companies \cup {None},
                           at : {"idle", "waits", "lent", "begun", "works", "done", "failed",
                                 "refused"},
                           on : Conns \cup {None}]]
  /\ rows \subseteq Row

Init ==
  /\ separate \in BOOLEAN
  /\ conn = [k \in Conns |-> Free]
  /\ req = [r \in Requests |-> Nobody]
  /\ rows = Seed

At(r, place) == req[r].at = place
Moves(r, place) == req' = [req EXCEPT ![r].at = place]

-----------------------------------------------------------------------------
\* scoped: a contractor's request works in its company, whichever one it asks for;
\* staff work in service context, narrowed or not; others are refused.
Comes(r) ==
  /\ At(r, "idle")
  /\ \E kind \in {"contractor", "staff", "worker", "public", "other"},
        c \in Companies \cup {None} :
       /\ kind \in {"contractor", "worker"} => c # None
       /\ kind \in {"public", "other"} => c = None
       /\ req' = [req EXCEPT ![r] = [kind |-> kind, company |-> c, on |-> None,
                     at |-> IF kind = "other" THEN "refused" ELSE "waits"]]
  /\ UNCHANGED <<separate, conn, rows>>

PoolOf(kind) == IF kind \in {"staff", "worker"} THEN ServiceConns ELSE AppConns
Connects(r) ==
  /\ At(r, "waits")
  /\ \E k \in PoolOf(req[r].kind) :
       /\ conn[k].lent = None
       /\ conn' = [conn EXCEPT ![k].lent = r]
       /\ req' = [req EXCEPT ![r].at = "lent", ![r].on = k]
  /\ UNCHANGED <<separate, rows>>

\* A transaction that is open already stays as it is.
Begins(r) ==
  /\ At(r, "lent")
  /\ conn' = [conn EXCEPT ![req[r].on].begun = TRUE]
  /\ Moves(r, "begun")
  /\ UNCHANGED <<separate, rows>>

\* What is set, over what was set before.
Over(new, old) ==
  [company |-> IF new.company # None THEN new.company ELSE old.company,
   service |-> IF new.service # None THEN new.service ELSE old.service]
\* Mutant: the settings outlive their transaction.
SetForSession(k, settings) == [conn[k] EXCEPT !.session = Over(settings, @)]
\* set_config(..., true).
Set(k, settings) == [conn[k] EXCEPT !.local = Over(settings, @)]
\* withTenant, withServiceContext, withWorkerTenant; withPublicWrite names nobody.
Settings(r) ==
  CASE req[r].kind \in {"contractor", "worker"} -> [Unset EXCEPT !.company = req[r].company]
    [] req[r].kind = "staff" -> [company |-> req[r].company, service |-> "on"]
    [] OTHER -> Unset
Names(r) ==
  /\ At(r, "begun")
  /\ conn' = [conn EXCEPT ![req[r].on] = Set(req[r].on, Settings(r))]
  /\ Moves(r, "works")
  /\ UNCHANGED <<separate, rows>>

-----------------------------------------------------------------------------
\* current_setting: what the transaction set, or else the session.
Setting(k) == Over(conn[k].local, conn[k].session)
current_company_id(k) == Setting(k).company
\* Mutant: the flag alone switches the policies off.
FlagAlone(k) == Setting(k).service = "on"
\* The flag, and a role that a contractor's request does not have.
is_service_context(k) ==
  Setting(k).service = "on" /\ separate /\ k \in ServiceConns

\* tenant_isolation, as it stands on every table with a company_id.
IsOwn(k, row) == row.company # None /\ row.company = current_company_id(k)
tenant_isolation(k, row) == IsOwn(k, row) \/ is_service_context(k)
\* support_messages: the internal ones are not the contractor's.
tenant_read(k, row) == is_service_context(k) \/ (IsOwn(k, row) /\ row.table = "messages")
\* Reference tables are read by everybody, and infrastructure by none of them.
CanRead(k, row) ==
  CASE row.table \in {"permits", "audit_log"} -> tenant_isolation(k, row)
    [] row.table \in {"notes", "messages"} -> tenant_read(k, row)
    [] row.table = "trades" -> TRUE
    [] OTHER -> is_service_context(k)
\* Mutant: a tenant's row is not checked for where it goes.
MayAnyhow(k, row) ==
  row.table \in {"permits", "audit_log"} \/ tenant_read(k, row) \/ is_service_context(k)
\* with check.
MayBe(k, row) ==
  CASE row.table \in {"permits", "audit_log"} -> tenant_isolation(k, row)
    [] row.table \in {"notes", "messages"} -> tenant_read(k, row)
    [] row.table = "demo_requests" -> FALSE
    [] OTHER -> is_service_context(k)
\* grants: "the application literally cannot rewrite history".
MayChange(k, row) ==
  /\ row.table \notin {"audit_log", "notes", "messages"}
  /\ CanRead(k, row)
  /\ row.table = "trades" => is_service_context(k)
MayRemove(k, row) == MayChange(k, row) /\ row.table \in {"permits", "trades"}

\* The rows a transaction sees: what is committed and what it did itself.
View(k) == (rows \ conn[k].removed) \cup conn[k].added
Writes(k, added, removed) ==
  /\ Cardinality(conn[k].added \cup conn[k].removed) < MaxWrites
  /\ conn' = [conn EXCEPT ![k].added = (@ \ removed) \cup added,
                          ![k].removed = @ \cup (removed \cap rows)]
Inserts(r) ==
  LET k == req[r].on IN
  /\ At(r, "works")
  /\ \E row \in Row :
       /\ row.by = r /\ MayBe(k, row)
       /\ Writes(k, {row}, {})
  /\ UNCHANGED <<separate, req, rows>>
\* An update that would give the row to another company fails its check.
Updates(r) ==
  LET k == req[r].on IN
  /\ At(r, "works")
  /\ \E row \in View(k), c \in Companies :
       LET after == [row EXCEPT !.company = c, !.by = r] IN
       /\ row.company # None /\ MayChange(k, row) /\ MayBe(k, after)
       /\ Writes(k, {after}, {row} \ {after})
  /\ UNCHANGED <<separate, req, rows>>
Deletes(r) ==
  LET k == req[r].on IN
  /\ At(r, "works")
  /\ \E row \in View(k) : MayRemove(k, row) /\ Writes(k, {}, {row})
  /\ UNCHANGED <<separate, req, rows>>
\* submit_demo_request, security definer: the one way in for a visitor.
Submits(r) ==
  LET k == req[r].on
      row == [table |-> "demo_requests", company |-> None, by |-> r] IN
  /\ At(r, "works") /\ req[r].kind = "public"
  /\ Writes(k, {row}, {})
  /\ UNCHANGED <<separate, req, rows>>

-----------------------------------------------------------------------------
\* commit and rollback take the transaction's settings with them.
Ended(k) == [Free EXCEPT !.session = conn[k].session]
Commits(r) ==
  /\ At(r, "works")
  /\ rows' = View(req[r].on)
  /\ conn' = [conn EXCEPT ![req[r].on] = Ended(req[r].on)]
  /\ req' = [req EXCEPT ![r].at = "done", ![r].on = None]
  /\ UNCHANGED separate
\* Mutant: what failed is released without a rollback.
LeftAsItIs(k) == [conn[k] EXCEPT !.lent = None]
RolledBack(k) == Ended(k)
\* A refused statement, or anything else the handler throws.
Throws(r) ==
  /\ At(r, "lent") \/ At(r, "begun") \/ At(r, "works")
  /\ conn' = [conn EXCEPT ![req[r].on] = RolledBack(req[r].on)]
  /\ req' = [req EXCEPT ![r].at = "failed", ![r].on = None]
  /\ UNCHANGED <<separate, rows>>
\* The connection breaks: the server rolls back, the pool opens another.
Breaks(r) ==
  /\ req[r].on # None
  /\ conn' = [conn EXCEPT ![req[r].on] = Free]
  /\ req' = [req EXCEPT ![r].at = "failed", ![r].on = None]
  /\ UNCHANGED <<separate, rows>>

Next == \E r \in Requests :
  \/ Comes(r) \/ Connects(r) \/ Begins(r) \/ Names(r)
  \/ Inserts(r) \/ Updates(r) \/ Deletes(r) \/ Submits(r)
  \/ Commits(r) \/ Throws(r) \/ Breaks(r)

Spec == Init /\ [][Next]_vars

-----------------------------------------------------------------------------
\* Whom a request acts for; staff are everybody's only with the role for it.
Everybodys(r) == req[r].kind = "staff" /\ separate
\* A request sees the rows of its company and the shared ones, no note about it,
\* and a visitor nothing of anybody's: whatever the connection was used for before.
SeesItsOwn == \A r \in Requests :
  At(r, "works") /\ ~Everybodys(r) =>
    \A row \in Row : CanRead(req[r].on, row) =>
      \/ row.table = "trades"
      \/ row.company # None /\ row.company = req[r].company /\ row.table # "notes"

\* What a request leaves behind is its company's, and nothing if it failed.
WritesItsOwn == \A row \in rows : row.by # None =>
  /\ req[row.by].at = "done"
  /\ \/ Everybodys(row.by)
     \/ row.company # None /\ row.company = req[row.by].company
     \/ req[row.by].kind = "public" /\ row.table = "demo_requests"

\* A connection in the pool carries nothing of who had it.
PoolIsBlank == \A k \in Conns : conn[k].lent = None => conn[k] = Free

\* History is only added to.
HistoryStays == {row \in Seed : row.table = "audit_log"} \subseteq rows

OwnRowsOnly == SeesItsOwn /\ WritesItsOwn /\ PoolIsBlank /\ HistoryStays
=============================================================================
