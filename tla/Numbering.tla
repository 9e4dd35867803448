------------------------------ MODULE Numbering -----------------------------
(***************************************************************************)
(* The numbers a contractor knows its projects, drafting orders,           *)
(* applications and invoices by. A trigger numbers a row that arrives      *)
(* without one, under a lock on the company held to the end of the         *)
(* transaction; the office's invoices bring their own number.              *)
(***************************************************************************)
EXTENDS Naturals, FiniteSetsExt

CONSTANTS Companies,
          Clerks,   \* transactions that may be open at once
          Kinds,    \* tables with a number: "project", "order", "application", "invoice"
          Base,     \* the office's invoices start after it (1000 in the code)
          MaxRows,  \* bound on the rows of a table and company
          None

VARIABLES
  numbers,  \* the numbers of the committed rows, by company and table
  gone,     \* those whose row was deleted: it stays, with its number
  open      \* each clerk's insert before it commits
vars == <<numbers, gone, open>>

Tables == Companies \X Kinds
Inserting(t) == {k \in Clerks : open[k] # None /\ open[k].table = t}

TypeOK ==
  /\ numbers \in [Tables -> SUBSET (1 .. Base + 3 * MaxRows)]
  /\ \A t \in Tables : gone[t] \subseteq numbers[t]
  /\ \A k \in Clerks : open[k] # None =>
       open[k].table \in Tables /\ open[k].number \in 1 .. Base + 3 * MaxRows
         /\ open[k].locks \in BOOLEAN

Init ==
  /\ numbers = [t \in Tables |-> {}] /\ gone = [t \in Tables |-> {}]
  /\ open = [k \in Clerks |-> None]

\* Mutant: the number is taken without the lock.
NeverLocked(t) == FALSE
\* pg_advisory_xact_lock on the table and company.
Locked(t) == \E k \in Inserting(t) : open[k].locks

\* max + 1 over the company's rows, the deleted ones too.
NextNumber(t) == Max({0} \cup numbers[t]) + 1
\* max + 1 over every company's invoices, and no lock.
OfficeNumber == Max({Base} \cup UNION {numbers[<<c, "invoice">>] : c \in Companies}) + 1

Inserts(k, t, number, locks) ==
  /\ open[k] = None
  /\ Cardinality(numbers[t]) + Cardinality(Inserting(t)) < MaxRows
  /\ open' = [open EXCEPT ![k] = [table |-> t, number |-> number, locks |-> locks]]
  /\ UNCHANGED <<numbers, gone>>

\* The inserts of /v1/projects, /api/projects, both drafting routes, the
\* application and /v1/invoices: the number is left to the trigger.
Insert(k, t) == ~Locked(t) /\ Inserts(k, t, NextNumber(t), TRUE)

\* POST /api/billing/invoices.
InsertInvoice(k, c) ==
  "invoice" \in Kinds /\ Inserts(k, <<c, "invoice">>, OfficeNumber, FALSE)

\* A number another transaction has committed meanwhile is refused by the unique
\* constraint, and the insert can only be rolled back.
Commit(k) ==
  /\ open[k] # None /\ open[k].number \notin numbers[open[k].table]
  /\ numbers' = [numbers EXCEPT ![open[k].table] = @ \cup {open[k].number}]
  /\ open' = [open EXCEPT ![k] = None]
  /\ UNCHANGED gone

\* Any later statement of the handler may fail: the row goes, and its number with it.
Rollback(k) ==
  /\ open[k] # None
  /\ open' = [open EXCEPT ![k] = None]
  /\ UNCHANGED <<numbers, gone>>

\* DELETE /v1/projects/:id.
Delete(t, n) ==
  /\ t[2] = "project" /\ n \in numbers[t] \ gone[t]
  /\ gone' = [gone EXCEPT ![t] = @ \cup {n}]
  /\ UNCHANGED <<numbers, open>>

Next ==
  \/ \E k \in Clerks : \/ Commit(k) \/ Rollback(k)
                       \/ \E t \in Tables : Insert(k, t)
                       \/ \E c \in Companies : InsertInvoice(k, c)
  \/ \E t \in Tables : \E n \in numbers[t] : Delete(t, n)
Spec == Init /\ [][Next]_vars

-----------------------------------------------------------------------------
\* "Each contractor sees their own 1, 2, 3... and two concurrent inserts for the
\* same company cannot collide": the committed numbers run from 1 without a gap,
\* and the one that is being inserted is the next.
OwnNumbers ==
  \A t \in Tables : t[2] # "invoice" =>
    /\ numbers[t] = 1 .. Cardinality(numbers[t])
    /\ \A k \in Inserting(t) : Inserting(t) = {k} /\ open[k].number \notin numbers[t]
=============================================================================
