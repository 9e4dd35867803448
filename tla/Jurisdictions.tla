--------------------------- MODULE Jurisdictions ----------------------------
(***************************************************************************)
(* Bringing one jurisdiction's permitting system online: its connection    *)
(* and status-check mapping are configured, tried against a real permit,   *)
(* verified by a person and only then used by the automated checks.        *)
(*                                                                         *)
(* The configuring routes read api_config without a lock, merge what they  *)
(* were given into it and write the whole of it back.                      *)
(***************************************************************************)
EXTENDS Naturals

CONSTANTS Admins,       \* administrators, each with one request at a time
          MaxVersions,  \* bound on the mappings, and the connections, tried
          None

VARIABLES
  mapping,     \* api_config.statusCheck, 0 before there is one
  connection,  \* platform and api_base_url, 0 before there are any
  verified,    \* adapter_verified_at is set
  enabled,     \* status_check_enabled
  note,        \* tos_review_note is set
  approved,    \* automation_approved
  asked        \* what each administrator's request has read
vars == <<mapping, connection, verified, enabled, note, approved, asked>>

Versions == 0 .. MaxVersions

TypeOK ==
  /\ mapping \in Versions /\ connection \in Versions
  /\ {verified, enabled, note, approved} \subseteq BOOLEAN
  /\ asked \in [Admins -> [op : {"configure", "connect", "verify"}, read : Versions] \cup {None}]

Init ==
  /\ mapping = 0 /\ connection = 0
  /\ verified = FALSE /\ enabled = FALSE
  /\ note = FALSE /\ approved = FALSE
  /\ asked = [a \in Admins |-> None]

\* Mutant: the database does not insist.
AnyMayEnable(v, e) == TRUE
\* municipalities_check_requires_verification.
CheckAllows(v, e) == e => v

\* Every request begins by reading the row.
Reads(a, op) ==
  /\ asked[a] = None
  /\ asked' = [asked EXCEPT ![a] = [op |-> op, read |-> mapping]]
  /\ UNCHANGED <<mapping, connection, verified, enabled, note, approved>>
Asked(a, op) ==
  /\ asked[a] # None /\ asked[a].op = op
  /\ asked' = [asked EXCEPT ![a] = None]
  /\ UNCHANGED <<note, approved>>

-----------------------------------------------------------------------------
\* PATCH /v1/admin/municipalities/:id/integration. A new mapping or connection
\* takes the verification away; a lookup address (m and c None) leaves it.
Configure(a) ==
  /\ Asked(a, "configure")
  /\ \E m, c \in (Versions \ {0}) \cup {None} :
       /\ mapping' = IF m = None THEN asked[a].read ELSE m
       /\ connection' = IF c = None THEN connection ELSE c
       /\ IF m = None /\ c = None THEN UNCHANGED <<verified, enabled>>
          ELSE verified' = FALSE /\ enabled' = FALSE

\* PATCH /api/admin/jurisdictions/:id/integration: platform, address and secret.
Connect(a) ==
  /\ Asked(a, "connect")
  /\ mapping' = asked[a].read
  /\ connection' \in {connection} \cup (Versions \ {0})
  /\ UNCHANGED <<verified, enabled>>

\* POST .../verify, by a person. Checks are enabled only if the row read had a
\* mapping.
Verify(a) ==
  /\ Asked(a, "verify")
  /\ \E enable \in BOOLEAN :
       /\ enable => asked[a].read # 0
       /\ enabled' = enable
  /\ verified' = TRUE
  /\ UNCHANGED <<mapping, connection>>

\* PATCH /v1/admin/municipalities/:id, the switch alone.
Switch(on) ==
  /\ on # enabled
  /\ CheckAllows(verified, on)
  /\ enabled' = on
  /\ UNCHANGED <<mapping, connection, verified, note, approved, asked>>

\* PATCH /api/jurisdictions/:id, under the row's lock: a note is kept when none
\* is given, and approval needs one.
Correct(n, ok) ==
  /\ ok => note \/ n
  /\ note' = (note \/ n)
  /\ approved' = ok
  /\ UNCHANGED <<mapping, connection, verified, enabled, asked>>

Next ==
  \/ \E a \in Admins : \/ \E op \in {"configure", "connect", "verify"} : Reads(a, op)
                       \/ Configure(a) \/ Connect(a) \/ Verify(a)
  \/ \E on \in BOOLEAN : Switch(on)
  \/ \E n, ok \in BOOLEAN : Correct(n, ok)
Spec == Init /\ [][Next]_vars

-----------------------------------------------------------------------------
\* "Automated checking cannot be switched on for a jurisdiction nobody has
\* verified, whatever code path tries", nor stay on when the verification goes;
\* nor is automation approved without a note of who read the terms.
NothingUnreviewed == (enabled => verified) /\ (approved => note)
=============================================================================
