--------------------------- MODULE IdentityProofs ---------------------------
(***************************************************************************)
(* Whom a request acts for: what ends its session and whose cookie that    *)
(* is, for any number of tabs, browsers, tokens, ends and secrets; and     *)
(* whose rows its transaction sees and leaves behind, for any number of    *)
(* companies, requests, connections and rows.                              *)
(***************************************************************************)
EXTENDS MCAccess, TLAPS

-----------------------------------------------------------------------------
(* Sessions: what ends them.                                               *)

\* What a call may hold.
Claims(c) == c # None /\ c.op \in {"ticket", "issue", "answer", "change", "setup", "enable"}
Signs(c) == c # None /\ c.op \in {"issue", "answer"}
Carries(c) == c # None /\ c.op \in {"refresh", "leave", "answer"}

\* Whatever claims to be a session was granted at the version it names, when as
\* many ends had passed; and the refresh tokens claim no second factor.
Honest(g, v) == g.era = g.ver /\ g.ver <= v
Granted(w) ==
  /\ version = ends
  /\ \A t \in TabsOf(w) : access[t] # None => Honest(access[t], version)
  /\ \A t \in TabsOf(w) : Claims(call[t]) => Honest(call[t].grant, version)
  /\ \A k \in TokensOf(w) : token[k] # None => Honest(token[k].grant, version) /\ ~token[k].grant.mfa

\* The calls of a tab and their fields.
LEMMA CallFields ==
  ASSUME NEW w \in SessionLooks, NEW c \in Session(w)!Call
  PROVE  /\ c # None
         /\ Claims(c) => c.grant \in Session(w)!Grant
         /\ Carries(c) => c.token \in TokensOf(w)
  BY SessionNone DEF Session!Call, Claims, Carries

\* What a request leaves in its tab's place.
LEMMA GoesTyped ==
  ASSUME NEW w \in SessionLooks, NEW t \in TabsOf(w), NEW c \in Session(w)!Call \cup {None},
         Session(w)!TypeOK, Session(w)!Goes(t, c)
  PROVE  /\ call' \in [TabsOf(w) -> Session(w)!Call \cup {None}]
         /\ call'[t] = c
         /\ \A u \in TabsOf(w) : u # t => call'[u] = call[u]
  BY DEF Session!Goes, Session!TypeOK

LEMMA GrantTyped ==
  ASSUME NEW w \in SessionLooks, Session(w)!TypeOK, NEW mfa \in BOOLEAN
  PROVE  Session(w)!NewGrant(mfa) \in Session(w)!Grant
  BY DEF Session!NewGrant, Session!Grant, Session!TypeOK

LEMMA RevokeTyped ==
  ASSUME NEW w \in SessionLooks, NEW r \in Session(w)!Row \cup {None}, NEW rotation \in BOOLEAN
  PROVE  /\ Session(w)!RevokeRow(r, rotation) \in Session(w)!Row \cup {None}
         /\ Session(w)!RevokeRow(r, rotation) = None <=> r = None
         /\ r # None => Session(w)!RevokeRow(r, rotation).grant = r.grant
         /\ r # None /\ ~rotation /\ Session(w)!RevokeRow(r, rotation).rotated => r.rotated
<1>1. CASE r = None
  BY <1>1 DEF Session!RevokeRow
<1>2. CASE r # None
  <2>1. r \in Session(w)!Row
    BY <1>2
  <2>2. CASE r.state = "live"
    <3>1. Session(w)!RevokeRow(r, rotation) =
            [grant |-> r.grant, state |-> "recent", rotated |-> rotation]
      BY <1>2, <2>1, <2>2 DEF Session!RevokeRow, Session!Row
    <3>2. Session(w)!RevokeRow(r, rotation) \in Session(w)!Row
      BY <2>1, <3>1 DEF Session!Row
    <3> QED BY <1>2, <3>1, <3>2, SessionNone
  <2>3. CASE r.state # "live"
    BY <1>2, <2>1, <2>3 DEF Session!RevokeRow
  <2> QED BY <2>2, <2>3
<1> QED BY <1>1, <1>2

LEMMA RevokeAllTyped ==
  ASSUME NEW w \in SessionLooks, Session(w)!TypeOK, Session(w)!RevokeAll
  PROVE  /\ token' \in [TokensOf(w) -> Session(w)!Row \cup {None}]
         /\ \A k \in TokensOf(w) : token'[k] = None <=> token[k] = None
         /\ \A k \in TokensOf(w) : token[k] # None =>
              /\ token'[k].grant = token[k].grant
              /\ token'[k].rotated => token[k].rotated
<1> DEFINE Revoked(k) == Session(w)!RevokeRow(token[k], FALSE)
<1>1. token' = [k \in TokensOf(w) |-> Revoked(k)]
  BY DEF Session!RevokeAll
<1>2. \A k \in TokensOf(w) : token[k] \in Session(w)!Row \cup {None}
  BY DEF Session!TypeOK
<1>3. ASSUME NEW k \in TokensOf(w)
      PROVE  /\ Revoked(k) \in Session(w)!Row \cup {None}
             /\ Revoked(k) = None <=> token[k] = None
             /\ token[k] # None => Revoked(k).grant = token[k].grant
             /\ token[k] # None => (Revoked(k).rotated => token[k].rotated)
  <2>1. token[k] \in Session(w)!Row \cup {None} /\ FALSE \in BOOLEAN
    BY <1>2
  <2> QED BY <2>1, RevokeTyped
<1>4. \A k \in TokensOf(w) : token'[k] = Revoked(k)
  BY <1>1
<1>5. token' \in [TokensOf(w) -> Session(w)!Row \cup {None}]
  BY <1>1, <1>3
<1> HIDE DEF Revoked
<1> QED BY <1>3, <1>4, <1>5

-----------------------------------------------------------------------------
\* A step of a tab keeps the types and the grants honest.
GrantedInv(w) == Session(w)!TypeOK /\ Granted(w)

LEMMA GrantedInit ==
  ASSUME NEW w \in SessionLooks, Session(w)!Init
  PROVE  GrantedInv(w)
  BY SessionNone, TriesAssumption
  DEF GrantedInv, Granted, Claims, Session!Init, Session!TypeOK

\* A step that only moves a tab from one honest call to another.
LEMMA MovesOn ==
  ASSUME NEW w \in SessionLooks, GrantedInv(w), NEW t \in TabsOf(w),
         NEW c \in Session(w)!Call \cup {None}, Session(w)!Goes(t, c),
         Claims(c) => Honest(c.grant, version),
         UNCHANGED <<version, active, factor, mfaOn, token, cookie, access, ends, secrets>>,
         ticket' \in [TabsOf(w) -> (0 .. MaxTries) \cup {None}],
         overrun' \in BOOLEAN, lost' = lost
  PROVE  GrantedInv(w)'
<1>1. Session(w)!TypeOK'
  BY GoesTyped DEF GrantedInv, Session!TypeOK
<1>2. \A u \in TabsOf(w) : Claims(call'[u]) => Honest(call'[u].grant, version)
  BY GoesTyped DEF GrantedInv, Granted
<1>3. Granted(w)'
  BY <1>2 DEF GrantedInv, Granted, Honest, Claims
<1> QED BY <1>1, <1>3 DEF GrantedInv

\* An end of all sessions leaves every grant honest, and behind.
LEMMA EndsAll ==
  ASSUME NEW w \in SessionLooks, GrantedInv(w), Session(w)!EndsSessions
  PROVE  /\ version' \in Nat /\ ends' = version' /\ version' = version + 1
         /\ \A g \in Session(w)!Grant : Honest(g, version) => Honest(g, version') /\ g.ver # version'
<1>1. version \in Nat /\ ends = version /\ ends' = ends + 1 /\ version' = version + 1
  BY DEF GrantedInv, Session!TypeOK, Granted, Session!EndsSessions
<1>2. ASSUME NEW g \in Session(w)!Grant, Honest(g, version)
      PROVE  Honest(g, version') /\ g.ver # version'
  <2>1. g.ver \in Nat /\ g.era = g.ver /\ g.ver <= version
    BY <1>2 DEF Session!Grant, Honest
  <2> QED BY <1>1, <2>1 DEF Honest
<1> QED BY <1>1, <1>2

LEMMA StillHonest ==
  ASSUME NEW w \in SessionLooks, GrantedInv(w), Session(w)!EndsSessions
  PROVE  /\ \A t \in TabsOf(w) : Claims(call[t]) => Honest(call[t].grant, version')
         /\ \A t \in TabsOf(w) : access[t] # None => Honest(access[t], version')
         /\ \A k \in TokensOf(w) : token[k] # None => Honest(token[k].grant, version')
<1>1. \A t \in TabsOf(w) : Claims(call[t]) => call[t].grant \in Session(w)!Grant
  BY CallFields DEF GrantedInv, Session!TypeOK, Claims
<1>2. \A t \in TabsOf(w) : access[t] # None => access[t] \in Session(w)!Grant
  BY DEF GrantedInv, Session!TypeOK
<1>3. \A k \in TokensOf(w) : token[k] # None => token[k].grant \in Session(w)!Grant
  BY DEF GrantedInv, Session!TypeOK, Session!Row
<1> QED BY <1>1, <1>2, <1>3, EndsAll DEF GrantedInv, Granted

\* Rows that are revoked, all of them or one, stay honest.
LEMMA RevokedHonest ==
  ASSUME NEW w \in SessionLooks, GrantedInv(w), Session(w)!EndsSessions, Session(w)!RevokeAll
  PROVE  /\ token' \in [TokensOf(w) -> Session(w)!Row \cup {None}]
         /\ \A k \in TokensOf(w) : token'[k] # None =>
              Honest(token'[k].grant, version') /\ ~token'[k].grant.mfa
<1>1. Session(w)!TypeOK
  BY DEF GrantedInv
<1> QED BY <1>1, StillHonest, RevokeAllTyped DEF GrantedInv, Granted, Honest

LEMMA RevokeOneTyped ==
  ASSUME NEW w \in SessionLooks, GrantedInv(w), NEW k \in TokensOf(w), NEW rotation \in BOOLEAN,
         token' = [token EXCEPT ![k] = Session(w)!RevokeRow(@, rotation)]
  PROVE  /\ token' \in [TokensOf(w) -> Session(w)!Row \cup {None}]
         /\ \A j \in TokensOf(w) : token'[j] = None <=> token[j] = None
         /\ \A j \in TokensOf(w) : token[j] # None =>
              /\ token'[j].grant = token[j].grant
              /\ token'[j].rotated => token[j].rotated \/ (rotation /\ j = k)
<1> DEFINE r == Session(w)!RevokeRow(token[k], rotation)
<1>1. token[k] \in Session(w)!Row \cup {None} /\ token' = [token EXCEPT ![k] = r]
  BY DEF GrantedInv, Session!TypeOK
<1>2. /\ r \in Session(w)!Row \cup {None}
      /\ r = None <=> token[k] = None
      /\ token[k] # None => r.grant = token[k].grant
      /\ token[k] # None => (r.rotated => token[k].rotated \/ rotation)
  BY <1>1, RevokeTyped
<1> HIDE DEF r
<1> QED BY <1>1, <1>2 DEF GrantedInv, Session!TypeOK

\* A tab's request keeps its grants: what it claims, it takes from the account as
\* it stands, from an access token or from a row.
LEMMA GrantedTab ==
  ASSUME NEW w \in SessionLooks, GrantedInv(w), NEW t \in TabsOf(w), Session(w)!TabStep(t)
  PROVE  GrantedInv(w)'
<1> USE DEF GrantedInv
<1>a. /\ version \in Nat /\ ends = version
      /\ call[t] \in Session(w)!Call \cup {None}
      /\ access[t] \in Session(w)!Grant \cup {None}
      /\ ticket[t] \in (0 .. MaxTries) \cup {None}
      /\ access[t] # None => Honest(access[t], version)
      /\ Claims(call[t]) => Honest(call[t].grant, version) /\ call[t].grant \in Session(w)!Grant
      /\ Carries(call[t]) => call[t].token \in TokensOf(w)
      /\ BrowserOf[t] \in Browsers
  BY CallFields, BrowsersAssumption DEF Granted, Session!TypeOK, TabsOf, Claims, Carries
<1>b. \A mfa \in BOOLEAN : /\ Session(w)!NewGrant(mfa) \in Session(w)!Grant
                          /\ Honest(Session(w)!NewGrant(mfa), version)
  BY <1>a, GrantTyped DEF Session!NewGrant, Honest
<1>1. CASE Session(w)!Login(t)
  <2>1. PICK op \in {"ticket", "issue"} :
          Session(w)!Goes(t, [op |-> op, grant |-> Session(w)!NewGrant(FALSE)])
    BY <1>1 DEF Session!Login
  <2>2. [op |-> op, grant |-> Session(w)!NewGrant(FALSE)] \in Session(w)!Call
    BY <1>b DEF Session!Call
  <2> QED
    BY <1>1, <1>b, <2>1, <2>2, MovesOn
    DEF Session!Login, Session!account, Session!history, Session!TypeOK
<1>2. CASE Session(w)!IssueTicket(t)
  BY <1>2, TriesAssumption, MovesOn
  DEF Session!IssueTicket, Session!account, Session!history, Session!TypeOK, Claims
<1>3. CASE Session(w)!Challenge(t)
  <2>1. overrun' \in BOOLEAN
    BY <1>3 DEF Session!Challenge, Session!TypeOK
  <2>2. ticket' \in [TabsOf(w) -> (0 .. MaxTries) \cup {None}]
    BY <1>3, <1>a, TriesAssumption, SessionNone
    DEF Session!Challenge, Session!TriesLeft, Session!TypeOK
  <2>3. CASE UNCHANGED call
    BY <1>3, <2>1, <2>2, <2>3
    DEF Session!Challenge, Session!account, Session!TypeOK, Granted, Honest
  <2>4. CASE Session(w)!Goes(t, [op |-> "issue", grant |-> Session(w)!NewGrant(TRUE)])
    <3>1. [op |-> "issue", grant |-> Session(w)!NewGrant(TRUE)] \in Session(w)!Call
      BY <1>b DEF Session!Call
    <3> QED
      BY <1>3, <1>b, <2>1, <2>2, <2>4, <3>1, MovesOn
      DEF Session!Challenge, Session!account
  <2> QED BY <1>3, <2>3, <2>4 DEF Session!Challenge
<1>4. CASE Session(w)!Refresh(t)
  <2>1. [op |-> "refresh", token |-> cookie[BrowserOf[t]]] \in Session(w)!Call
    BY <1>4, <1>a DEF Session!Refresh, Session!Call, Session!TypeOK
  <2> QED
    BY <1>4, <2>1, MovesOn
    DEF Session!Refresh, Session!account, Session!history, Session!TypeOK, Claims
<1>5. CASE Session(w)!ChangePassword(t) \/ Session(w)!SetupReads(t) \/ Session(w)!EnableReads(t)
  <2>1. PICK op \in {"change", "setup", "enable"} :
          Session(w)!Goes(t, [op |-> op, grant |-> access[t]])
    BY <1>5 DEF Session!ChangePassword, Session!SetupReads, Session!EnableReads
  <2>2. access[t] # None
    BY <1>5 DEF Session!ChangePassword, Session!SetupReads, Session!EnableReads, Session!Accepted
  <2>3. [op |-> op, grant |-> access[t]] \in Session(w)!Call
    BY <1>a, <2>2 DEF Session!Call
  <2> QED
    BY <1>5, <1>a, <2>1, <2>2, <2>3, MovesOn
    DEF Session!ChangePassword, Session!SetupReads, Session!EnableReads,
        Session!account, Session!history, Session!TypeOK
<1>6. CASE Session(w)!Issue(t)
  <2>1. PICK k \in TokensOf(w) :
          /\ token' = [token EXCEPT ![k] = [grant |-> [call[t].grant EXCEPT !.mfa = FALSE],
                                            state |-> "live", rotated |-> FALSE]]
          /\ Session(w)!Goes(t, [op |-> "answer", token |-> k, grant |-> call[t].grant])
    BY <1>6 DEF Session!Issue
  <2>2. Claims(call[t])
    BY <1>6 DEF Session!Issue, Claims
  <2>3. [op |-> "answer", token |-> k, grant |-> call[t].grant] \in Session(w)!Call
    BY <1>a, <2>2 DEF Session!Call
  <2> DEFINE g == [call[t].grant EXCEPT !.mfa = FALSE]
  <2>4. g \in Session(w)!Grant /\ Honest(g, version) /\ ~g.mfa
    BY <1>a, <2>2 DEF Session!Grant, Honest
  <2> HIDE DEF g
  <2>5. [grant |-> g, state |-> "live", rotated |-> FALSE] \in Session(w)!Row
    BY <2>4 DEF Session!Row
  <2>6. token' = [token EXCEPT ![k] = [grant |-> g, state |-> "live", rotated |-> FALSE]]
    BY <2>1 DEF g
  <2>7. token' \in [TokensOf(w) -> Session(w)!Row \cup {None}]
    BY <2>5, <2>6 DEF Session!TypeOK
  <2>8. call' \in [TabsOf(w) -> Session(w)!Call \cup {None}]
    BY <2>1, <2>3, GoesTyped
  <2>9. UNCHANGED <<version, active, factor, mfaOn, ticket, cookie, access,
                    ends, secrets, overrun, lost>>
    BY <1>6 DEF Session!Issue, Session!account, Session!history
  <2>10. \A u \in TabsOf(w) : Claims(call'[u]) => Honest(call'[u].grant, version)
    BY <1>a, <2>1, <2>2, <2>3, GoesTyped DEF Granted
  <2>11. \A j \in TokensOf(w) : token'[j] # None =>
          Honest(token'[j].grant, version) /\ ~token'[j].grant.mfa
    BY <2>4, <2>6 DEF Granted, Session!TypeOK
  <2> QED
    BY <2>7, <2>8, <2>9, <2>10, <2>11 DEF Session!TypeOK, Granted, Honest
<1>7. CASE Session(w)!Answer(t)
  <2>1. Claims(call[t]) /\ Carries(call[t])
    BY <1>7 DEF Session!Answer, Claims, Carries
  <2>2. Session(w)!TypeOK'
    BY <1>7, <1>a, <2>1, GoesTyped
    DEF Session!Answer, Session!account, Session!history, Session!TypeOK
  <2>3. \A u \in TabsOf(w) : Claims(call'[u]) => Honest(call'[u].grant, version)
    BY <1>7, GoesTyped DEF Session!Answer, Granted, Claims
  <2> QED
    BY <1>7, <1>a, <2>1, <2>2, <2>3
    DEF Session!Answer, Session!account, Session!history, Session!TypeOK, Granted, Honest
<1>8. CASE Session(w)!Lose(t)
  <2>1. lost' \in SUBSET Browsers
    BY <1>8, <1>a DEF Session!Lose, Session!TypeOK
  <2>2. access' \in [TabsOf(w) -> Session(w)!Grant \cup {None}]
    BY <1>8, <1>a DEF Session!Lose, Session!TypeOK
  <2>3. \A u \in TabsOf(w) : access'[u] # None => Honest(access'[u], version)
    BY <1>8 DEF Session!Lose, Session!TypeOK, Granted
  <2>4. /\ call' \in [TabsOf(w) -> Session(w)!Call \cup {None}]
        /\ \A u \in TabsOf(w) : Claims(call'[u]) => Honest(call'[u].grant, version)
    BY <1>8, GoesTyped DEF Session!Lose, Granted, Claims
  <2> QED
    BY <1>8, <2>1, <2>2, <2>3, <2>4
    DEF Session!Lose, Session!account, Session!TypeOK, Granted, Honest
<1>9. CASE Session(w)!ReuseDetected(t)
  <2>1. /\ access' \in [TabsOf(w) -> Session(w)!Grant \cup {None}]
        /\ \A u \in TabsOf(w) : access'[u] = None \/ access'[u] = access[u]
    BY <1>9 DEF Session!ReuseDetected, Session!TypeOK
  <2>2. /\ call' \in [TabsOf(w) -> Session(w)!Call \cup {None}]
        /\ \A u \in TabsOf(w) : call'[u] = None \/ call'[u] = call[u]
    BY <1>9, GoesTyped DEF Session!ReuseDetected
  <2>3. Session(w)!EndsSessions /\ Session(w)!RevokeAll
    BY <1>9 DEF Session!ReuseDetected
  <2> QED
    BY <1>9, <2>1, <2>2, <2>3, EndsAll, StillHonest, RevokedHonest
    DEF Session!ReuseDetected, Session!TypeOK, Granted, Honest, Claims
<1>10. CASE Session(w)!RefreshRefused(t)
  <2>1. call[t].token \in TokensOf(w)
    BY <1>10, <1>a DEF Session!RefreshRefused, Session!Presents, Carries
  <2>2. /\ token' \in [TokensOf(w) -> Session(w)!Row \cup {None}]
        /\ \A k \in TokensOf(w) : token'[k] # None =>
             token[k] # None /\ token'[k].grant = token[k].grant
    BY <1>10, <2>1, RevokeOneTyped DEF Session!RefreshRefused, Session!TypeOK
  <2>3. access' \in [TabsOf(w) -> Session(w)!Grant \cup {None}]
    BY <1>10 DEF Session!RefreshRefused, Session!TypeOK
  <2>4. /\ call' \in [TabsOf(w) -> Session(w)!Call \cup {None}]
        /\ \A u \in TabsOf(w) : Claims(call'[u]) => Honest(call'[u].grant, version)
    BY <1>10, GoesTyped DEF Session!RefreshRefused, Granted, Claims
  <2>5. \A u \in TabsOf(w) : access'[u] # None => Honest(access'[u], version)
    BY <1>10 DEF Session!RefreshRefused, Granted, Session!TypeOK
  <2>6. UNCHANGED <<version, active, factor, mfaOn, ticket, cookie, ends, secrets, overrun, lost>>
    BY <1>10 DEF Session!RefreshRefused, Session!account, Session!history
  <2> QED
    BY <2>2, <2>3, <2>4, <2>5, <2>6 DEF Session!TypeOK, Granted, Honest
<1>11. CASE Session(w)!RefreshGranted(t)
  <2> DEFINE k == call[t].token
  <2>1. /\ k \in TokensOf(w)
        /\ token[k] # None
        /\ token' = [token EXCEPT ![k] = Session(w)!RevokeRow(@, TRUE)]
        /\ Session(w)!Goes(t, [op |-> "issue", grant |-> token[k].grant])
    BY <1>11, <1>a
    DEF Session!RefreshGranted, Session!Rotates, Session!Presents, Session!Good, Carries
  <2>2. token[k].grant \in Session(w)!Grant /\ Honest(token[k].grant, version)
    BY <2>1 DEF Session!TypeOK, Session!Row, Granted
  <2>3. [op |-> "issue", grant |-> token[k].grant] \in Session(w)!Call
    BY <2>2 DEF Session!Call
  <2> HIDE DEF k
  <2>4. /\ token' \in [TokensOf(w) -> Session(w)!Row \cup {None}]
        /\ \A j \in TokensOf(w) : token'[j] # None =>
             token[j] # None /\ token'[j].grant = token[j].grant
    BY <2>1, RevokeOneTyped
  <2>5. /\ call' \in [TabsOf(w) -> Session(w)!Call \cup {None}]
        /\ \A u \in TabsOf(w) : Claims(call'[u]) => Honest(call'[u].grant, version)
    BY <2>1, <2>2, <2>3, GoesTyped DEF Granted, Claims
  <2>6. UNCHANGED <<version, active, factor, mfaOn, ticket, cookie, access,
                    ends, secrets, overrun, lost>>
    BY <1>11 DEF Session!RefreshGranted, Session!account, Session!history
  <2> QED
    BY <2>4, <2>5, <2>6 DEF Session!TypeOK, Granted, Honest
<1>12. CASE Session(w)!Logout(t)
  <2> DEFINE k == cookie[BrowserOf[t]]
  <2>1. /\ k \in TokensOf(w)
        /\ token' = [token EXCEPT ![k] = Session(w)!RevokeRow(@, FALSE)]
        /\ Session(w)!Goes(t, [op |-> "leave", token |-> k])
    BY <1>12, <1>a DEF Session!Logout, Session!TypeOK
  <2>2. [op |-> "leave", token |-> k] \in Session(w)!Call
    BY <2>1 DEF Session!Call
  <2> HIDE DEF k
  <2>3. /\ token' \in [TokensOf(w) -> Session(w)!Row \cup {None}]
        /\ \A j \in TokensOf(w) : token'[j] # None =>
             token[j] # None /\ token'[j].grant = token[j].grant
    BY <2>1, RevokeOneTyped
  <2>4. /\ call' \in [TabsOf(w) -> Session(w)!Call \cup {None}]
        /\ \A u \in TabsOf(w) : Claims(call'[u]) => Honest(call'[u].grant, version)
    BY <2>1, <2>2, GoesTyped DEF Granted, Claims
  <2>5. UNCHANGED <<version, active, factor, mfaOn, ticket, cookie, access,
                    ends, secrets, overrun, lost>>
    BY <1>12 DEF Session!Logout, Session!account, Session!history
  <2> QED
    BY <2>3, <2>4, <2>5 DEF Session!TypeOK, Granted, Honest
<1>13. CASE Session(w)!LogoutAnswered(t)
  <2>1. /\ cookie' \in [Browsers -> TokensOf(w) \cup {None}]
        /\ access' \in [TabsOf(w) -> Session(w)!Grant \cup {None}]
        /\ \A u \in TabsOf(w) : access'[u] = None \/ access'[u] = access[u]
    BY <1>13, <1>a DEF Session!LogoutAnswered, Session!TypeOK
  <2>2. /\ call' \in [TabsOf(w) -> Session(w)!Call \cup {None}]
        /\ \A u \in TabsOf(w) : Claims(call'[u]) => Honest(call'[u].grant, version)
    BY <1>13, GoesTyped DEF Session!LogoutAnswered, Granted, Claims
  <2>3. UNCHANGED <<version, active, factor, mfaOn, token, ticket, ends, secrets, overrun, lost>>
    BY <1>13 DEF Session!LogoutAnswered, Session!account, Session!history
  <2> QED
    BY <2>1, <2>2, <2>3 DEF Session!TypeOK, Granted, Honest
<1>14. CASE Session(w)!PasswordChanges(t)
  <2>1. /\ call' \in [TabsOf(w) -> Session(w)!Call \cup {None}]
        /\ \A u \in TabsOf(w) : call'[u] = None \/ call'[u] = call[u]
    BY <1>14, GoesTyped DEF Session!PasswordChanges
  <2>2. Session(w)!EndsSessions /\ Session(w)!RevokeAll
    BY <1>14 DEF Session!PasswordChanges
  <2> QED
    BY <1>14, <2>1, <2>2, EndsAll, StillHonest, RevokedHonest
    DEF Session!PasswordChanges, Session!TypeOK, Granted, Honest, Claims
<1>15. CASE Session(w)!ResetPassword(t)
  <2> DEFINE g == [Session(w)!NewGrant(FALSE) EXCEPT !.ver = version', !.era = ends']
  <2>1. /\ Session(w)!EndsSessions /\ Session(w)!RevokeAll
        /\ Session(w)!Goes(t, [op |-> "issue", grant |-> g])
        /\ UNCHANGED <<active, factor, mfaOn, ticket, cookie, access, secrets, overrun, lost>>
    BY <1>15 DEF Session!ResetPassword
  <2>2. g \in Session(w)!Grant /\ g.era = version' /\ g.ver = version'
    BY <1>b, <2>1, EndsAll DEF Session!Grant
  <2> HIDE DEF g
  <2>3. [op |-> "issue", grant |-> g] \in Session(w)!Call
    BY <2>2 DEF Session!Call
  <2>4. /\ call' \in [TabsOf(w) -> Session(w)!Call \cup {None}]
        /\ \A u \in TabsOf(w) : call'[u] = [op |-> "issue", grant |-> g] \/ call'[u] = call[u]
    BY <2>1, <2>3, GoesTyped
  <2>5. \A u \in TabsOf(w) : Claims(call'[u]) => Honest(call'[u].grant, version')
    BY <2>1, <2>2, <2>4, EndsAll, StillHonest DEF Honest
  <2> QED
    BY <2>1, <2>4, <2>5, EndsAll, StillHonest, RevokedHonest
    DEF Session!TypeOK, Granted, Honest
<1>16. CASE Session(w)!SetupWrites(t) \/ Session(w)!EnableWrites(t)
  <2>1. Session(w)!Goes(t, None)
    BY <1>16 DEF Session!SetupWrites, Session!EnableWrites
  <2>2. /\ call' \in [TabsOf(w) -> Session(w)!Call \cup {None}]
        /\ \A u \in TabsOf(w) : Claims(call'[u]) => Honest(call'[u].grant, version)
    <3>1. \A u \in TabsOf(w) : call'[u] = None \/ call'[u] = call[u]
      BY <2>1, GoesTyped
    <3>2. version' = version
      BY <1>16 DEF Session!SetupWrites, Session!EnableWrites
    <3> QED BY <2>1, <3>1, <3>2, GoesTyped DEF Granted, Claims
  <2>3. UNCHANGED <<version, active, token, ticket, cookie, access, ends, lost>>
    BY <1>16
    DEF Session!SetupWrites, Session!EnableWrites, Session!account, Session!history
  <2>4. secrets' \in Nat /\ factor' \in Nat /\ mfaOn' \in BOOLEAN /\ overrun' \in BOOLEAN
    <3>1. /\ secrets \in Nat /\ factor \in Nat
            /\ mfaOn \in BOOLEAN /\ overrun \in BOOLEAN
      BY DEF Session!TypeOK
    <3>2. CASE Session(w)!SetupWrites(t)
      <4>1. secrets' = secrets + 1 /\ factor' = secrets'
        BY <3>2 DEF Session!SetupWrites
      <4>2. mfaOn' \in BOOLEAN /\ overrun' \in BOOLEAN
        BY <3>2 DEF Session!SetupWrites
      <4>3. secrets' \in Nat /\ factor' \in Nat
        BY <3>1, <4>1
      <4> QED BY <4>2, <4>3
    <3>3. CASE Session(w)!EnableWrites(t)
      BY <3>1, <3>3 DEF Session!EnableWrites, Session!history
    <3> QED BY <1>16, <3>2, <3>3
  <2> QED
    BY <2>2, <2>3, <2>4 DEF Session!TypeOK, Granted, Honest
<1>17. CASE Session(w)!Disable(t)
  <2>1. Session(w)!EndsSessions
    BY <1>17 DEF Session!Disable
  <2> QED
    BY <1>17, <2>1, EndsAll, StillHonest
    DEF Session!Disable, Session!TypeOK, Granted, Honest, Claims
<1> QED
  BY <1>1, <1>2, <1>3, <1>4, <1>5, <1>6, <1>7, <1>8, <1>9, <1>10, <1>11, <1>12, <1>13,
     <1>14, <1>15, <1>16, <1>17
  DEF Session!TabStep

\* What happens outside the tabs: time, and what administrators do.
LEMMA GrantedElsewhere ==
  ASSUME NEW w \in SessionLooks, GrantedInv(w),
         \/ \E k \in TokensOf(w) : Session(w)!GraceEnds(k)
         \/ Session(w)!CleanupRefreshTokens \/ Session(w)!InviteAgain
         \/ Session(w)!UpdateUser \/ Session(w)!UpdateTeamMember
  PROVE  GrantedInv(w)'
<1> USE DEF GrantedInv
<1>1. CASE (\E k \in TokensOf(w) : Session(w)!GraceEnds(k)) \/ Session(w)!CleanupRefreshTokens
  <2>1. PICK k \in TokensOf(w), state \in {"old", "deleted"} :
          token[k] # None /\ token' = [token EXCEPT ![k].state = state]
    BY <1>1 DEF Session!GraceEnds, Session!CleanupRefreshTokens
  <2>2. UNCHANGED <<version, active, factor, mfaOn, ticket, cookie, access, call,
                    ends, secrets, overrun, lost>>
    BY <1>1
    DEF Session!GraceEnds, Session!CleanupRefreshTokens, Session!account, Session!history
  <2> DEFINE r == [token[k] EXCEPT !.state = state]
  <2>3. token[k] \in Session(w)!Row
    BY <2>1 DEF Session!TypeOK
  <2>4. r \in Session(w)!Row /\ r.grant = token[k].grant
    BY <2>3 DEF Session!Row
  <2>5. token' = [token EXCEPT ![k] = r]
    BY <2>1
  <2> HIDE DEF r
  <2> QED
    BY <2>1, <2>2, <2>4, <2>5 DEF Session!TypeOK, Granted, Honest
<1>2. CASE Session(w)!InviteAgain
  BY <1>2 DEF Session!InviteAgain, Session!history, Session!TypeOK, Granted, Honest
<1>3. CASE Session(w)!UpdateUser \/ Session(w)!UpdateTeamMember
  <2>1. /\ active' \in BOOLEAN
        /\ UNCHANGED <<factor, mfaOn, ticket, cookie, access, call, secrets, overrun, lost>>
    BY <1>3 DEF Session!UpdateUser, Session!UpdateTeamMember
  <2>2. CASE Session(w)!EndsSessions /\ Session(w)!RevokeAll
    BY <2>1, <2>2, EndsAll, StillHonest, RevokedHonest
    DEF Session!TypeOK, Granted, Honest, Claims
  <2>3. CASE UNCHANGED <<version, ends, token>>
    BY <2>1, <2>3 DEF Session!TypeOK, Granted, Honest
  <2> QED
    BY <1>3, <2>2, <2>3 DEF Session!UpdateUser, Session!UpdateTeamMember
<1> QED BY <1>1, <1>2, <1>3

LEMMA GrantedStep ==
  ASSUME NEW w \in SessionLooks, GrantedInv(w), Session(w)!Next
  PROVE  GrantedInv(w)'
  BY GrantedTab, GrantedElsewhere DEF Session!Next

LEMMA GrantedIdle ==
  ASSUME NEW w \in SessionLooks, GrantedInv(w), UNCHANGED sessions
  PROVE  GrantedInv(w)'
  BY DEF GrantedInv, Granted, Session!TypeOK, sessions

-----------------------------------------------------------------------------
\* A grant that passed the second factor names the one the account has, and the
\* factor is on, while the grant's version is the account's.
Stands(g, v, on, f) == g.mfa /\ g.ver = v => on /\ g.factor = f
Verified(w) ==
  overrun \/ \A t \in TabsOf(w) :
    /\ access[t] # None => Stands(access[t], version, mfaOn, factor)
    /\ Claims(call[t]) => Stands(call[t].grant, version, mfaOn, factor)

\* Where the claim of a call comes from: the call before, the tab's access token,
\* a row or a sign-in without a second factor, or a code that was right.
LEMMA WhenceClaims ==
  ASSUME NEW w \in SessionLooks, GrantedInv(w), NEW t \in TabsOf(w), Session(w)!TabStep(t),
         NEW u \in TabsOf(w), Claims(call'[u])
  PROVE  \/ Claims(call[u]) /\ call'[u].grant = call[u].grant
         \/ access[u] # None /\ call'[u].grant = access[u]
         \/ ~call'[u].grant.mfa
         \/ /\ u = t /\ Session(w)!Challenge(t)
            /\ call'[u].grant = Session(w)!NewGrant(TRUE)
            /\ overrun' = (overrun \/ ~mfaOn)
<1>1. call \in [TabsOf(w) -> Session(w)!Call \cup {None}]
  BY DEF GrantedInv, Session!TypeOK
<1>3. CASE Session(w)!Login(t)
  <2>1. Session(w)!Goes(t, [op |-> IF mfaOn THEN "ticket" ELSE "issue",
                           grant |-> Session(w)!NewGrant(FALSE)])
    BY <1>3 DEF Session!Login
  <2>2. ~Session(w)!NewGrant(FALSE).mfa
    BY DEF Session!NewGrant
  <2>3. call'[u] = call[u] \/ (u = t /\ call'[u].grant = Session(w)!NewGrant(FALSE))
    BY <1>1, <2>1 DEF Session!Goes
  <2> QED BY <2>2, <2>3
<1>4. CASE Session(w)!Challenge(t)
  <2>1. CASE UNCHANGED call
    BY <2>1
  <2>2. CASE /\ Session(w)!Goes(t, [op |-> "issue", grant |-> Session(w)!NewGrant(TRUE)])
             /\ overrun' = (overrun \/ ~mfaOn)
    <3>1. call'[u] = call[u] \/ (u = t /\ call'[u].grant = Session(w)!NewGrant(TRUE))
      BY <1>1, <2>2 DEF Session!Goes
    <3> QED BY <1>4, <2>2, <3>1
  <2> QED BY <1>4, <2>1, <2>2 DEF Session!Challenge
<1>5. CASE Session(w)!Issue(t)
  <2>1. PICK k : Session(w)!Goes(t, [op |-> "answer", token |-> k, grant |-> call[t].grant])
    BY <1>5 DEF Session!Issue
  <2>2. Claims(call[t])
    BY <1>5 DEF Session!Issue, Claims
  <2>3. call'[u] = call[u] \/ (u = t /\ call'[u].grant = call[t].grant)
    BY <1>1, <2>1 DEF Session!Goes
  <2> QED BY <2>2, <2>3
<1>6. CASE Session(w)!RefreshGranted(t)
  <2>1. call[t].token \in TokensOf(w) /\ token[call[t].token] # None
    BY <1>6, CallFields
    DEF Session!RefreshGranted, Session!Presents, Session!Good, Carries, GrantedInv, Session!TypeOK
  <2>2. Session(w)!Goes(t, [op |-> "issue", grant |-> token[call[t].token].grant])
    BY <1>6 DEF Session!RefreshGranted, Session!Rotates
  <2>3. ~token[call[t].token].grant.mfa
    BY <2>1 DEF GrantedInv, Granted
  <2>4. call'[u] = call[u] \/ call'[u].grant = token[call[t].token].grant
    BY <1>1, <2>2 DEF Session!Goes
  <2> QED BY <2>3, <2>4
<1>7. CASE Session(w)!ResetPassword(t)
  <2> DEFINE g == [Session(w)!NewGrant(FALSE) EXCEPT !.ver = version', !.era = ends']
  <2>1. Session(w)!Goes(t, [op |-> "issue", grant |-> g])
    BY <1>7 DEF Session!ResetPassword
  <2>2. ~g.mfa
    BY DEF Session!NewGrant
  <2> HIDE DEF g
  <2>3. call'[u] = call[u] \/ call'[u].grant = g
    BY <1>1, <2>1 DEF Session!Goes
  <2> QED BY <2>2, <2>3
<1>8. CASE Session(w)!ChangePassword(t) \/ Session(w)!SetupReads(t) \/ Session(w)!EnableReads(t)
  <2>1. PICK op : Session(w)!Goes(t, [op |-> op, grant |-> access[t]])
    BY <1>8 DEF Session!ChangePassword, Session!SetupReads, Session!EnableReads
  <2>2. access[t] # None
    BY <1>8 DEF Session!ChangePassword, Session!SetupReads, Session!EnableReads, Session!Accepted
  <2>3. call'[u] = call[u] \/ (u = t /\ call'[u].grant = access[t])
    BY <1>1, <2>1 DEF Session!Goes
  <2> QED BY <2>2, <2>3
<1>9. CASE Session(w)!Refresh(t) \/ Session(w)!Logout(t)
  <2>1. PICK op \in {"refresh", "leave"} :
          Session(w)!Goes(t, [op |-> op, token |-> cookie[BrowserOf[t]]])
    BY <1>9 DEF Session!Refresh, Session!Logout
  <2>2. call'[u] = call[u] \/ call'[u].op \in {"refresh", "leave"}
    BY <1>1, <2>1 DEF Session!Goes
  <2> QED BY <2>2 DEF Claims
<1>10. CASE UNCHANGED call \/ Session(w)!Goes(t, None)
  <2>1. call'[u] = call[u] \/ call'[u] = None
    BY <1>1, <1>10 DEF Session!Goes
  <2> QED BY <2>1 DEF Claims
<1> QED
  BY <1>3, <1>4, <1>5, <1>6, <1>7, <1>8, <1>9, <1>10
  DEF Session!TabStep, Session!IssueTicket, Session!Answer, Session!Lose,
      Session!ReuseDetected, Session!RefreshRefused, Session!LogoutAnswered,
      Session!PasswordChanges, Session!SetupWrites, Session!EnableWrites, Session!Disable

\* And of an access token: the tab had it, or was answered with it.
LEMMA WhenceAccess ==
  ASSUME NEW w \in SessionLooks, GrantedInv(w), NEW t \in TabsOf(w), Session(w)!TabStep(t),
         NEW u \in TabsOf(w), access'[u] # None
  PROVE  \/ access[u] # None /\ access'[u] = access[u]
         \/ Claims(call[u]) /\ access'[u] = call[u].grant
<1>1. access \in [TabsOf(w) -> Session(w)!Grant \cup {None}]
  BY DEF GrantedInv, Session!TypeOK
<1>2. CASE Session(w)!Answer(t)
  BY <1>1, <1>2 DEF Session!Answer, Claims
<1>3. CASE access' \in {access, [access EXCEPT ![t] = None]}
  BY <1>1, <1>3
<1> QED
  BY <1>2, <1>3
  DEF Session!TabStep, Session!Login, Session!IssueTicket, Session!Challenge, Session!Issue,
      Session!Lose, Session!Refresh, Session!ReuseDetected, Session!RefreshRefused,
      Session!RefreshGranted, Session!Logout, Session!LogoutAnswered, Session!ChangePassword,
      Session!PasswordChanges, Session!ResetPassword, Session!SetupReads, Session!SetupWrites,
      Session!EnableReads, Session!EnableWrites, Session!Disable

\* What the account goes through leaves a grant standing, or says so in overrun.
LEMMA AccountMoves ==
  ASSUME NEW w \in SessionLooks, GrantedInv(w), Session(w)!Next, ~overrun',
         NEW g \in Session(w)!Grant, Honest(g, version), Stands(g, version, mfaOn, factor)
  PROVE  Stands(g, version', mfaOn', factor')
<1>1. CASE Session(w)!EndsSessions
  BY <1>1, EndsAll DEF Stands
<1>2. CASE UNCHANGED <<version, factor, mfaOn>>
  BY <1>2
<1>3. CASE \E t \in TabsOf(w) : Session(w)!SetupWrites(t)
  <2>1. version' = version /\ overrun' = (overrun \/ mfaOn)
    BY <1>3 DEF Session!SetupWrites
  <2> QED BY <2>1 DEF Stands
<1>4. CASE \E t \in TabsOf(w) : Session(w)!EnableWrites(t)
  <2>1. version' = version /\ factor' = factor /\ mfaOn' = TRUE
    BY <1>4 DEF Session!EnableWrites
  <2> QED BY <2>1 DEF Stands
<1> QED
  BY <1>1, <1>2, <1>3, <1>4
  DEF Session!Next, Session!TabStep, Session!Login, Session!IssueTicket, Session!Challenge,
      Session!Issue, Session!Answer, Session!Lose, Session!Refresh, Session!ReuseDetected,
      Session!RefreshRefused, Session!RefreshGranted, Session!Logout, Session!LogoutAnswered,
      Session!ChangePassword, Session!PasswordChanges, Session!ResetPassword,
      Session!SetupReads, Session!EnableReads, Session!Disable, Session!GraceEnds,
      Session!CleanupRefreshTokens, Session!InviteAgain, Session!UpdateUser,
      Session!UpdateTeamMember, Session!account

LEMMA OverrunStays ==
  ASSUME NEW w \in SessionLooks, Session(w)!Next, overrun
  PROVE  overrun'
<1>1. CASE UNCHANGED overrun
  BY <1>1
<1>2. CASE \E t \in TabsOf(w) : Session(w)!SetupWrites(t)
  BY <1>2 DEF Session!SetupWrites
<1>3. CASE \E t \in TabsOf(w) : Session(w)!Challenge(t)
  BY <1>3 DEF Session!Challenge
<1> QED
  BY <1>1, <1>2, <1>3
  DEF Session!Next, Session!TabStep, Session!Login, Session!IssueTicket,
      Session!Issue, Session!Answer, Session!Lose, Session!Refresh, Session!ReuseDetected,
      Session!RefreshRefused, Session!RefreshGranted, Session!Logout, Session!LogoutAnswered,
      Session!ChangePassword, Session!PasswordChanges, Session!ResetPassword,
      Session!SetupReads, Session!EnableReads, Session!EnableWrites, Session!Disable,
      Session!GraceEnds, Session!CleanupRefreshTokens, Session!InviteAgain,
      Session!UpdateUser, Session!UpdateTeamMember, Session!history

LEMMA VerifiedStep ==
  ASSUME NEW w \in SessionLooks, GrantedInv(w), Verified(w), Session(w)!Next
  PROVE  Verified(w)'
<1> SUFFICES ASSUME ~overrun' PROVE Verified(w)'
  BY DEF Verified
<1>1. ~overrun
  BY OverrunStays
<1>2. \A g \in Session(w)!Grant : Honest(g, version) /\ Stands(g, version, mfaOn, factor) =>
        Stands(g, version', mfaOn', factor')
  BY AccountMoves
<1>3. \A u \in TabsOf(w) :
        /\ access[u] # None => Stands(access[u], version', mfaOn', factor')
        /\ Claims(call[u]) => Stands(call[u].grant, version', mfaOn', factor')
  <2>1. \A u \in TabsOf(w) : Claims(call[u]) => call[u].grant \in Session(w)!Grant
    BY CallFields DEF GrantedInv, Session!TypeOK, Claims
  <2> QED BY <1>1, <1>2, <2>1 DEF GrantedInv, Granted, Session!TypeOK, Verified
<1>4. ASSUME NEW t \in TabsOf(w), Session(w)!TabStep(t)
      PROVE  Verified(w)'
  <2>1. ASSUME NEW u \in TabsOf(w), access'[u] # None
        PROVE  Stands(access'[u], version', mfaOn', factor')
    BY <1>3, <1>4, <2>1, WhenceAccess
  <2>2. ASSUME NEW u \in TabsOf(w), Claims(call'[u])
        PROVE  Stands(call'[u].grant, version', mfaOn', factor')
    <3>1. CASE Claims(call[u]) /\ call'[u].grant = call[u].grant
      BY <1>3, <3>1
    <3>2. CASE access[u] # None /\ call'[u].grant = access[u]
      BY <1>3, <3>2
    <3>3. CASE ~call'[u].grant.mfa
      BY <3>3 DEF Stands
    <3>4. CASE /\ Session(w)!Challenge(t) /\ call'[u].grant = Session(w)!NewGrant(TRUE)
               /\ overrun' = (overrun \/ ~mfaOn)
      <4>1. mfaOn
        BY <3>4 DEF GrantedInv, Session!TypeOK
      <4>2. UNCHANGED <<version, mfaOn, factor>>
        BY <3>4 DEF Session!Challenge, Session!account
      <4>3. Session(w)!NewGrant(TRUE).factor = factor
        BY DEF Session!NewGrant
      <4> QED BY <3>4, <4>1, <4>2, <4>3 DEF Stands
    <3> QED BY <1>4, <2>2, <3>1, <3>2, <3>3, <3>4, WhenceClaims
  <2> QED BY <2>1, <2>2 DEF Verified
<1>5. CASE UNCHANGED <<access, call>>
  BY <1>3, <1>5 DEF Verified, Claims
<1> QED
  BY <1>4, <1>5
  DEF Session!Next, Session!GraceEnds, Session!CleanupRefreshTokens, Session!InviteAgain,
      Session!UpdateUser, Session!UpdateTeamMember

-----------------------------------------------------------------------------
\* Whose a token is. A cookie holds a token that exists and no other browser's cookie
\* holds; a request that presents one presents its own browser's; an answer brings one
\* that nobody has and that was not rotated; and a rotated cookie is about to be
\* replaced.
Holds(c, k) == Carries(c) /\ c.token = k
Owned(w) ==
  /\ \A b \in Browsers : cookie[b] # None => token[cookie[b]] # None
  /\ \A b \in Browsers, d \in Browsers : cookie[b] # None /\ cookie[b] = cookie[d] => b = d
  /\ \A t \in TabsOf(w) : Carries(call[t]) => token[call[t].token] # None
  /\ \A t \in TabsOf(w), b \in Browsers :
       Carries(call[t]) /\ call[t].op # "answer" /\ cookie[b] = call[t].token =>
         b = BrowserOf[t]
  /\ \A t \in TabsOf(w) : call[t] # None /\ call[t].op = "answer" =>
       /\ ~token[call[t].token].rotated
       /\ \A b \in Browsers : cookie[b] # call[t].token
       /\ \A u \in TabsOf(w) : u # t => ~Holds(call[u], call[t].token)
Fresh(w) ==
  \A b \in Browsers \ lost :
    cookie[b] # None /\ token[cookie[b]].rotated =>
      \E t \in TabsOf(w) : BrowserOf[t] = b /\ Signs(call[t])

\* A token once issued keeps its row, and only a refresh that presents it rotates it.
LEMMA TokenMoves ==
  ASSUME NEW w \in SessionLooks, GrantedInv(w), Session(w)!Next,
         NEW k \in TokensOf(w), token[k] # None
  PROVE  /\ token'[k] # None
         /\ \/ token'[k].rotated => token[k].rotated
            \/ \E t \in TabsOf(w) : Session(w)!RefreshGranted(t) /\ call[t].token = k
<1>1. /\ token \in [TokensOf(w) -> Session(w)!Row \cup {None}]
      /\ token[k] \in Session(w)!Row
  BY DEF GrantedInv, Session!TypeOK
<1>2. CASE UNCHANGED token
  BY <1>2
<1>3. CASE Session(w)!RevokeAll
  BY <1>3, RevokeAllTyped DEF GrantedInv
<1>4. ASSUME NEW t \in TabsOf(w), Session(w)!Issue(t)
      PROVE  token'[k] = token[k]
  <2>1. PICK j, r : j \in TokensOf(w) /\ token[j] = None /\ token' = [token EXCEPT ![j] = r]
    BY <1>4 DEF Session!Issue
  <2> QED BY <1>1, <2>1
<1>5. ASSUME NEW j \in TokensOf(w), NEW rotation \in BOOLEAN,
             token' = [token EXCEPT ![j] = Session(w)!RevokeRow(@, rotation)]
      PROVE  /\ token'[k] # None
             /\ token'[k].rotated => token[k].rotated \/ (rotation /\ j = k)
  BY <1>5, RevokeOneTyped
<1>6. ASSUME NEW t \in TabsOf(w), Session(w)!RefreshRefused(t) \/ Session(w)!Logout(t)
      PROVE  /\ token'[k] # None
             /\ token'[k].rotated => token[k].rotated
  <2>1. CASE UNCHANGED token
    BY <2>1
  <2>2. CASE \E j \in TokensOf(w) : token' = [token EXCEPT ![j] = Session(w)!RevokeRow(@, FALSE)]
    BY <1>5, <2>2
  <2>3. Session(w)!Presents(t) => call[t].token \in TokensOf(w)
    BY CallFields DEF Session!Presents, Carries, GrantedInv, Session!TypeOK
  <2>4. cookie[BrowserOf[t]] # None => cookie[BrowserOf[t]] \in TokensOf(w)
    BY BrowsersAssumption DEF GrantedInv, Session!TypeOK, TabsOf
  <2> QED
    BY <1>6, <2>1, <2>2, <2>3, <2>4 DEF Session!RefreshRefused, Session!Logout
<1>7. ASSUME NEW t \in TabsOf(w), Session(w)!RefreshGranted(t)
      PROVE  /\ token'[k] # None
             /\ token'[k].rotated => token[k].rotated \/ call[t].token = k
  <2>1. call[t].token \in TokensOf(w)
    BY <1>7, CallFields
    DEF Session!RefreshGranted, Session!Presents, Carries, GrantedInv, Session!TypeOK
  <2>2. token' = [token EXCEPT ![call[t].token] = Session(w)!RevokeRow(@, TRUE)]
    BY <1>7 DEF Session!RefreshGranted, Session!Rotates
  <2> QED BY <1>5, <2>1, <2>2
<1>8. ASSUME NEW j \in TokensOf(w), NEW state \in {"old", "deleted"},
             token' = [token EXCEPT ![j].state = state], token[j] # None
      PROVE  token'[k] # None /\ token'[k].rotated = token[k].rotated
  <2> DEFINE r == [token[j] EXCEPT !.state = state]
  <2>1. token[j] \in Session(w)!Row
    BY <1>1, <1>8
  <2>2. token' = [token EXCEPT ![j] = r]
    BY <1>8
  <2>3. r.rotated = token[j].rotated /\ r \in Session(w)!Row
    BY <2>1 DEF Session!Row
  <2> HIDE DEF r
  <2> QED BY <1>1, <2>2, <2>3, SessionNone
<1>9. CASE \E t \in TabsOf(w) : Session(w)!TabStep(t)
  BY <1>2, <1>3, <1>4, <1>6, <1>7, <1>9
  DEF Session!TabStep, Session!Login, Session!IssueTicket, Session!Challenge, Session!Answer,
      Session!Lose, Session!Refresh, Session!ReuseDetected, Session!LogoutAnswered,
      Session!ChangePassword, Session!PasswordChanges, Session!ResetPassword,
      Session!SetupReads, Session!SetupWrites, Session!EnableReads, Session!EnableWrites,
      Session!Disable
<1>10. CASE (\E j \in TokensOf(w) : Session(w)!GraceEnds(j)) \/ Session(w)!CleanupRefreshTokens
  BY <1>8, <1>10 DEF Session!GraceEnds, Session!CleanupRefreshTokens
<1> QED
  BY <1>2, <1>3, <1>9, <1>10
  DEF Session!Next, Session!InviteAgain, Session!UpdateUser, Session!UpdateTeamMember

\* A step that gives no tab a token, and no browser one, takes nobody's.
LEMMA Released ==
  ASSUME NEW w \in SessionLooks, GrantedInv(w), Owned(w), Session(w)!Next,
         \A b \in Browsers : cookie'[b] \in {cookie[b], None},
         \A t \in TabsOf(w) : call'[t] = call[t] \/ ~Carries(call'[t])
  PROVE  Owned(w)'
<1>1. \A t \in TabsOf(w) : Carries(call[t]) => call[t].token \in TokensOf(w)
  BY CallFields DEF GrantedInv, Session!TypeOK, Carries
<1>2. \A b \in Browsers : cookie[b] # None => cookie[b] \in TokensOf(w)
  BY DEF GrantedInv, Session!TypeOK
<1>3. \A k \in TokensOf(w) : token[k] # None => token'[k] # None
  BY TokenMoves
<1>4. \A b \in Browsers : cookie'[b] # None => token'[cookie'[b]] # None
  BY <1>2, <1>3 DEF Owned
<1>5. \A b \in Browsers, d \in Browsers :
        cookie'[b] # None /\ cookie'[b] = cookie'[d] => b = d
  BY DEF Owned
<1>6. \A t \in TabsOf(w) : Carries(call'[t]) => token'[call'[t].token] # None
  BY <1>1, <1>3 DEF Owned
<1>7. \A t \in TabsOf(w), b \in Browsers :
        Carries(call'[t]) /\ call'[t].op # "answer" /\ cookie'[b] = call'[t].token =>
          b = BrowserOf[t]
  BY <1>1, SessionNone DEF Owned
<1>8. ASSUME NEW t \in TabsOf(w), call'[t] # None, call'[t].op = "answer"
      PROVE  /\ ~token'[call'[t].token].rotated
             /\ \A b \in Browsers : cookie'[b] # call'[t].token
             /\ \A u \in TabsOf(w) : u # t => ~Holds(call'[u], call'[t].token)
  <2>1. call'[t] = call[t] /\ Carries(call[t])
    BY <1>8 DEF Carries
  <2>2. /\ call[t].token \in TokensOf(w)
        /\ token[call[t].token] # None
        /\ ~token[call[t].token].rotated
        /\ \A b \in Browsers : cookie[b] # call[t].token
        /\ \A u \in TabsOf(w) : u # t => ~Holds(call[u], call[t].token)
    BY <1>1, <1>8, <2>1 DEF Owned
  <2>3. \A u \in TabsOf(w) : Session(w)!RefreshGranted(u) => call[u].token # call[t].token
    BY <1>8, <2>1, <2>2 DEF Session!RefreshGranted, Session!Presents, Holds, Carries
  <2>4. ~token'[call[t].token].rotated
    BY <2>2, <2>3, TokenMoves
  <2> QED BY <1>1, <2>1, <2>2, <2>4, SessionNone DEF Holds
<1> QED BY <1>4, <1>5, <1>6, <1>7, <1>8 DEF Owned

\* A tab presents the cookie of its own browser.
LEMMA Presented ==
  ASSUME NEW w \in SessionLooks, GrantedInv(w), Owned(w), Session(w)!Next,
         NEW t \in TabsOf(w), Session(w)!Refresh(t) \/ Session(w)!Logout(t)
  PROVE  Owned(w)'
<1> DEFINE k == cookie[BrowserOf[t]]
<1>1. PICK op \in {"refresh", "leave"} : Session(w)!Goes(t, [op |-> op, token |-> k])
  BY DEF Session!Refresh, Session!Logout
<1>2. k # None /\ cookie' = cookie
  BY DEF Session!Refresh, Session!Logout
<1>3. BrowserOf[t] \in Browsers
  BY BrowsersAssumption DEF TabsOf
<1>4. k \in TokensOf(w) /\ token[k] # None
  BY <1>2, <1>3 DEF GrantedInv, Session!TypeOK, Owned
<1> HIDE DEF k
<1>5. \A u \in TabsOf(w) :
        call'[u] = IF u = t THEN [op |-> op, token |-> k] ELSE call[u]
  BY <1>1 DEF GrantedInv, Session!TypeOK, Session!Goes
<1>6. \A u \in TabsOf(w) : Carries(call[u]) => call[u].token \in TokensOf(w)
  BY CallFields DEF GrantedInv, Session!TypeOK, Carries
<1>7. \A b \in Browsers : cookie[b] # None => cookie[b] \in TokensOf(w)
  BY DEF GrantedInv, Session!TypeOK
<1>8. \A j \in TokensOf(w) : token[j] # None => token'[j] # None
  BY TokenMoves
<1>9. \A b \in Browsers : cookie'[b] # None => token'[cookie'[b]] # None
  BY <1>2, <1>7, <1>8 DEF Owned
<1>10. \A b \in Browsers, d \in Browsers :
        cookie'[b] # None /\ cookie'[b] = cookie'[d] => b = d
  BY <1>2 DEF Owned
<1>11. call'[t].token = k /\ call'[t].op = op
  BY <1>5
<1>12. \A u \in TabsOf(w) : Carries(call'[u]) => token'[call'[u].token] # None
  BY <1>4, <1>5, <1>6, <1>8, <1>11 DEF Owned
<1>13. \A u \in TabsOf(w), b \in Browsers :
        Carries(call'[u]) /\ call'[u].op # "answer" /\ cookie'[b] = call'[u].token =>
          b = BrowserOf[u]
  <2>1. \A b \in Browsers : cookie[b] = k => b = BrowserOf[t]
    BY <1>2, <1>3 DEF Owned, k
  <2> QED BY <1>2, <1>5, <1>11, <2>1 DEF Owned
<1>14. ASSUME NEW u \in TabsOf(w), call'[u] # None, call'[u].op = "answer"
      PROVE  /\ ~token'[call'[u].token].rotated
             /\ \A b \in Browsers : cookie'[b] # call'[u].token
             /\ \A v \in TabsOf(w) : v # u => ~Holds(call'[v], call'[u].token)
  <2>1. u # t /\ call'[u] = call[u] /\ Carries(call[u])
    BY <1>5, <1>11, <1>14 DEF Carries
  <2>2. /\ call[u].token \in TokensOf(w)
        /\ token[call[u].token] # None
        /\ ~token[call[u].token].rotated
        /\ \A b \in Browsers : cookie[b] # call[u].token
        /\ \A v \in TabsOf(w) : v # u => ~Holds(call[v], call[u].token)
    BY <1>6, <1>14, <2>1 DEF Owned
  <2>3. \A v \in TabsOf(w) : Session(w)!RefreshGranted(v) => call[v].token # call[u].token
    BY <1>14, <2>1, <2>2 DEF Session!RefreshGranted, Session!Presents, Holds, Carries
  <2>4. ~token'[call[u].token].rotated
    BY <2>2, <2>3, TokenMoves
  <2>5. k # call[u].token
    BY <1>3, <2>2 DEF k
  <2>6. \A v \in TabsOf(w) : v # u => ~Holds(call'[v], call[u].token)
    BY <1>5, <1>11, <2>2, <2>5 DEF Holds
  <2> QED BY <1>2, <2>1, <2>2, <2>4, <2>6
<1> QED BY <1>9, <1>10, <1>12, <1>13, <1>14 DEF Owned

\* A token just issued is nobody's yet.
LEMMA Issued ==
  ASSUME NEW w \in SessionLooks, GrantedInv(w), Owned(w), Session(w)!Next,
         NEW t \in TabsOf(w), Session(w)!Issue(t)
  PROVE  Owned(w)'
<1>1. PICK k \in TokensOf(w) :
        /\ token[k] = None
        /\ token' = [token EXCEPT ![k] = [grant |-> [call[t].grant EXCEPT !.mfa = FALSE],
                                          state |-> "live", rotated |-> FALSE]]
        /\ Session(w)!Goes(t, [op |-> "answer", token |-> k, grant |-> call[t].grant])
  BY DEF Session!Issue
<1>2. cookie' = cookie
  BY DEF Session!Issue
<1>3. \A u \in TabsOf(w) : u # t => call'[u] = call[u]
  BY <1>1 DEF GrantedInv, Session!TypeOK, Session!Goes
<1>4. call'[t] # None /\ call'[t].op = "answer" /\ call'[t].token = k
  <2>1. call'[t] = [op |-> "answer", token |-> k, grant |-> call[t].grant]
    BY <1>1 DEF GrantedInv, Session!TypeOK, Session!Goes
  <2>2. Claims(call[t])
    BY DEF Session!Issue, Claims
  <2>3. call'[t] \in Session(w)!Call
    BY <2>1, <2>2, CallFields DEF GrantedInv, Session!TypeOK, Session!Call, Claims
  <2> QED BY <2>1, <2>3, SessionNone
<1>5. \A j \in TokensOf(w) : j # k => token'[j] = token[j]
  BY <1>1 DEF GrantedInv, Session!TypeOK
<1>6. token'[k] # None /\ ~token'[k].rotated
  <2> DEFINE g == [call[t].grant EXCEPT !.mfa = FALSE]
  <2>1. token'[k] = [grant |-> g, state |-> "live", rotated |-> FALSE]
    BY <1>1 DEF GrantedInv, Session!TypeOK
  <2> HIDE DEF g
  <2>2. GrantedInv(w)'
    BY GrantedStep
  <2>3. ~token'[k].rotated
    BY <2>1
  <2>4. g \in Session(w)!Grant
    <3>1. Claims(call[t])
      BY DEF Session!Issue, Claims
    <3>2. call[t].grant \in Session(w)!Grant
      BY <3>1, CallFields DEF GrantedInv, Session!TypeOK, Claims
    <3> QED BY <3>2 DEF g, Session!Grant
  <2>5. token'[k] \in Session(w)!Row
    BY <2>1, <2>4 DEF Session!Row
  <2> QED BY <2>3, <2>5, SessionNone
<1>7. \A u \in TabsOf(w) : Carries(call[u]) => call[u].token \in TokensOf(w) /\ call[u].token # k
  BY <1>1, CallFields DEF GrantedInv, Session!TypeOK, Owned, Carries
<1>8. \A b \in Browsers : cookie[b] # None => cookie[b] \in TokensOf(w) /\ cookie[b] # k
  BY <1>1 DEF GrantedInv, Session!TypeOK, Owned
<1>9. k # None
  BY <1>1, SessionNone
<1>10. \A b \in Browsers : cookie'[b] # None => token'[cookie'[b]] # None
  BY <1>2, <1>5, <1>8 DEF Owned
<1>11. \A b \in Browsers, d \in Browsers :
         cookie'[b] # None /\ cookie'[b] = cookie'[d] => b = d
  BY <1>2 DEF Owned
<1>12. \A u \in TabsOf(w) : Carries(call'[u]) => token'[call'[u].token] # None
  BY <1>3, <1>4, <1>5, <1>6, <1>7 DEF Owned
<1>13. \A u \in TabsOf(w), b \in Browsers :
         Carries(call'[u]) /\ call'[u].op # "answer" /\ cookie'[b] = call'[u].token =>
           b = BrowserOf[u]
  BY <1>2, <1>3, <1>4 DEF Owned
<1>14. ASSUME NEW u \in TabsOf(w), call'[u] # None, call'[u].op = "answer"
       PROVE  /\ ~token'[call'[u].token].rotated
              /\ \A b \in Browsers : cookie'[b] # call'[u].token
              /\ \A v \in TabsOf(w) : v # u => ~Holds(call'[v], call'[u].token)
  <2>1. CASE u = t
    BY <1>2, <1>3, <1>4, <1>6, <1>7, <1>8, <1>9, <2>1 DEF Holds
  <2>2. CASE u # t
    BY <1>2, <1>3, <1>4, <1>5, <1>7, <1>14, <2>2 DEF Owned, Holds, Carries
  <2> QED BY <2>1, <2>2
<1> QED BY <1>10, <1>11, <1>12, <1>13, <1>14 DEF Owned

\* The browser an answer reaches has the token it brings.
LEMMA Answered ==
  ASSUME NEW w \in SessionLooks, GrantedInv(w), Owned(w), NEW t \in TabsOf(w),
         Session(w)!Answer(t)
  PROVE  Owned(w)'
<1> DEFINE k == call[t].token
<1>1. /\ Carries(call[t]) /\ call[t].op = "answer"
      /\ cookie' = [cookie EXCEPT ![BrowserOf[t]] = k]
      /\ token' = token
  BY DEF Session!Answer, Carries
<1>2. /\ k \in TokensOf(w) /\ token[k] # None /\ ~token[k].rotated
      /\ \A b \in Browsers : cookie[b] # k
      /\ \A u \in TabsOf(w) : u # t => ~Holds(call[u], k)
  BY <1>1, CallFields DEF GrantedInv, Session!TypeOK, Owned, Carries
<1>3. \A u \in TabsOf(w) : call'[u] = IF u = t THEN None ELSE call[u]
  BY DEF Session!Answer, Session!Goes, GrantedInv, Session!TypeOK
<1> HIDE DEF k
<1>4. \A b \in Browsers : cookie'[b] = IF b = BrowserOf[t] THEN k ELSE cookie[b]
  BY <1>1 DEF GrantedInv, Session!TypeOK
<1>5. \A b \in Browsers : cookie'[b] # None => token'[cookie'[b]] # None
  BY <1>1, <1>2, <1>4 DEF Owned
<1>6. \A b \in Browsers, d \in Browsers :
        cookie'[b] # None /\ cookie'[b] = cookie'[d] => b = d
  BY <1>2, <1>4 DEF Owned
<1>7. \A u \in TabsOf(w) : Carries(call'[u]) => token'[call'[u].token] # None
  BY <1>1, <1>3 DEF Owned, Carries
<1>8. \A u \in TabsOf(w), b \in Browsers :
        Carries(call'[u]) /\ call'[u].op # "answer" /\ cookie'[b] = call'[u].token =>
          b = BrowserOf[u]
  BY <1>2, <1>3, <1>4 DEF Owned, Carries, Holds
<1>9. ASSUME NEW u \in TabsOf(w), call'[u] # None, call'[u].op = "answer"
      PROVE  /\ ~token'[call'[u].token].rotated
             /\ \A b \in Browsers : cookie'[b] # call'[u].token
             /\ \A v \in TabsOf(w) : v # u => ~Holds(call'[v], call'[u].token)
  <2>1. u # t /\ call'[u] = call[u] /\ Carries(call[u])
    BY <1>3, <1>9 DEF Carries
  <2>2. k # call[u].token
    BY <1>2, <2>1 DEF Holds
  <2> QED BY <1>1, <1>3, <1>4, <1>9, <2>1, <2>2 DEF Owned, Holds, Carries
<1> QED BY <1>5, <1>6, <1>7, <1>8, <1>9 DEF Owned

LEMMA OwnedStep ==
  ASSUME NEW w \in SessionLooks, GrantedInv(w), Owned(w), Session(w)!Next
  PROVE  Owned(w)'
<1>1. /\ call \in [TabsOf(w) -> Session(w)!Call \cup {None}]
      /\ cookie \in [Browsers -> TokensOf(w) \cup {None}]
  BY DEF GrantedInv, Session!TypeOK
<1>2. ASSUME NEW t \in TabsOf(w), NEW c, ~Carries(c), Session(w)!Goes(t, c)
      PROVE  \A u \in TabsOf(w) : call'[u] = call[u] \/ ~Carries(call'[u])
  BY <1>1, <1>2 DEF Session!Goes
<1>3. ~Carries(None)
  BY DEF Carries
<1>4. ASSUME NEW t \in TabsOf(w), Session(w)!TabStep(t), ~Session(w)!Issue(t),
             ~Session(w)!Answer(t), ~Session(w)!Refresh(t), ~Session(w)!Logout(t)
      PROVE  /\ \A b \in Browsers : cookie'[b] \in {cookie[b], None}
             /\ \A u \in TabsOf(w) : call'[u] = call[u] \/ ~Carries(call'[u])
  <2>1. \A b \in Browsers : cookie'[b] \in {cookie[b], None}
    <3>1. cookie' = cookie \/ cookie' = [cookie EXCEPT ![BrowserOf[t]] = None]
      BY <1>4
      DEF Session!TabStep, Session!Login, Session!IssueTicket, Session!Challenge,
          Session!Lose, Session!ReuseDetected, Session!RefreshRefused,
          Session!RefreshGranted, Session!LogoutAnswered, Session!ChangePassword,
          Session!PasswordChanges, Session!ResetPassword, Session!SetupReads,
          Session!SetupWrites, Session!EnableReads, Session!EnableWrites, Session!Disable
    <3> QED BY <1>1, <3>1
  <2>2. CASE UNCHANGED call \/ Session(w)!Goes(t, None)
    BY <1>2, <1>3, <2>1, <2>2
  <2>3. CASE \E op \in {"ticket", "issue", "change", "setup", "enable"} : \E g :
               Session(w)!Goes(t, [op |-> op, grant |-> g])
    <3>1. PICK op \in {"ticket", "issue", "change", "setup", "enable"} : \E g :
            call' = [call EXCEPT ![t] = [op |-> op, grant |-> g]]
      BY <2>3 DEF Session!Goes
    <3>2. \A u \in TabsOf(w) : call'[u] = call[u] \/ call'[u].op = op
      BY <1>1, <3>1
    <3>3. \A u \in TabsOf(w) : call'[u] = call[u] \/ ~Carries(call'[u])
      BY <3>2 DEF Carries
    <3> QED BY <2>1, <3>3
  <2> QED
    BY <1>4, <2>1, <2>2, <2>3
    DEF Session!TabStep, Session!Login, Session!IssueTicket, Session!Challenge,
        Session!Lose, Session!ReuseDetected, Session!RefreshRefused,
        Session!RefreshGranted, Session!Rotates, Session!LogoutAnswered,
        Session!ChangePassword, Session!PasswordChanges, Session!ResetPassword,
        Session!SetupReads, Session!SetupWrites, Session!EnableReads,
        Session!EnableWrites, Session!Disable
<1>5. CASE UNCHANGED <<cookie, call>>
  BY <1>5, Released
<1> QED
  BY <1>4, <1>5, Released, Presented, Issued, Answered
  DEF Session!Next, Session!GraceEnds, Session!CleanupRefreshTokens, Session!InviteAgain,
      Session!UpdateUser, Session!UpdateTeamMember

\* A sign-in or a refresh under way stays so until it is answered or lost.
LEMMA SignsOn ==
  ASSUME NEW w \in SessionLooks, GrantedInv(w), NEW t \in TabsOf(w), Session(w)!TabStep(t),
         NEW u \in TabsOf(w), Signs(call[u])
  PROVE  \/ Signs(call'[u])
         \/ u = t /\ (Session(w)!Answer(t) \/ Session(w)!Lose(t))
<1>1. call \in [TabsOf(w) -> Session(w)!Call \cup {None}]
  BY DEF GrantedInv, Session!TypeOK
<1>2. CASE Session(w)!Issue(t)
  <2>1. PICK k \in TokensOf(w) :
          call' = [call EXCEPT ![t] = [op |-> "answer", token |-> k, grant |-> call[t].grant]]
    BY <1>2 DEF Session!Issue, Session!Goes
  <2>2. call[t].grant \in Session(w)!Grant
    <3>1. Claims(call[t])
      BY <1>2 DEF Session!Issue, Claims
    <3> QED BY <1>1, <3>1, CallFields DEF Claims
  <2> DEFINE c == [op |-> "answer", token |-> k, grant |-> call[t].grant]
  <2>3. c \in Session(w)!Call /\ c.op = "answer"
    BY <2>2 DEF Session!Call
  <2>4. call' = [call EXCEPT ![t] = c]
    BY <2>1
  <2> HIDE DEF c
  <2> QED BY <1>1, <2>3, <2>4, SessionNone DEF Signs
<1>3. CASE u # t \/ UNCHANGED call
  <2>1. call'[u] = call[u]
    BY <1>1, <1>3
    DEF Session!TabStep, Session!Login, Session!IssueTicket, Session!Challenge,
        Session!Issue, Session!Answer, Session!Lose, Session!Refresh,
        Session!ReuseDetected, Session!RefreshRefused, Session!RefreshGranted,
        Session!Rotates, Session!Logout, Session!LogoutAnswered, Session!ChangePassword,
        Session!PasswordChanges, Session!ResetPassword, Session!SetupReads,
        Session!SetupWrites, Session!EnableReads, Session!EnableWrites, Session!Disable,
        Session!Goes
  <2> QED BY <2>1
<1>4. CASE u = t /\ ~Session(w)!Issue(t)
  BY <1>4
  DEF Signs, Session!TabStep, Session!Login, Session!IssueTicket, Session!Challenge,
      Session!Refresh, Session!ReuseDetected, Session!RefreshRefused,
      Session!RefreshGranted, Session!Presents, Session!Logout, Session!LogoutAnswered,
      Session!ChangePassword, Session!PasswordChanges, Session!ResetPassword,
      Session!SetupReads, Session!SetupWrites, Session!EnableReads,
      Session!EnableWrites, Session!Disable
<1> QED BY <1>2, <1>3, <1>4

LEMMA FreshStep ==
  ASSUME NEW w \in SessionLooks, GrantedInv(w), Owned(w), Fresh(w), Session(w)!Next
  PROVE  Fresh(w)'
<1>1. /\ call \in [TabsOf(w) -> Session(w)!Call \cup {None}]
      /\ cookie \in [Browsers -> TokensOf(w) \cup {None}]
      /\ \A b \in Browsers : cookie[b] # None => cookie[b] \in TokensOf(w)
      /\ \A t \in TabsOf(w) : BrowserOf[t] \in Browsers
  BY BrowsersAssumption DEF GrantedInv, Session!TypeOK, TabsOf
<1>2. SUFFICES ASSUME NEW b \in Browsers \ lost', cookie'[b] # None,
                      token'[cookie'[b]].rotated
               PROVE  \E t \in TabsOf(w) : BrowserOf[t] = b /\ Signs(call'[t])
  BY DEF Fresh
<1>3. lost \subseteq lost'
  BY DEF Session!Next, Session!TabStep, Session!Login, Session!IssueTicket,
     Session!Challenge, Session!Issue, Session!Answer, Session!Lose, Session!Refresh,
     Session!ReuseDetected, Session!RefreshRefused, Session!RefreshGranted,
     Session!Logout, Session!LogoutAnswered, Session!ChangePassword,
     Session!PasswordChanges, Session!ResetPassword, Session!SetupReads,
     Session!SetupWrites, Session!EnableReads, Session!EnableWrites, Session!Disable,
     Session!GraceEnds, Session!CleanupRefreshTokens, Session!InviteAgain,
     Session!UpdateUser, Session!UpdateTeamMember, Session!history
\* The cookie of b is the one it had, unless it was just answered with a fresh one.
<1>4. ASSUME NEW t \in TabsOf(w), Session(w)!Answer(t), BrowserOf[t] = b
      PROVE  FALSE
  <2>1. cookie'[b] = call[t].token /\ token' = token
    BY <1>1, <1>4 DEF Session!Answer
  <2>2. ~token[call[t].token].rotated
    BY <1>4 DEF Session!Answer, Owned
  <2> QED BY <1>2, <2>1, <2>2
<1>5. cookie'[b] = cookie[b]
  <2>1. CASE \E t \in TabsOf(w) : Session(w)!Answer(t)
    BY <1>1, <1>4, <2>1 DEF Session!Answer
  <2>2. CASE \E t \in TabsOf(w) : Session(w)!LogoutAnswered(t)
    BY <1>1, <1>2, <2>2 DEF Session!LogoutAnswered
  <2>3. CASE cookie' = cookie
    BY <2>3
  <2> QED
    BY <2>1, <2>2, <2>3
    DEF Session!Next, Session!TabStep, Session!Login, Session!IssueTicket,
        Session!Challenge, Session!Issue, Session!Lose, Session!Refresh,
        Session!ReuseDetected, Session!RefreshRefused, Session!RefreshGranted,
        Session!Logout, Session!ChangePassword, Session!PasswordChanges,
        Session!ResetPassword, Session!SetupReads, Session!SetupWrites,
        Session!EnableReads, Session!EnableWrites, Session!Disable, Session!GraceEnds,
        Session!CleanupRefreshTokens, Session!InviteAgain, Session!UpdateUser,
        Session!UpdateTeamMember
<1>6. cookie[b] \in TokensOf(w) /\ token[cookie[b]] # None
  BY <1>1, <1>2, <1>5 DEF Owned
<1>7. CASE token[cookie[b]].rotated
  <2>1. PICK u \in TabsOf(w) : BrowserOf[u] = b /\ Signs(call[u])
    BY <1>2, <1>3, <1>5, <1>7 DEF Fresh
  <2>2. ASSUME NEW t \in TabsOf(w), Session(w)!TabStep(t)
        PROVE  Signs(call'[u])
    <3>1. CASE u = t /\ Session(w)!Answer(t)
      BY <1>4, <2>1, <3>1
    <3>2. CASE u = t /\ Session(w)!Lose(t)
      BY <1>2, <2>1, <3>2 DEF Session!Lose, Signs
    <3> QED BY <2>1, <2>2, <3>1, <3>2, SignsOn
  <2>3. CASE UNCHANGED call
    BY <2>1, <2>3
  <2> QED
    BY <2>1, <2>2, <2>3
    DEF Session!Next, Session!GraceEnds, Session!CleanupRefreshTokens,
        Session!InviteAgain, Session!UpdateUser, Session!UpdateTeamMember
<1>8. CASE ~token[cookie[b]].rotated
  <2>1. PICK t \in TabsOf(w) : Session(w)!RefreshGranted(t) /\ call[t].token = cookie[b]
    BY <1>2, <1>5, <1>6, <1>8, TokenMoves
  <2>2. BrowserOf[t] = b
    BY <2>1 DEF Session!RefreshGranted, Session!Presents, Carries, Owned
  <2> DEFINE c == [op |-> "issue", grant |-> token[call[t].token].grant]
  <2>3. Session(w)!Goes(t, c)
    BY <2>1 DEF Session!RefreshGranted, Session!Rotates
  <2>4. c \in Session(w)!Call /\ c.op = "issue"
    BY <1>6, <2>1 DEF Session!Call, GrantedInv, Session!TypeOK, Session!Row
  <2> HIDE DEF c
  <2>5. Signs(call'[t])
    BY <1>1, <2>3, <2>4, SessionNone DEF Session!Goes, Signs
  <2> QED BY <2>2, <2>5
<1> QED BY <1>7, <1>8

-----------------------------------------------------------------------------
\* The invariant: grants are honest, tokens are owned, cookies are fresh.
SessionInv == \A w \in SessionLooks : which = w =>
  GrantedInv(w) /\ Verified(w) /\ Owned(w) /\ Fresh(w)

LEMMA SessionInit == Init => SessionInv
<1> SUFFICES ASSUME Init, NEW w \in SessionLooks, which = w
             PROVE  GrantedInv(w) /\ Verified(w) /\ Owned(w) /\ Fresh(w)
  BY DEF SessionInv
<1>1. Session(w)!Init
  BY DEF Init
<1>2. Verified(w) /\ Owned(w) /\ Fresh(w)
  BY <1>1 DEF Session!Init, Verified, Owned, Fresh, Claims, Carries
<1> QED BY <1>1, <1>2, GrantedInit

LEMMA SessionStep == SessionInv /\ [Next]_all => SessionInv'
<1> SUFFICES ASSUME SessionInv, [Next]_all, NEW w \in SessionLooks, which' = w
             PROVE  (GrantedInv(w) /\ Verified(w) /\ Owned(w) /\ Fresh(w))'
  BY DEF SessionInv
<1>1. which = w
  BY DEF Next, all
<1>2. GrantedInv(w) /\ Verified(w) /\ Owned(w) /\ Fresh(w)
  BY <1>1 DEF SessionInv
<1>3. CASE Session(w)!Next
  BY <1>2, <1>3, GrantedStep, VerifiedStep, OwnedStep, FreshStep
<1>4. CASE UNCHANGED sessions
  <2>1. (Verified(w) /\ Owned(w) /\ Fresh(w))'
    BY <1>2, <1>4 DEF sessions, Verified, Owned, Fresh, Claims, Carries, Holds, Signs
  <2> QED BY <1>2, <1>4, <2>1, GrantedIdle
<1> QED BY <1>1, <1>3, <1>4 DEF Next, all

LEMMA SessionAlways == Spec => []SessionInv
  BY SessionInit, SessionStep, PTL DEF Spec

\* What ends an account's sessions ends them all, and a session that passes for
\* verified was verified by the factor the account has: requireApiAuth,
\* consumeRefreshToken and consumeMfaChallenge, for any number of tabs, tokens and ends.
THEOREM SessionsEndForGood == Spec => []SessionsEnd
<1>1. SessionInv => SessionsEnd
  <2> SUFFICES ASSUME SessionInv, NEW w \in SessionLooks, which = w
               PROVE  Session(w)!SessionsEnd /\ Session(w)!VerifiedStanding
    BY DEF SessionsEnd
  <2>1. GrantedInv(w) /\ Verified(w)
    BY DEF SessionInv
  <2>2. Session(w)!SessionsEnd
    BY <2>1
    DEF GrantedInv, Granted, Honest, Session!SessionsEnd, Session!Accepted, Session!Good
  <2>3. Session(w)!VerifiedStanding
    BY <2>1 DEF Verified, Stands, Session!VerifiedStanding, Session!Accepted
  <2> QED BY <2>2, <2>3
<1> QED BY <1>1, SessionAlways, PTL

\* Tabs of one browser that refresh, sign in and sign out at once, in any order of
\* their answers, leave it a cookie that works: api() and consumeRefreshToken.
THEOREM CookiesStayFresh == Spec => []CookieIsFresh
<1>1. SessionInv => CookieIsFresh
  <2> SUFFICES ASSUME SessionInv, NEW w \in SessionLooks, which = w
               PROVE  Session(w)!CookieIsFresh
    BY DEF CookieIsFresh
  <2>1. Fresh(w)
    BY DEF SessionInv
  <2> QED BY <2>1 DEF Fresh, Signs, Session!CookieIsFresh
<1> QED BY <1>1, SessionAlways, PTL

-----------------------------------------------------------------------------
(* Tenancy: the rows of a company.                                         *)

\* A request that has a connection.
Sent(r) == req[r].at \in {"lent", "begun", "works"}

\* What a request may leave behind, as the policies let it.
MayLeave(r, row) ==
  /\ row.by = r
  /\ \/ Isolation!Everybodys(r)
     \/ row.company # None /\ row.company = req[r].company
     \/ req[r].kind = "public" /\ row.table = "demo_requests"

\* A connection is lent to the request that has it; its settings are those of the
\* transaction, and what the transaction wrote is its request's to write.
Lent ==
  /\ \A r \in Pair : Sent(r) <=> req[r].on # None
  /\ \A r \in Pair : req[r].on # None => conn[req[r].on].lent = r
  /\ \A k \in Isolation!Conns : conn[k].lent # None => req[conn[k].lent].on = k
  /\ \A k \in Isolation!Conns : conn[k].lent = None => conn[k] = Isolation!Free
Untouched(k) ==
  conn[k].local = Isolation!Unset /\ conn[k].added = {} /\ conn[k].removed = {}
Scoped ==
  /\ \A k \in Isolation!Conns : conn[k].session = Isolation!Unset
  /\ \A r \in Pair : req[r].at \in {"lent", "begun"} =>
       Untouched(req[r].on)
  /\ \A r \in Pair : req[r].at = "works" =>
       conn[req[r].on].local = Isolation!Settings(r)
  /\ \A r \in Pair : req[r].kind = "public" => req[r].company = None
Written ==
  /\ \A r \in Pair : req[r].at = "works" =>
       /\ \A row \in conn[req[r].on].added : MayLeave(r, row)
       /\ \A row \in conn[req[r].on].removed : row.table # "audit_log"
  /\ Isolation!WritesItsOwn /\ Isolation!HistoryStays

TenancyInv == Isolation!TypeOK /\ Lent /\ Scoped /\ Written

LEMMA FreeTyped ==
  /\ Isolation!Unset \in Isolation!Settled
  /\ Isolation!Free \in Isolation!Slot /\ Isolation!Free.lent = None
BY DEF Isolation!Free, Isolation!Slot, Isolation!Settled, Isolation!Unset

LEMMA TenancyInit == Isolation!Init => TenancyInv
<1> SUFFICES ASSUME Isolation!Init PROVE TenancyInv
  OBVIOUS
<1> USE DEF Isolation!Init
<1>2. Isolation!TypeOK
  BY FreeTyped DEF Isolation!TypeOK, Isolation!Nobody, Isolation!Seed
<1>3. Lent
  BY FreeTyped DEF Lent, Sent, Isolation!Nobody
<1>4. Scoped
  BY DEF Scoped, Sent, Isolation!Nobody, Isolation!Free
<1>5. Written
  BY DEF Written, Isolation!Nobody, Isolation!WritesItsOwn, Isolation!HistoryStays,
     Isolation!Seed
<1> QED BY <1>2, <1>3, <1>4, <1>5 DEF TenancyInv

\* The settings a transaction runs with are its request's: its company or none, and
\* service context only where staff have the role for it.
LEMMA Scope ==
  ASSUME TenancyInv, NEW r \in Pair, req[r].at = "works"
  PROVE  /\ req[r].on \in Isolation!Conns /\ conn[req[r].on] \in Isolation!Slot
         /\ Isolation!current_company_id(req[r].on) \in {None, req[r].company}
         /\ Isolation!is_service_context(req[r].on) => Isolation!Everybodys(r)
<1> DEFINE k == req[r].on
<1>1. k \in Isolation!Conns /\ conn[k] \in Isolation!Slot
  BY DEF TenancyInv, Isolation!TypeOK, Lent, Sent
<1>2. conn[k].local = Isolation!Settings(r) /\ conn[k].session = Isolation!Unset
  BY <1>1 DEF TenancyInv, Scoped
<1>3. Isolation!Setting(k) = Isolation!Over(Isolation!Settings(r), Isolation!Unset)
  BY <1>2 DEF Isolation!Setting
<1>4. /\ Isolation!Setting(k).company \in {None, req[r].company}
      /\ Isolation!Setting(k).service = "on" => req[r].kind = "staff"
  <2>1. None # "on"
    BY IsolationNone
  <2> QED BY <1>3, <2>1 DEF Isolation!Over, Isolation!Settings, Isolation!Unset
<1> QED BY <1>1, <1>4 DEF Isolation!current_company_id, Isolation!is_service_context,
     Isolation!Everybodys

\* What the policies let a request do is its own to do, and history is not changed.
LEMMA Policies ==
  ASSUME TenancyInv, NEW r \in Pair, req[r].at = "works", NEW row \in Isolation!Row
  PROVE  /\ row.by = r /\ Isolation!MayBe(req[r].on, row) => MayLeave(r, row)
         /\ Isolation!MayChange(req[r].on, row) => row.table # "audit_log"
<1>1. Isolation!MayChange(req[r].on, row) => row.table # "audit_log"
  BY DEF Isolation!MayChange
<1>2. ASSUME row.by = r, Isolation!MayBe(req[r].on, row) PROVE MayLeave(r, row)
  <2>1. Isolation!IsOwn(req[r].on, row) => row.company # None /\ row.company = req[r].company
    BY Scope DEF Isolation!IsOwn
  <2>2. Isolation!IsOwn(req[r].on, row) \/ Isolation!is_service_context(req[r].on)
    BY <1>2 DEF Isolation!MayBe, Isolation!tenant_isolation, Isolation!tenant_read
  <2> QED BY <1>2, <2>1, <2>2, Scope DEF MayLeave
<1> QED BY <1>1, <1>2

\* The requests that a step of r leaves alone keep their connections, which are not r's.
LEMMA OthersKeep ==
  ASSUME TenancyInv, NEW r \in Pair, NEW k \in Isolation!Conns,
         req[r].on = k \/ conn[k].lent = None,
         \A s \in Pair : s # r => req'[s] = req[s],
         \A n \in Isolation!Conns : n # k => conn'[n] = conn[n]
  PROVE  \A s \in Pair : s # r /\ req[s].on # None => req[s].on # k /\ conn'[req[s].on] = conn[req[s].on]
<1> SUFFICES ASSUME NEW s \in Pair, s # r, req[s].on # None
             PROVE  req[s].on # k /\ conn'[req[s].on] = conn[req[s].on]
  OBVIOUS
<1>1. req[s].on \in Isolation!Conns
  BY DEF TenancyInv, Isolation!TypeOK
<1>2. conn[req[s].on].lent = s /\ s # None
  BY IsolationNone DEF TenancyInv, Lent
<1>3. req[r].on = k => conn[k].lent = r
  BY IsolationNone DEF TenancyInv, Lent, Isolation!Conns
<1> QED BY <1>1, <1>2, <1>3

LEMMA Comes ==
  ASSUME TenancyInv, NEW r \in Pair, Isolation!Comes(r) PROVE TenancyInv'
<1> USE DEF TenancyInv, Isolation!Comes, Isolation!At
<1>0. PICK kind \in {"contractor", "staff", "worker", "public", "other"},
           c \in Companies \cup {None} :
         /\ kind \in {"public", "other"} => c = None
         /\ req' = [req EXCEPT ![r] = [kind |-> kind, company |-> c, on |-> None,
                       at |-> IF kind = "other" THEN "refused" ELSE "waits"]]
  OBVIOUS
<1>1. req[r].at = "idle" /\ req[r].on = None
  BY DEF Lent, Sent
<1>2. /\ req' \in [Pair -> [kind : {"contractor", "staff", "worker", "public", "other", None},
                           company : Companies \cup {None},
                           at : {"idle", "waits", "lent", "begun", "works", "done", "failed",
                                 "refused"},
                           on : Isolation!Conns \cup {None}]]
      /\ req'[r].on = None /\ req'[r].at \in {"waits", "refused"}
      /\ \A s \in Pair : s # r => req'[s] = req[s]
  BY <1>0 DEF Isolation!TypeOK
<1>3. Isolation!TypeOK'
  BY <1>2 DEF Isolation!TypeOK
<1>4. Lent'
  BY <1>1, <1>2, IsolationNone DEF Lent, Sent, Isolation!TypeOK, Isolation!Slot
<1>5. Scoped'
  <2>1. \A s \in Pair : req'[s].at = "works" => Isolation!Settings(s)' = Isolation!Settings(s)
    BY <1>2 DEF Isolation!Settings
  <2>2. \A s \in Pair : req'[s].kind = "public" => req'[s].company = None
    BY <1>0, <1>2 DEF Scoped, Isolation!TypeOK
  <2>3. \A s \in Pair : req'[s].at \in {"lent", "begun", "works"} => req'[s] = req[s]
    BY <1>2
  <2> QED BY <2>1, <2>2, <2>3 DEF Scoped, Untouched
<1>6. Written'
  <2>1. \A s \in Pair : req'[s].at # "waits" /\ s # r => \A row : MayLeave(s, row)' = MayLeave(s, row)
    BY <1>2 DEF MayLeave, Isolation!Everybodys
  <2>2. Isolation!WritesItsOwn'
    BY <1>1, <1>2 DEF Written, Isolation!WritesItsOwn, Isolation!Everybodys, Isolation!TypeOK,
       Isolation!Row
  <2> QED BY <1>2, <2>1, <2>2 DEF Written, Isolation!HistoryStays, Isolation!Seed
<1> QED BY <1>3, <1>4, <1>5, <1>6

\* What the steps of a request with its connection keep of the others'.
Apart(r) == \A s \in Pair : s # r => req'[s] = req[s]

\* A request without a step of its own wrote and sees what it did before.
LEMMA SameStanding ==
  ASSUME NEW s \in Pair, req'[s].kind = req[s].kind, req'[s].company = req[s].company,
         separate' = separate
  PROVE  /\ Isolation!Settings(s)' = Isolation!Settings(s)
         /\ \A row : MayLeave(s, row)' = MayLeave(s, row)
         /\ Isolation!Everybodys(s)' = Isolation!Everybodys(s)
  BY DEF Isolation!Settings, MayLeave, Isolation!Everybodys

\* A step of r with the connection k keeps the invariant if it leaves r and k in
\* order, and the committed rows.
Orderly(r, k) ==
  /\ Sent(r) <=> req[r].on # None
  /\ req[r].on # None => req[r].on = k /\ conn[k].lent = r
  /\ req[r].on = None => conn[k] = Isolation!Free
  /\ conn[k].session = Isolation!Unset
  /\ req[r].at \in {"lent", "begun"} => Untouched(k)
  /\ req[r].at = "works" =>
       /\ conn[k].local = Isolation!Settings(r)
       /\ \A row \in conn[k].added : MayLeave(r, row)
       /\ \A row \in conn[k].removed : row.table # "audit_log"

LEMMA StepKeeps ==
  ASSUME TenancyInv, NEW r \in Pair, NEW k \in Isolation!Conns,
         req[r].on = k \/ (req[r].on = None /\ conn[k].lent = None),
         Isolation!TypeOK', Apart(r), separate' = separate,
         req'[r].kind = req[r].kind, req'[r].company = req[r].company,
         \A n \in Isolation!Conns : n # k => conn'[n] = conn[n],
         Orderly(r, k)', Isolation!WritesItsOwn', Isolation!HistoryStays'
  PROVE  TenancyInv'
<1> USE DEF TenancyInv
<1>1. \A s \in Pair : s # r /\ req[s].on # None =>
        req[s].on # k /\ req[s].on \in Isolation!Conns /\ conn'[req[s].on] = conn[req[s].on]
  BY OthersKeep DEF Apart, Isolation!TypeOK
<1>2. \A s \in Pair : /\ Isolation!Settings(s)' = Isolation!Settings(s)
                      /\ \A row : MayLeave(s, row)' = MayLeave(s, row)
  BY SameStanding DEF Apart
<1>3. \A s \in Pair : s # r /\ Sent(s)' => req[s].on # None
  BY DEF Lent, Sent, Apart
<1>4. Lent'
  <2>1. \A s \in Pair : Sent(s)' <=> req'[s].on # None
    <3>1. \A s \in Pair : s # r => (Sent(s)' <=> req'[s].on # None)
      BY DEF Lent, Sent, Apart
    <3> QED BY <3>1 DEF Orderly
  <2>2. \A s \in Pair : req'[s].on # None => conn'[req'[s].on].lent = s
    <3>1. \A s \in Pair : s # r /\ req'[s].on # None => conn'[req'[s].on].lent = s
      BY <1>1 DEF Lent, Apart
    <3> QED BY <3>1 DEF Orderly
  <2>3. \A n \in Isolation!Conns : conn'[n].lent # None => req'[conn'[n].lent].on = n
    <3>1. ASSUME NEW n \in Isolation!Conns, n # k, conn[n].lent # None
          PROVE  req'[conn[n].lent].on = n
      <4>1. conn[n].lent \in Pair /\ req[conn[n].lent].on = n
        BY <3>1 DEF Lent, Isolation!TypeOK, Isolation!Slot
      <4>2. conn[n].lent # r
        BY <3>1, <4>1, IsolationNone DEF Isolation!Conns
      <4> QED BY <4>1, <4>2 DEF Apart
    <3>2. conn'[k].lent # None => req'[conn'[k].lent].on = k
      BY FreeTyped DEF Orderly
    <3> QED BY <3>1, <3>2
  <2>4. \A n \in Isolation!Conns : conn'[n].lent = None => conn'[n] = Isolation!Free
    <3>1. conn'[k].lent = None => conn'[k] = Isolation!Free
      BY IsolationNone DEF Orderly
    <3> QED BY <3>1 DEF Lent
  <2> QED BY <2>1, <2>2, <2>3, <2>4 DEF Lent
<1>5. Scoped'
  <2>1. \A n \in Isolation!Conns : conn'[n].session = Isolation!Unset
    BY DEF Scoped, Orderly
  <2>2. \A s \in Pair : req'[s].at \in {"lent", "begun"} => Untouched(req[s].on)'
    <3>1. req'[r].at \in {"lent", "begun"} => req'[r].on = k
      BY DEF Orderly, Sent
    <3>2. \A s \in Pair : s # r /\ req'[s].at \in {"lent", "begun"} => Untouched(req[s].on)'
      BY <1>1, <1>3 DEF Scoped, Apart, Sent, Untouched
    <3> QED BY <3>1, <3>2 DEF Orderly, Untouched
  <2>3. \A s \in Pair : req'[s].at = "works" => conn'[req'[s].on].local = Isolation!Settings(s)'
    <3>1. req'[r].at = "works" => req'[r].on = k
      BY DEF Orderly, Sent
    <3>2. \A s \in Pair : s # r /\ req'[s].at = "works" =>
            conn'[req'[s].on].local = Isolation!Settings(s)'
      BY <1>1, <1>2, <1>3 DEF Scoped, Apart, Sent
    <3> QED BY <3>1, <3>2 DEF Orderly
  <2>4. \A s \in Pair : req'[s].kind = "public" => req'[s].company = None
    BY DEF Scoped, Apart
  <2> QED BY <2>1, <2>2, <2>3, <2>4 DEF Scoped
<1>6. Written'
  <2>1. \A s \in Pair : req'[s].at = "works" =>
          /\ \A row \in conn'[req'[s].on].added : MayLeave(s, row)'
          /\ \A row \in conn'[req'[s].on].removed : row.table # "audit_log"
    <3>1. req'[r].at = "works" => req'[r].on = k
      BY DEF Orderly, Sent
    <3>2. \A s \in Pair : s # r /\ req'[s].at = "works" =>
            /\ \A row \in conn'[req'[s].on].added : MayLeave(s, row)'
            /\ \A row \in conn'[req'[s].on].removed : row.table # "audit_log"
      BY <1>1, <1>2, <1>3 DEF Written, Apart, Sent
    <3> QED BY <3>1, <3>2 DEF Orderly
  <2> QED BY <2>1 DEF Written
<1> QED BY <1>4, <1>5, <1>6

LEMMA RowsKept ==
  ASSUME TenancyInv, NEW r \in Pair, Apart(r), req[r].at # "done",
         req'[r].kind = req[r].kind, req'[r].company = req[r].company,
         UNCHANGED <<separate, rows>>
  PROVE  Isolation!WritesItsOwn' /\ Isolation!HistoryStays'
<1>1. \A s \in Pair : Isolation!Everybodys(s)' = Isolation!Everybodys(s)
  BY SameStanding DEF Apart
<1>2. Isolation!WritesItsOwn'
  BY <1>1 DEF TenancyInv, Written, Isolation!WritesItsOwn, Apart, Isolation!TypeOK, Isolation!Row
<1>3. Isolation!HistoryStays'
  BY DEF TenancyInv, Written, Isolation!HistoryStays, Isolation!Seed
<1> QED BY <1>2, <1>3

\* What a step writes to a connection has its type, and leaves the rest of it alone.
LEMMA LentEdited ==
  ASSUME NEW c \in Isolation!Slot, NEW l \in Pair \cup {None}
  PROVE  [c EXCEPT !.lent = l] \in Isolation!Slot /\ [c EXCEPT !.lent = l].lent = l
  BY Zenon DEF Isolation!Slot

LEMMA BegunEdited ==
  ASSUME NEW c \in Isolation!Slot, NEW d, d = [c EXCEPT !.begun = TRUE]
  PROVE  /\ d \in Isolation!Slot
         /\ d.lent = c.lent /\ d.local = c.local /\ d.session = c.session
         /\ d.added = c.added /\ d.removed = c.removed
  BY Zenon DEF Isolation!Slot

LEMMA LocalEdited ==
  ASSUME NEW c \in Isolation!Slot, NEW s \in Isolation!Settled, NEW d, d = [c EXCEPT !.local = s]
  PROVE  /\ d \in Isolation!Slot
         /\ d.lent = c.lent /\ d.local = s /\ d.session = c.session
         /\ d.added = c.added /\ d.removed = c.removed
  BY Zenon DEF Isolation!Slot

IsRewritten(d, c, a, m) == d = [c EXCEPT !.added = a, !.removed = m]
AreRows(some) == some \in SUBSET Isolation!Row
LEMMA RowsEdited ==
  ASSUME NEW c \in Isolation!Slot, NEW a, AreRows(a), NEW m, AreRows(m),
         NEW d, IsRewritten(d, c, a, m)
  PROVE  /\ d \in Isolation!Slot
         /\ d.lent = c.lent /\ d.local = c.local /\ d.session = c.session
         /\ d.added = a /\ d.removed = m
  BY Zenon DEF Isolation!Slot, AreRows, IsRewritten

ReqTyped ==
  req \in [Pair -> [kind : {"contractor", "staff", "worker", "public", "other", None},
                    company : Companies \cup {None},
                    at : {"idle", "waits", "lent", "begun", "works", "done", "failed", "refused"},
                    on : Isolation!Conns \cup {None}]]

\* What a step writes to one connection is there, and the others are as they were.
LEMMA Lands ==
  ASSUME Isolation!TypeOK, NEW k \in Isolation!Conns, NEW c \in Isolation!Slot,
         conn' = [conn EXCEPT ![k] = c], ReqTyped', separate' = separate,
         rows' \subseteq Isolation!Row
  PROVE  /\ Isolation!TypeOK'
         /\ conn'[k] = c /\ \A n \in Isolation!Conns : n # k => conn'[n] = conn[n]
<1>1. conn \in [Isolation!Conns -> Isolation!Slot] /\ separate \in BOOLEAN
  BY Zenon DEF Isolation!TypeOK
<1> HIDE DEF Isolation!Slot, Isolation!Row
<1>2. conn' \in [Isolation!Conns -> Isolation!Slot]
  BY <1>1
<1>3. conn'[k] = c /\ \A n \in Isolation!Conns : n # k => conn'[n] = conn[n]
  BY <1>1
<1>4. Isolation!TypeOK'
  BY <1>1, <1>2, Zenon DEF Isolation!TypeOK, ReqTyped
<1> QED BY <1>3, <1>4

LEMMA Connects ==
  ASSUME TenancyInv, NEW r \in Pair, Isolation!Connects(r) PROVE TenancyInv'
<1>0. PICK k \in Isolation!Conns :
         /\ conn[k].lent = None
         /\ conn' = [conn EXCEPT ![k].lent = r]
         /\ req' = [req EXCEPT ![r].at = "lent", ![r].on = k]
  BY DEF Isolation!Connects, Isolation!PoolOf, Isolation!Conns
<1>1. req[r].at = "waits" /\ req[r].on = None /\ conn[k] = Isolation!Free
  BY <1>0 DEF TenancyInv, Lent, Sent, Isolation!Connects, Isolation!At
<1>2. /\ req'[r].on = k /\ req'[r].at = "lent"
      /\ req'[r].kind = req[r].kind /\ req'[r].company = req[r].company
      /\ Apart(r)
  BY <1>0 DEF TenancyInv, Isolation!TypeOK, Apart
<1>4. UNCHANGED <<separate, rows>>
  BY DEF Isolation!Connects
<1>5. conn' = [conn EXCEPT ![k] = [Isolation!Free EXCEPT !.lent = r]] /\ ReqTyped'
  <2>1. ReqTyped
    BY DEF TenancyInv, Isolation!TypeOK, ReqTyped
  <2>2. /\ req' = [req EXCEPT ![r] = [req[r] EXCEPT !.at = "lent", !.on = k]]
        /\ req'[r] = [req[r] EXCEPT !.at = "lent", !.on = k]
    BY <1>0, <2>1 DEF ReqTyped
  <2>5. req'[r] \in [kind : {"contractor", "staff", "worker", "public", "other", None},
                     company : Companies \cup {None},
                     at : {"idle", "waits", "lent", "begun", "works", "done", "failed", "refused"},
                     on : Isolation!Conns \cup {None}]
    BY <2>1, <2>2 DEF ReqTyped
  <2>3. ReqTyped'
    BY <2>1, <2>2, <2>5 DEF ReqTyped
  <2>4. conn' = [conn EXCEPT ![k] = [conn[k] EXCEPT !.lent = r]]
    BY <1>0
  <2> QED BY <1>1, <2>3, <2>4
<1>3. /\ Isolation!TypeOK'
      /\ conn'[k].lent = r /\ conn'[k].session = Isolation!Unset /\ Untouched(k)'
      /\ \A n \in Isolation!Conns : n # k => conn'[n] = conn[n]
  <2>1. [Isolation!Free EXCEPT !.lent = r] \in Isolation!Slot
    BY FreeTyped, LentEdited, Zenon
  <2>2. /\ Isolation!TypeOK' /\ conn'[k] = [Isolation!Free EXCEPT !.lent = r]
        /\ \A n \in Isolation!Conns : n # k => conn'[n] = conn[n]
    BY <1>4, <1>5, <2>1, Lands DEF TenancyInv, Isolation!TypeOK
  <2> QED BY <2>2 DEF Isolation!Free, Untouched
<1>6. Orderly(r, k)'
  BY <1>2, <1>3, IsolationNone DEF Orderly, Sent, Isolation!Conns
<1>7. Isolation!WritesItsOwn' /\ Isolation!HistoryStays'
  BY <1>1, <1>2, <1>4, RowsKept
<1> QED BY <1>0, <1>1, <1>2, <1>3, <1>4, <1>6, <1>7, StepKeeps

\* Where a request that has a connection stands.
LEMMA Has ==
  ASSUME TenancyInv, NEW r \in Pair, Sent(r)
  PROVE  /\ req[r].on \in Isolation!Conns /\ conn[req[r].on] \in Isolation!Slot
         /\ conn[req[r].on].lent = r /\ conn[req[r].on].session = Isolation!Unset
BY DEF TenancyInv, Lent, Scoped, Isolation!TypeOK

LEMMA Begins ==
  ASSUME TenancyInv, NEW r \in Pair, Isolation!Begins(r) PROVE TenancyInv'
<1> DEFINE k == req[r].on
<1> USE DEF Isolation!Begins, Isolation!At, Isolation!Moves
<1>1. k \in Isolation!Conns /\ conn[k].lent = r /\ conn[k].session = Isolation!Unset /\ Untouched(k)
  BY Has DEF Sent, TenancyInv, Scoped
<1>2. /\ req'[r].on = k /\ req'[r].at = "begun"
      /\ req'[r].kind = req[r].kind /\ req'[r].company = req[r].company
      /\ Apart(r)
  BY DEF TenancyInv, Isolation!TypeOK, Apart
<1>3. conn[k] \in Isolation!Slot
  BY Has DEF Sent
<1>4. PICK d : d = [conn[k] EXCEPT !.begun = TRUE]
  OBVIOUS
<1>5. /\ d \in Isolation!Slot
      /\ d.lent = r /\ d.session = Isolation!Unset /\ d.local = Isolation!Unset
      /\ d.added = {} /\ d.removed = {}
  BY <1>1, <1>3, <1>4, BegunEdited, Zenon DEF Untouched
<1>6. /\ Isolation!TypeOK' /\ conn'[k] = d
      /\ \A n \in Isolation!Conns : n # k => conn'[n] = conn[n]
  <2>1. conn' = [conn EXCEPT ![k] = d] /\ ReqTyped'
    BY <1>1, <1>4 DEF TenancyInv, Isolation!TypeOK, ReqTyped
  <2> QED BY <1>1, <1>5, <2>1, Lands DEF TenancyInv, Isolation!TypeOK
<1>7. Orderly(r, k)'
  BY <1>1, <1>2, <1>5, <1>6, IsolationNone DEF Orderly, Sent, Isolation!Conns, Untouched
<1>8. Isolation!WritesItsOwn' /\ Isolation!HistoryStays'
  BY <1>2, RowsKept
<1> QED BY <1>1, <1>2, <1>6, <1>7, <1>8, StepKeeps

LEMMA Names ==
  ASSUME TenancyInv, NEW r \in Pair, Isolation!Names(r) PROVE TenancyInv'
<1> DEFINE k == req[r].on
<1> USE DEF Isolation!Names, Isolation!At, Isolation!Moves
<1>1. k \in Isolation!Conns /\ conn[k].lent = r /\ conn[k].session = Isolation!Unset /\ Untouched(k)
  BY Has DEF Sent, TenancyInv, Scoped
<1>2. /\ req'[r].on = k /\ req'[r].at = "works"
      /\ req'[r].kind = req[r].kind /\ req'[r].company = req[r].company
      /\ Apart(r)
  BY DEF TenancyInv, Isolation!TypeOK, Apart
<1>3. Isolation!Settings(r) \in Isolation!Settled
  <2>1. req[r].company \in Companies \cup {None}
    BY DEF TenancyInv, Isolation!TypeOK
  <2> QED BY <2>1 DEF Isolation!Settings, Isolation!Settled, Isolation!Unset
<1>4. Isolation!Over(Isolation!Settings(r), conn[k].local) = Isolation!Settings(r)
  BY <1>1, <1>3 DEF Untouched, Isolation!Over, Isolation!Settled, Isolation!Unset
<1>5. conn[k] \in Isolation!Slot
  BY Has DEF Sent
<1>6. PICK d : d = [conn[k] EXCEPT !.local = Isolation!Settings(r)]
  OBVIOUS
<1>7. /\ d \in Isolation!Slot
      /\ d.lent = r /\ d.session = Isolation!Unset /\ d.local = Isolation!Settings(r)
      /\ d.added = {} /\ d.removed = {}
  BY <1>1, <1>3, <1>5, <1>6, LocalEdited DEF Untouched
<1>8. /\ Isolation!TypeOK' /\ conn'[k] = d
      /\ \A n \in Isolation!Conns : n # k => conn'[n] = conn[n]
  <2>1. Isolation!Set(k, Isolation!Settings(r)) = d
    BY <1>4, <1>6 DEF Isolation!Set
  <2>2. conn' = [conn EXCEPT ![k] = d] /\ ReqTyped'
    BY <1>1, <2>1 DEF TenancyInv, Isolation!TypeOK, ReqTyped
  <2> QED BY <1>1, <1>7, <2>2, Lands DEF TenancyInv, Isolation!TypeOK
<1>9. Orderly(r, k)'
  <2>1. Isolation!Settings(r)' = Isolation!Settings(r)
    BY <1>2 DEF Isolation!Settings
  <2> QED BY <1>1, <1>2, <1>7, <1>8, <2>1, IsolationNone DEF Orderly, Sent, Isolation!Conns
<1>10. Isolation!WritesItsOwn' /\ Isolation!HistoryStays'
  BY <1>2, RowsKept
<1> QED BY <1>1, <1>2, <1>8, <1>9, <1>10, StepKeeps

\* A statement that writes adds what its request may leave, and removes no history.
MayAdd(r, added) == \A row \in added : MayLeave(r, row)
MayLose(removed) == \A row \in removed : row.table # "audit_log"
LEMMA Writes ==
  ASSUME TenancyInv, NEW r \in Pair, req[r].at = "works",
         NEW added, AreRows(added), NEW removed, AreRows(removed),
         MayAdd(r, added), MayLose(removed),
         Isolation!Writes(req[r].on, added, removed), UNCHANGED <<separate, req, rows>>
  PROVE  TenancyInv'
<1> DEFINE k == req[r].on
<1>1. /\ k \in Isolation!Conns /\ conn[k].lent = r /\ conn[k].session = Isolation!Unset
      /\ conn[k] \in Isolation!Slot /\ conn[k].local = Isolation!Settings(r)
      /\ \A row \in conn[k].added : MayLeave(r, row)
      /\ \A row \in conn[k].removed : row.table # "audit_log"
  BY Has DEF Sent, TenancyInv, Scoped, Written
<1> DEFINE a == (conn[k].added \ removed) \cup added
           m == conn[k].removed \cup (removed \cap rows)
<1>2. PICK d : d = [conn[k] EXCEPT !.added = a, !.removed = m]
  OBVIOUS
<1>3. /\ d \in Isolation!Slot
      /\ d.lent = r /\ d.session = Isolation!Unset /\ d.local = Isolation!Settings(r)
      /\ d.added = a /\ d.removed = m
  <2>1. /\ conn[k].added \in SUBSET Isolation!Row /\ conn[k].removed \in SUBSET Isolation!Row
        /\ rows \in SUBSET Isolation!Row
    BY <1>1 DEF Isolation!Slot, TenancyInv, Isolation!TypeOK
  <2>2. AreRows(a) /\ AreRows(m)
    BY <2>1 DEF AreRows
  <2>3. conn[k] \in Isolation!Slot
    BY <1>1
  <2>4. /\ d \in Isolation!Slot
        /\ d.lent = conn[k].lent /\ d.local = conn[k].local /\ d.session = conn[k].session
        /\ d.added = a /\ d.removed = m
    <3>1. IsRewritten(d, conn[k], a, m)
      BY <1>2 DEF IsRewritten
    <3> HIDE DEF a, m, k
    <3> QED BY <2>2, <2>3, <3>1, RowsEdited
  <2> QED BY <1>1, <2>4
<1>4. /\ Isolation!TypeOK' /\ conn'[k] = d
      /\ \A n \in Isolation!Conns : n # k => conn'[n] = conn[n]
  <2>1. conn' = [conn EXCEPT ![k] = d]
    BY <1>1, <1>2 DEF Isolation!Writes, TenancyInv, Isolation!TypeOK
  <2>2. ReqTyped' /\ rows' \subseteq Isolation!Row
    BY DEF TenancyInv, Isolation!TypeOK, ReqTyped
  <2> QED BY <1>1, <1>3, <2>1, <2>2, Lands DEF TenancyInv
<1>5. Isolation!Settings(r)' = Isolation!Settings(r) /\ \A row : MayLeave(r, row)' = MayLeave(r, row)
  BY SameStanding
<1>6. Orderly(r, k)'
  BY <1>1, <1>3, <1>4, <1>5, IsolationNone DEF Orderly, Sent, Isolation!Conns, MayAdd, MayLose
<1>7. Isolation!WritesItsOwn' /\ Isolation!HistoryStays'
  BY RowsKept DEF Apart
<1> QED BY <1>1, <1>4, <1>6, <1>7, StepKeeps DEF Apart

LEMMA ViewTyped ==
  ASSUME TenancyInv, NEW r \in Pair, req[r].at = "works"
  PROVE  Isolation!View(req[r].on) \in SUBSET Isolation!Row
<1>1. conn[req[r].on].added \in SUBSET Isolation!Row
  BY Has DEF Sent, Isolation!Slot
<1> QED BY <1>1 DEF Isolation!View, TenancyInv, Isolation!TypeOK

LEMMA Inserts ==
  ASSUME TenancyInv, NEW r \in Pair, Isolation!Inserts(r) PROVE TenancyInv'
<1>1. PICK row \in Isolation!Row : /\ row.by = r /\ Isolation!MayBe(req[r].on, row)
                                   /\ Isolation!Writes(req[r].on, {row}, {})
  BY DEF Isolation!Inserts
<1>2. req[r].at = "works" /\ UNCHANGED <<separate, req, rows>>
  BY DEF Isolation!Inserts, Isolation!At
<1>3. MayLeave(r, row)
  BY <1>1, <1>2, Policies
<1>4. AreRows({row}) /\ AreRows({}) /\ MayAdd(r, {row}) /\ MayLose({})
  BY <1>3 DEF AreRows, MayAdd, MayLose
<1> QED BY <1>1, <1>2, <1>4, Writes

LEMMA Updates ==
  ASSUME TenancyInv, NEW r \in Pair, Isolation!Updates(r) PROVE TenancyInv'
<1>1. req[r].at = "works" /\ UNCHANGED <<separate, req, rows>>
  BY DEF Isolation!Updates, Isolation!At
<1>2. PICK row \in Isolation!View(req[r].on) : \E c \in Companies :
         LET after == [row EXCEPT !.company = c, !.by = r] IN
         /\ row.company # None /\ Isolation!MayChange(req[r].on, row)
         /\ Isolation!MayBe(req[r].on, after)
         /\ Isolation!Writes(req[r].on, {after}, {row} \ {after})
  BY DEF Isolation!Updates
<1>3. row \in Isolation!Row
  BY <1>1, ViewTyped
<1>4. PICK c \in Companies :
         /\ row.company # None /\ Isolation!MayChange(req[r].on, row)
         /\ Isolation!MayBe(req[r].on, [row EXCEPT !.company = c, !.by = r])
         /\ Isolation!Writes(req[r].on, {[row EXCEPT !.company = c, !.by = r]},
                             {row} \ {[row EXCEPT !.company = c, !.by = r]})
  BY <1>2
<1>5. PICK after : after = [row EXCEPT !.company = c, !.by = r]
  OBVIOUS
<1>6. after \in Isolation!Row /\ after.by = r
  BY <1>3, <1>4, <1>5, IsolationNone DEF Isolation!Row
<1>7. MayLeave(r, after) /\ row.table # "audit_log"
  BY <1>1, <1>3, <1>4, <1>5, <1>6, Policies
<1>8. /\ AreRows({after}) /\ AreRows({row} \ {after})
      /\ MayAdd(r, {after}) /\ MayLose({row} \ {after})
  BY <1>3, <1>6, <1>7 DEF AreRows, MayAdd, MayLose
<1>9. Isolation!Writes(req[r].on, {after}, {row} \ {after})
  BY <1>4, <1>5
<1> QED BY <1>1, <1>8, <1>9, Writes

LEMMA Deletes ==
  ASSUME TenancyInv, NEW r \in Pair, Isolation!Deletes(r) PROVE TenancyInv'
<1>1. req[r].at = "works" /\ UNCHANGED <<separate, req, rows>>
  BY DEF Isolation!Deletes, Isolation!At
<1>2. PICK row \in Isolation!View(req[r].on) :
         Isolation!MayRemove(req[r].on, row) /\ Isolation!Writes(req[r].on, {}, {row})
  BY DEF Isolation!Deletes
<1>3. row \in Isolation!Row
  BY <1>1, ViewTyped
<1>4. row.table # "audit_log"
  BY <1>1, <1>2, <1>3, Policies DEF Isolation!MayRemove
<1>5. AreRows({row}) /\ AreRows({}) /\ MayAdd(r, {}) /\ MayLose({row})
  BY <1>3, <1>4 DEF AreRows, MayAdd, MayLose
<1> QED BY <1>1, <1>2, <1>5, Writes

LEMMA Submits ==
  ASSUME TenancyInv, NEW r \in Pair, Isolation!Submits(r) PROVE TenancyInv'
<1>1. PICK row : /\ row = [table |-> "demo_requests", company |-> None, by |-> r]
                 /\ Isolation!Writes(req[r].on, {row}, {})
  BY DEF Isolation!Submits
<1>2. req[r].at = "works" /\ req[r].kind = "public" /\ UNCHANGED <<separate, req, rows>>
  BY DEF Isolation!Submits, Isolation!At
<1>3. row \in Isolation!Row /\ MayLeave(r, row)
  BY <1>1, <1>2 DEF Isolation!Row, Isolation!Tables, Isolation!Shared, MayLeave
<1>4. AreRows({row}) /\ AreRows({}) /\ MayAdd(r, {row}) /\ MayLose({})
  BY <1>3 DEF AreRows, MayAdd, MayLose
<1> QED BY <1>1, <1>2, <1>4, Writes

\* A request that is over has given its connection back as it got it.
LEMMA GivesBack ==
  ASSUME TenancyInv, NEW r \in Pair, Sent(r),
         NEW place \in {"done", "failed"},
         conn' = [conn EXCEPT ![req[r].on] = Isolation!Free],
         req' = [req EXCEPT ![r].at = place, ![r].on = None],
         separate' = separate, rows' \subseteq Isolation!Row,
         Isolation!WritesItsOwn', Isolation!HistoryStays'
  PROVE  TenancyInv'
<1>1. PICK k \in Isolation!Conns : k = req[r].on
  BY Has
<1>2. /\ req'[r].on = None /\ req'[r].at = place
      /\ req'[r].kind = req[r].kind /\ req'[r].company = req[r].company
      /\ Apart(r) /\ ReqTyped'
  <2>1. ReqTyped
    BY DEF TenancyInv, Isolation!TypeOK, ReqTyped
  <2>2. /\ req'[r] = [req[r] EXCEPT !.at = place, !.on = None]
        /\ \A s \in Pair : s # r => req'[s] = req[s]
        /\ req' = [req EXCEPT ![r] = [req[r] EXCEPT !.at = place, !.on = None]]
    BY <2>1 DEF ReqTyped
  <2>3. req'[r] \in [kind : {"contractor", "staff", "worker", "public", "other", None},
                     company : Companies \cup {None},
                     at : {"idle", "waits", "lent", "begun", "works", "done", "failed", "refused"},
                     on : Isolation!Conns \cup {None}]
    BY <2>1, <2>2 DEF ReqTyped
  <2> QED BY <2>1, <2>2, <2>3 DEF Apart, ReqTyped
<1>3. /\ Isolation!TypeOK' /\ conn'[k] = Isolation!Free
      /\ \A n \in Isolation!Conns : n # k => conn'[n] = conn[n]
  BY <1>1, <1>2, FreeTyped, Lands DEF TenancyInv
<1>4. Isolation!Free.session = Isolation!Unset
  BY Zenon DEF Isolation!Free
<1>5. Orderly(r, k)'
  BY <1>2, <1>3, <1>4 DEF Orderly, Sent
<1> QED BY <1>1, <1>2, <1>3, <1>5, StepKeeps

\* What the transaction's end leaves of its connection.
LEMMA EndsFree ==
  ASSUME TenancyInv, NEW r \in Pair, Sent(r)
  PROVE  Isolation!Ended(req[r].on) = Isolation!Free
<1>1. conn[req[r].on].session = Isolation!Unset
  BY Has
<1>2. Isolation!Free.session = Isolation!Unset
  BY Zenon DEF Isolation!Free
<1>3. [Isolation!Free EXCEPT !.session = Isolation!Free.session] = Isolation!Free
  BY DEF Isolation!Free
<1> QED BY <1>1, <1>2, <1>3 DEF Isolation!Ended

LEMMA Throws ==
  ASSUME TenancyInv, NEW r \in Pair, Isolation!Throws(r) PROVE TenancyInv'
<1>1. Sent(r) /\ req[r].at # "done"
  BY DEF Isolation!Throws, Isolation!At, Sent
<1>2. /\ conn' = [conn EXCEPT ![req[r].on] = Isolation!Free]
      /\ req' = [req EXCEPT ![r].at = "failed", ![r].on = None]
      /\ UNCHANGED <<separate, rows>>
  BY <1>1, EndsFree DEF Isolation!Throws, Isolation!RolledBack
<1>3. /\ req'[r].kind = req[r].kind /\ req'[r].company = req[r].company
      /\ Apart(r)
  BY <1>2 DEF TenancyInv, Isolation!TypeOK, Apart
<1>4. rows' \subseteq Isolation!Row
  BY <1>2 DEF TenancyInv, Isolation!TypeOK
<1> QED BY <1>1, <1>2, <1>3, <1>4, RowsKept, GivesBack

LEMMA Breaks ==
  ASSUME TenancyInv, NEW r \in Pair, Isolation!Breaks(r) PROVE TenancyInv'
<1>1. Sent(r) /\ req[r].at # "done"
  BY DEF Isolation!Breaks, TenancyInv, Lent, Sent
<1>2. /\ conn' = [conn EXCEPT ![req[r].on] = Isolation!Free]
      /\ req' = [req EXCEPT ![r].at = "failed", ![r].on = None]
      /\ UNCHANGED <<separate, rows>>
  BY DEF Isolation!Breaks
<1>3. /\ req'[r].kind = req[r].kind /\ req'[r].company = req[r].company
      /\ Apart(r)
  BY <1>2 DEF TenancyInv, Isolation!TypeOK, Apart
<1>4. rows' \subseteq Isolation!Row
  BY <1>2 DEF TenancyInv, Isolation!TypeOK
<1> QED BY <1>1, <1>2, <1>3, <1>4, RowsKept, GivesBack

LEMMA Commits ==
  ASSUME TenancyInv, NEW r \in Pair, Isolation!Commits(r) PROVE TenancyInv'
<1>1. Sent(r) /\ req[r].at = "works"
  BY DEF Isolation!Commits, Isolation!At, Sent
<1>2. /\ conn' = [conn EXCEPT ![req[r].on] = Isolation!Free]
      /\ req' = [req EXCEPT ![r].at = "done", ![r].on = None]
      /\ separate' = separate /\ rows' = Isolation!View(req[r].on)
  BY <1>1, EndsFree DEF Isolation!Commits
<1>3. /\ req'[r].kind = req[r].kind /\ req'[r].company = req[r].company
      /\ req'[r].at = "done" /\ Apart(r)
  BY <1>2 DEF TenancyInv, Isolation!TypeOK, Apart
<1>4. rows' \subseteq Isolation!Row
  BY <1>1, <1>2, ViewTyped
<1>5. Isolation!WritesItsOwn'
  <2> SUFFICES ASSUME NEW row \in rows', row.by # None
               PROVE  /\ req'[row.by].at = "done"
                      /\ \/ Isolation!Everybodys(row.by)'
                         \/ row.company # None /\ row.company = req'[row.by].company
                         \/ req'[row.by].kind = "public" /\ row.table = "demo_requests"
    BY DEF Isolation!WritesItsOwn
  <2>1. row \in Isolation!Row /\ row.by \in Pair
    BY <1>4 DEF Isolation!Row
  <2>2. CASE row \in conn[req[r].on].added
    <3>1. MayLeave(r, row)
      BY <1>1, <2>2 DEF TenancyInv, Written
    <3> QED BY <1>2, <1>3, <3>1 DEF MayLeave, Isolation!Everybodys
  <2>3. CASE row \in rows
    <3>1. /\ req[row.by].at = "done"
          /\ \/ Isolation!Everybodys(row.by)
             \/ row.company # None /\ row.company = req[row.by].company
             \/ req[row.by].kind = "public" /\ row.table = "demo_requests"
      BY <2>3 DEF TenancyInv, Written, Isolation!WritesItsOwn
    <3> QED BY <1>1, <1>2, <1>3, <2>1, <3>1 DEF Apart, Isolation!Everybodys
  <2> QED BY <1>2, <2>2, <2>3 DEF Isolation!View
<1>6. Isolation!HistoryStays'
  BY <1>1, <1>2 DEF Isolation!View, TenancyInv, Written, Isolation!HistoryStays, Isolation!Seed
<1> QED BY <1>1, <1>2, <1>4, <1>5, <1>6, GivesBack

\* A request works with the rows of its company whoever had its connection before,
\* and leaves nothing behind that is not its company's or that failed.
LEMMA TenancyHolds == TenancyInv => Isolation!OwnRowsOnly
<1> SUFFICES ASSUME TenancyInv PROVE Isolation!OwnRowsOnly
  OBVIOUS
<1>1. Isolation!SeesItsOwn
  <2> SUFFICES ASSUME NEW r \in Pair, req[r].at = "works", ~Isolation!Everybodys(r),
                      NEW row \in Isolation!Row, Isolation!CanRead(req[r].on, row)
               PROVE  \/ row.table = "trades"
                      \/ row.company # None /\ row.company = req[r].company /\ row.table # "notes"
    BY DEF Isolation!SeesItsOwn, Isolation!At
  <2>1. /\ ~Isolation!is_service_context(req[r].on)
        /\ Isolation!IsOwn(req[r].on, row) => row.company # None /\ row.company = req[r].company
    BY Scope DEF Isolation!IsOwn
  <2> QED BY <2>1 DEF Isolation!CanRead, Isolation!tenant_isolation, Isolation!tenant_read
<1>2. Isolation!PoolIsBlank
  BY DEF TenancyInv, Lent, Isolation!PoolIsBlank
<1> QED BY <1>1, <1>2 DEF TenancyInv, Written, Isolation!OwnRowsOnly

LEMMA TenancyStep == TenancyInv /\ [Isolation!Next]_isolating => TenancyInv'
<1> SUFFICES ASSUME TenancyInv, [Isolation!Next]_isolating PROVE TenancyInv'
  OBVIOUS
<1>1. CASE UNCHANGED isolating
  <2>1. UNCHANGED <<separate, conn, req, rows>>
    BY <1>1 DEF isolating
  <2> QED BY <2>1 DEF TenancyInv, Isolation!TypeOK, Lent, Scoped, Written, Sent, Untouched,
         MayLeave, Isolation!Settings, Isolation!Everybodys, Isolation!WritesItsOwn,
         Isolation!HistoryStays
<1>2. ASSUME NEW r \in Pair,
             \/ Isolation!Comes(r) \/ Isolation!Connects(r) \/ Isolation!Begins(r)
             \/ Isolation!Names(r) \/ Isolation!Inserts(r) \/ Isolation!Updates(r)
             \/ Isolation!Deletes(r) \/ Isolation!Submits(r) \/ Isolation!Commits(r)
             \/ Isolation!Throws(r) \/ Isolation!Breaks(r)
      PROVE  TenancyInv'
  BY <1>2, Comes, Connects, Begins, Names, Inserts, Updates, Deletes, Submits, Commits,
     Throws, Breaks
<1> QED BY <1>1, <1>2 DEF Isolation!Next

THEOREM RequestsKeepToTheirRows == Spec => []OwnRowsOnly
<1>1. Init => TenancyInv
  BY TenancyInit DEF Init
<1>2. TenancyInv /\ [Next]_all => TenancyInv'
  <2>1. Next => [Isolation!Next]_isolating
    BY DEF Next
  <2>2. UNCHANGED all => UNCHANGED isolating
    BY DEF all
  <2> QED BY <2>1, <2>2, TenancyStep
<1>3. TenancyInv => OwnRowsOnly
  BY TenancyHolds DEF OwnRowsOnly
<1> QED BY <1>1, <1>2, <1>3, PTL DEF Spec
=============================================================================
