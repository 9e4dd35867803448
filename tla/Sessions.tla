------------------------------ MODULE Sessions ------------------------------
(***************************************************************************)
(* The sessions of one account: the rows of ocs.refresh_tokens, the        *)
(* columns of its row of ocs.app_users that decide whether a session is    *)
(* good, the ticket between the two steps of a sign-in, and the browsers   *)
(* with their cookie and their tabs.                                       *)
(*                                                                         *)
(* A request of a tab is several steps: consumeRefreshToken and            *)
(* issueRefreshToken are two transactions, and the cookie changes only     *)
(* when the answer arrives, if it does.                                    *)
(***************************************************************************)
EXTENDS Naturals

CONSTANTS Tabs, Browsers,   \* tabs, and the browsers whose cookie they share
          BrowserOf,        \* the browser of each tab
          Tokens,           \* identities of refresh tokens
          MaxTries,         \* MFA_MAX_ATTEMPTS
          MaxEnds,          \* bound on how often all sessions are ended
          MaxFactors,       \* bound on the secrets ever enrolled
          None

VARIABLES
  version,    \* app_users.token_version
  active,     \* app_users.is_active
  factor,     \* mfa_secret_encrypted: which secret, 0 for none
  mfaOn,      \* app_users.mfa_enabled
  token,      \* the rows of refresh_tokens
  ticket,     \* the mfa_challenges row a tab holds the token of
  cookie,     \* the refresh cookie of each browser
  access,     \* the access token in each tab's memory
  call,       \* what each tab waits for
  \* History, for the properties.
  ends,       \* how often something ended the account's sessions
  secrets,    \* how many secrets were ever enrolled
  overrun,    \* a secret was replaced while the factor was on, or passed while it was off
  lost        \* browsers that never saw the answer of a rotation

account == <<version, active, factor, mfaOn>>
history == <<ends, secrets, overrun, lost>>
vars == <<account, token, ticket, cookie, access, call, history>>

\* What a session may claim: its token_version, whether a second factor was
\* presented, and (history) which, and how many ends there had been by then.
Grant == [ver : Nat, mfa : BOOLEAN, factor : Nat, era : Nat]
Row == [grant : Grant, state : {"live", "recent", "old", "deleted"},
        rotated : BOOLEAN]
Call == [op : {"ticket", "issue"}, grant : Grant]
          \cup [op : {"refresh", "leave"}, token : Tokens]
          \cup [op : {"answer"}, token : Tokens, grant : Grant]
          \cup [op : {"change", "setup", "enable"}, grant : Grant]

TypeOK ==
  /\ version \in Nat /\ ends \in Nat /\ secrets \in Nat /\ factor \in Nat
  /\ active \in BOOLEAN /\ mfaOn \in BOOLEAN
  /\ token \in [Tokens -> Row \cup {None}]
  /\ ticket \in [Tabs -> (0 .. MaxTries) \cup {None}]
  /\ cookie \in [Browsers -> Tokens \cup {None}]
  /\ access \in [Tabs -> Grant \cup {None}]
  /\ call \in [Tabs -> Call \cup {None}]
  /\ overrun \in BOOLEAN
  /\ lost \in SUBSET Browsers

Init ==
  /\ version = 0 /\ ends = 0 /\ secrets = 0 /\ factor = 0
  /\ active = TRUE /\ mfaOn = FALSE /\ overrun = FALSE /\ lost = {}
  /\ token = [k \in Tokens |-> None]
  /\ ticket = [t \in Tabs |-> None]
  /\ cookie = [b \in Browsers |-> None]
  /\ access = [t \in Tabs |-> None]
  /\ call = [t \in Tabs |-> None]

Goes(t, c) == call' = [call EXCEPT ![t] = c]
NewGrant(mfa) ==
  [ver |-> version, mfa |-> mfa, factor |-> IF mfa THEN factor ELSE 0, era |-> ends]

\* requireApiAuth: the account is active and the token is of its version.
Accepted(t) == access[t] # None /\ active /\ access[t].ver = version

\* update refresh_tokens set revoked_at = now() where revoked_at is null
RevokeRow(r, rotation) ==
  IF r # None /\ r.state = "live"
  THEN [r EXCEPT !.state = "recent", !.rotated = rotation] ELSE r
RevokeAll == token' = [k \in Tokens |-> RevokeRow(token[k], FALSE)]

\* Mutant: the tokens are revoked and token_version stays.
EndsQuietly == ends < MaxEnds /\ ends' = ends + 1 /\ UNCHANGED version

\* The statements that end every session of the account.
EndsSessions == ends < MaxEnds /\ ends' = ends + 1 /\ version' = version + 1

-----------------------------------------------------------------------------
\* POST /api/auth/login: the row is read and the password compared; then either
\* a ticket or a session follows, each in a transaction of its own.
Login(t) ==
  /\ call[t] = None /\ active
  /\ Goes(t, [op |-> IF mfaOn THEN "ticket" ELSE "issue", grant |-> NewGrant(FALSE)])
  /\ UNCHANGED <<account, token, ticket, cookie, access, history>>

\* issueMfaChallenge drops the tickets not used yet.
IssueTicket(t) ==
  /\ call[t] # None /\ call[t].op = "ticket"
  /\ ticket' = [u \in Tabs |-> IF u = t THEN 0 ELSE None]
  /\ Goes(t, None)
  /\ UNCHANGED <<account, token, cookie, access, history>>

\* Mutant: one wrong code too many is taken.
TriesLeftAfterAll(t) == ticket[t] <= MaxTries
TriesLeft(t) == ticket[t] < MaxTries

\* consumeMfaChallenge, the ticket's row being locked: the right code, a wrong
\* one, or one too many. Whether the factor is on (still, or yet) is not asked.
Challenge(t) ==
  /\ call[t] = None /\ ticket[t] # None
  /\ \/ /\ TriesLeft(t) /\ active /\ factor # 0
        /\ ticket' = [ticket EXCEPT ![t] = None]
        /\ Goes(t, [op |-> "issue", grant |-> NewGrant(TRUE)])
        /\ overrun' = (overrun \/ ~mfaOn)
     \/ /\ TriesLeft(t) /\ active /\ factor # 0
        /\ ticket' = [ticket EXCEPT ![t] = @ + 1]
        /\ UNCHANGED <<call, overrun>>
     \/ /\ ticket[t] = MaxTries
        /\ ticket' = [ticket EXCEPT ![t] = None]
        /\ UNCHANGED <<call, overrun>>
  /\ UNCHANGED <<account, token, cookie, access, ends, secrets, lost>>

\* sessionResponse: the row is inserted without mfa_verified, the access token
\* is signed with what the caller was granted.
Issue(t) ==
  /\ call[t] # None /\ call[t].op = "issue"
  /\ \E k \in Tokens : token[k] = None
  /\ LET k == CHOOSE k \in Tokens : token[k] = None
     IN /\ token' = [token EXCEPT ![k] =
               [grant |-> [call[t].grant EXCEPT !.mfa = FALSE],
                state |-> "live", rotated |-> FALSE]]
        /\ Goes(t, [op |-> "answer", token |-> k, grant |-> call[t].grant])
  /\ UNCHANGED <<account, ticket, cookie, access, history>>

\* Mutant: an answer to a tab that is signed in brings no cookie.
AnswerOnce(t) ==
  /\ call[t] # None /\ call[t].op = "answer"
  /\ cookie' = IF access[t] = None THEN [cookie EXCEPT ![BrowserOf[t]] = call[t].token]
               ELSE cookie
  /\ access' = [access EXCEPT ![t] = call[t].grant]
  /\ Goes(t, None)
  /\ UNCHANGED <<account, token, ticket, history>>

\* The answer of a sign-in or a refresh reaches the tab, with its cookie.
Answer(t) ==
  /\ call[t] # None /\ call[t].op = "answer"
  /\ cookie' = [cookie EXCEPT ![BrowserOf[t]] = call[t].token]
  /\ access' = [access EXCEPT ![t] = call[t].grant]
  /\ Goes(t, None)
  /\ UNCHANGED <<account, token, ticket, history>>

\* The request or its answer is lost, or the tab is closed or reloaded.
Lose(t) ==
  /\ call[t] # None
  /\ lost' = IF call[t].op \in {"issue", "answer"} THEN lost \cup {BrowserOf[t]} ELSE lost
  /\ access' \in {access, [access EXCEPT ![t] = None]}
  /\ Goes(t, None)
  /\ UNCHANGED <<account, token, ticket, cookie, ends, secrets, overrun>>

\* A tab that was answered 401 presents the browser's cookie; api() does so once
\* at a time (refreshing). An access token may run out whenever it likes.
Refresh(t) ==
  /\ call[t] = None /\ cookie[BrowserOf[t]] # None
  /\ Goes(t, [op |-> "refresh", token |-> cookie[BrowserOf[t]]])
  /\ UNCHANGED <<account, token, ticket, cookie, access, history>>

Presents(t) == call[t] # None /\ call[t].op = "refresh"
Good(r) == r # None /\ r.state \in {"live", "recent"}

\* consumeRefreshToken: a token revoked long ago ends every session.
ReuseDetected(t) ==
  /\ Presents(t)
  /\ token[call[t].token].state = "old"
  /\ EndsSessions /\ RevokeAll
  /\ access' = [access EXCEPT ![t] = None]
  /\ Goes(t, None)
  /\ UNCHANGED <<active, factor, mfaOn, ticket, cookie, secrets, overrun, lost>>

\* consumeRefreshToken: unknown, or expired, which it may be at any time; or, the
\* token being revoked first, of an account that is not active or whose version
\* has moved on. The tab signs out; the cookie stays.
RefreshRefused(t) ==
  /\ Presents(t)
  /\ LET k == call[t].token IN
       \/ token[k].state # "old" /\ UNCHANGED token
       \/ /\ Good(token[k])
          /\ ~active \/ token[k].grant.ver # version
          /\ token' = [token EXCEPT ![k] = RevokeRow(@, FALSE)]
  /\ access' = [access EXCEPT ![t] = None]
  /\ Goes(t, None)
  /\ UNCHANGED <<account, ticket, cookie, history>>

\* Mutant: whatever is rotated comes back verified.
RotatesVerified(t) ==
  LET k == call[t].token IN
    /\ token' = [token EXCEPT ![k] = RevokeRow(@, TRUE)]
    /\ Goes(t, [op |-> "issue", grant |-> [token[k].grant EXCEPT !.mfa = TRUE]])

\* consumeRefreshToken: live, or rotated so recently that it is another tab's
\* doing. What the row says of the second factor goes on.
Rotates(t) ==
  LET k == call[t].token IN
    /\ token' = [token EXCEPT ![k] = RevokeRow(@, TRUE)]
    /\ Goes(t, [op |-> "issue", grant |-> token[k].grant])
RefreshGranted(t) ==
  /\ Presents(t) /\ active
  /\ Good(token[call[t].token]) /\ token[call[t].token].grant.ver = version
  /\ Rotates(t)
  /\ UNCHANGED <<account, ticket, cookie, access, history>>

\* POST /api/auth/logout revokes what the cookie holds; the answer clears it.
Logout(t) ==
  /\ call[t] = None /\ cookie[BrowserOf[t]] # None
  /\ token' = [token EXCEPT ![cookie[BrowserOf[t]]] = RevokeRow(@, FALSE)]
  /\ Goes(t, [op |-> "leave", token |-> cookie[BrowserOf[t]]])
  /\ UNCHANGED <<account, ticket, cookie, access, history>>
LogoutAnswered(t) ==
  /\ call[t] # None /\ call[t].op = "leave"
  /\ cookie' = [cookie EXCEPT ![BrowserOf[t]] = None]
  /\ access' = [access EXCEPT ![t] = None]
  /\ Goes(t, None)
  /\ UNCHANGED <<account, token, ticket, history>>

-----------------------------------------------------------------------------
\* Time: the grace of a revoked token passes; the nightly job deletes rows that
\* expired, and rows revoked a week ago.
GraceEnds(k) ==
  /\ token[k] # None /\ token[k].state = "recent"
  /\ token' = [token EXCEPT ![k].state = "old"]
  /\ UNCHANGED <<account, ticket, cookie, access, call, history>>
CleanupRefreshTokens ==
  /\ \E k \in Tokens : token[k] # None /\ token[k].state \in {"live", "old"}
                        /\ token' = [token EXCEPT ![k].state = "deleted"]
  /\ UNCHANGED <<account, ticket, cookie, access, call, history>>

-----------------------------------------------------------------------------
\* POST /api/auth/change-password compares the password in one transaction and
\* writes in another.
ChangePassword(t) ==
  /\ call[t] = None /\ Accepted(t)
  /\ Goes(t, [op |-> "change", grant |-> access[t]])
  /\ UNCHANGED <<account, token, ticket, cookie, access, history>>
PasswordChanges(t) ==
  /\ call[t] # None /\ call[t].op = "change"
  /\ EndsSessions /\ RevokeAll
  /\ Goes(t, None)
  /\ UNCHANGED <<active, factor, mfaOn, ticket, cookie, access, secrets, overrun, lost>>

\* POST /api/auth/reset-password, with a link sent before (Accounts), ends the
\* other sessions and answers with a new one.
ResetPassword(t) ==
  /\ call[t] = None /\ active
  /\ EndsSessions /\ RevokeAll
  /\ Goes(t, [op |-> "issue", grant |-> [NewGrant(FALSE) EXCEPT !.ver = version', !.era = ends']])
  /\ UNCHANGED <<active, factor, mfaOn, ticket, cookie, access, secrets, overrun, lost>>

\* An invitation sent again makes the account active.
InviteAgain ==
  /\ active' = TRUE
  /\ UNCHANGED <<version, factor, mfaOn, token, ticket, cookie, access, call, history>>

\* PATCH /api/users/:userId and .../role: a role, a name, or is_active.
UpdateUser ==
  /\ active' \in BOOLEAN
  /\ EndsSessions /\ RevokeAll
  /\ UNCHANGED <<factor, mfaOn, ticket, cookie, access, call, secrets, overrun, lost>>
\* PATCH /api/portal/team/:userId ends sessions only when it deactivates.
UpdateTeamMember ==
  /\ \/ active' = FALSE /\ EndsSessions /\ RevokeAll
     \/ active' = TRUE /\ UNCHANGED <<version, ends, token>>
  /\ UNCHANGED <<factor, mfaOn, ticket, cookie, access, call, secrets, overrun, lost>>

-----------------------------------------------------------------------------
\* POST /api/auth/mfa/setup reads mfa_enabled, then writes a new secret.
SetupReads(t) ==
  /\ call[t] = None /\ Accepted(t) /\ ~mfaOn
  /\ Goes(t, [op |-> "setup", grant |-> access[t]])
  /\ UNCHANGED <<account, token, ticket, cookie, access, history>>
SetupWrites(t) ==
  /\ call[t] # None /\ call[t].op = "setup" /\ secrets < MaxFactors
  /\ secrets' = secrets + 1 /\ factor' = secrets' /\ mfaOn' = FALSE
  /\ overrun' = (overrun \/ mfaOn)
  /\ Goes(t, None)
  /\ UNCHANGED <<version, active, token, ticket, cookie, access, ends, lost>>
\* POST /api/auth/mfa/enable compares a code with the secret, then turns it on.
EnableReads(t) ==
  /\ call[t] = None /\ Accepted(t) /\ factor # 0
  /\ Goes(t, [op |-> "enable", grant |-> access[t]])
  /\ UNCHANGED <<account, token, ticket, cookie, access, history>>
EnableWrites(t) ==
  /\ call[t] # None /\ call[t].op = "enable" /\ factor # 0
  /\ mfaOn' = TRUE
  /\ Goes(t, None)
  /\ UNCHANGED <<version, active, factor, token, ticket, cookie, access, history>>
\* POST /api/auth/mfa/disable, with a code. Refresh tokens are not revoked.
Disable(t) ==
  /\ call[t] = None /\ Accepted(t) /\ mfaOn
  /\ EndsSessions
  /\ mfaOn' = FALSE /\ factor' = 0
  /\ UNCHANGED <<active, token, ticket, cookie, access, call, secrets, overrun, lost>>

-----------------------------------------------------------------------------
TabStep(t) ==
  \/ Login(t) \/ IssueTicket(t) \/ Challenge(t)
  \/ Issue(t) \/ Answer(t) \/ Lose(t)
  \/ Refresh(t) \/ ReuseDetected(t) \/ RefreshRefused(t) \/ RefreshGranted(t)
  \/ Logout(t) \/ LogoutAnswered(t)
  \/ ChangePassword(t) \/ PasswordChanges(t) \/ ResetPassword(t)
  \/ SetupReads(t) \/ SetupWrites(t) \/ EnableReads(t) \/ EnableWrites(t) \/ Disable(t)
Next ==
  \/ \E t \in Tabs : TabStep(t)
  \/ \E k \in Tokens : GraceEnds(k)
  \/ CleanupRefreshTokens
  \/ InviteAgain \/ UpdateUser \/ UpdateTeamMember
Spec == Init /\ [][Next]_vars

-----------------------------------------------------------------------------
\* Ending an account's sessions is final: no request is served, and no refresh
\* granted, on the strength of a sign-in from before the last end, however
\* sign-ins, rotations and their two transactions interleave with it.
SessionsEnd ==
  /\ \A t \in Tabs : Accepted(t) => access[t].era = ends
  /\ \A k \in Tokens :
       Good(token[k]) /\ active /\ token[k].grant.ver = version => token[k].grant.era = ends

\* A session that passes for verified by a second factor was verified by the one
\* the account has now. The exceptions are a secret replaced while the factor was
\* on, which the unlocked read of POST /api/auth/mfa/setup lets happen, and one
\* that a ticket from before the factor was turned off passed before it was on.
VerifiedStanding ==
  overrun \/ \A t \in Tabs : Accepted(t) /\ access[t].mfa => access[t].factor = factor

\* Tabs of one browser never leave its cookie with a token that was rotated
\* away, unless the token that replaces it is on its way, or its answer was lost.
CookieIsFresh ==
  \A b \in Browsers \ lost :
    LET k == cookie[b] IN
      (k # None /\ token[k] # None /\ token[k].rotated) =>
        \E t \in Tabs : BrowserOf[t] = b /\ call[t] # None /\ call[t].op \in {"issue", "answer"}
=============================================================================
