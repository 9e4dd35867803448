------------------------------ MODULE Agency -------------------------------
(***************************************************************************)
(* The client of one agency's interface (Accela) and the retries under it. *)
(* Calls share one token: whoever finds none asks for it, and who comes    *)
(* while it is asked for waits for the same answer. A call that is refused *)
(* for its token drops the one the client holds and tries once more. Reads *)
(* are repeated when the agency is busy or out of reach; a write is sent   *)
(* once, for "a repeated POST here books a second inspection".             *)
(*                                                                         *)
(* The agency is modelled from what the client allows for: it honours the  *)
(* last token it issued until it revokes it, it may do what it was asked   *)
(* and its answer be lost, and it may answer anything.                     *)
(***************************************************************************)
EXTENDS Naturals

CONSTANTS Checks,    \* calls that read a permit's record, then its inspections
          Writes,    \* calls that book an inspection or post a comment
          Attempts,  \* requestWithRetry: how often a read is sent
          None

VARIABLES
  held,      \* the client's token: one the agency honours, or one it no longer does
  asking,    \* attempts of the token request in flight, or None
  call,      \* how far each call is
  took       \* how often the agency carried each write out
vars == <<held, asking, call, took>>

Calls == Checks \cup Writes
Tokens == {"good", "stale"}
Outcome == {"success", "not_found", "auth", "rate_limited", "transport", "api"}
\* What comes back of a request: "busy" is a status worth another try, "fault" any
\* other, an envelope that reports one or a body that is no JSON.
Reply == {"done", "nothing", "unauthorized", "forbidden", "missing", "limited", "busy",
          "fault", "lost"}

Idle == [at |-> "idle", token |-> None, tries |-> 0, sends |-> 0, again |-> FALSE,
         reply |-> None, part |-> "record", outcome |-> None]
\* A record, then its inspections, each asked for with two tokens at most.
MaxSends == 4 * Attempts

TypeOK ==
  /\ held \in Tokens \cup {None}
  /\ asking \in 1 .. Attempts \cup {None}
  /\ call \in [Calls -> [at : {"idle", "waits", "sent", "back", "ended"},
                         token : Tokens \cup {None}, tries : 0 .. Attempts,
                         sends : 0 .. MaxSends + 1, again : BOOLEAN, reply : Reply \cup {None},
                         part : {"record", "inspections"},
                         outcome : Outcome \cup {None}]]
  /\ took \in [Writes -> 0 .. 3]

Init ==
  /\ held = None /\ asking = None
  /\ call = [c \in Calls |-> Idle]
  /\ took = [w \in Writes |-> 0]

At(c, place) == call[c].at = place
Ended(outcome) == [Idle EXCEPT !.at = "ended", !.outcome = outcome]

-----------------------------------------------------------------------------
\* getToken: one request for everybody. It starts with no await in between.
Asked == IF asking = None THEN 1 ELSE asking
\* Where a call goes on that has t to go on with.
Goes(state, t) ==
  IF t = None THEN [state EXCEPT !.at = "waits", !.token = None, !.reply = None]
  ELSE [state EXCEPT !.at = "sent", !.token = t, !.tries = 1, !.sends = @ + 1, !.reply = None]
GetsToken(c, state, t) ==
  /\ call' = [call EXCEPT ![c] = Goes(state, t)]
  /\ asking' = IF t = None THEN Asked ELSE asking

Begin(c) ==
  /\ At(c, "idle")
  /\ GetsToken(c, call[c], held)
  /\ UNCHANGED <<held, took>>

\* requestToken's answer goes to every call that waits for it.
Waiting(c) == At(c, "waits")
AllFail(outcome) ==
  /\ call' = [c \in Calls |-> IF Waiting(c) THEN Ended(outcome) ELSE call[c]]
  /\ asking' = None
  /\ UNCHANGED held

\* The agency honours the last token it issued, so the ones before it are stale.
Stale(state) == [state EXCEPT !.token = IF @ = None THEN None ELSE "stale"]
TokenArrives ==
  /\ asking # None /\ asking' = None
  /\ held' = "good"
  /\ call' = [c \in Calls |-> IF Waiting(c) THEN Goes(call[c], "good") ELSE Stale(call[c])]
  /\ UNCHANGED took
\* Out of reach or busy, with a token issued or not: the request is repeated,
\* "a repeat produces another valid token and changes nothing else".
TokenRepeats ==
  /\ asking # None /\ asking < Attempts /\ asking' = asking + 1
  /\ \/ UNCHANGED <<held, call>>
     \/ /\ held' = IF held = None THEN None ELSE "stale"
        /\ call' = [c \in Calls |-> Stale(call[c])]
  /\ UNCHANGED took
TokenFails ==
  /\ asking = Attempts
  /\ \E outcome \in {"transport", "api"} : AllFail(outcome)
  /\ UNCHANGED took
TokenRefused ==
  /\ asking # None
  /\ \E outcome \in {"auth", "api"} : AllFail(outcome)
  /\ UNCHANGED took

\* expiresAtMs has passed, or the agency revokes what it issued.
TokenExpires ==
  /\ held # None /\ held' = None
  /\ UNCHANGED <<asking, call, took>>
TokenRevoked ==
  /\ held' = IF held = None THEN None ELSE "stale"
  /\ call' = [c \in Calls |-> Stale(call[c])]
  /\ UNCHANGED <<asking, took>>

-----------------------------------------------------------------------------
\* The agency looks at the token first and does nothing for one it does not honour.
Answers(c) ==
  IF call[c].token = "stale" THEN {"unauthorized", "busy", "lost"} ELSE Reply \ {"unauthorized"}
\* What may have been carried out: nothing that was refused.
MayDo(reply) == reply \in {"done", "nothing", "fault", "lost"}
Handles(c) ==
  /\ At(c, "sent")
  /\ \E reply \in Answers(c) :
       /\ call' = [call EXCEPT ![c].at = "back", ![c].reply = reply]
       /\ \/ reply \notin {"done", "nothing"} /\ UNCHANGED took
          \/ /\ c \in Writes /\ call[c].token = "good" /\ MayDo(reply)
             /\ took' = [took EXCEPT ![c] = @ + 1]
          \/ c \in Checks /\ UNCHANGED took
  /\ UNCHANGED <<held, asking>>

\* Mutant: whatever failed is sent again.
RepeatsAll(c) ==
  /\ call[c].reply \in {"limited", "busy", "lost"}
  /\ call[c].tries < Attempts
\* requestWithRetry: only a safe method is repeated, and so often.
Repeats(c) ==
  /\ c \in Checks
  /\ call[c].reply \in {"limited", "busy", "lost"}
  /\ call[c].tries < Attempts
\* A 401 is met with a fresh token, once.
Refreshes(c) == call[c].reply = "unauthorized" /\ ~call[c].again

SendAgain(c) ==
  /\ At(c, "back") /\ Repeats(c)
  /\ call' = [call EXCEPT ![c].at = "sent", ![c].tries = @ + 1,
                            ![c].sends = @ + 1, ![c].reply = None]
  /\ UNCHANGED <<held, asking, took>>

\* The token is dropped, whoever's it is by now, and the call begins again.
Refresh(c) ==
  /\ At(c, "back") /\ Refreshes(c)
  /\ held' = None
  /\ GetsToken(c, [call[c] EXCEPT !.again = TRUE], None)
  /\ UNCHANGED took

\* Mutant: an answer that was lost is taken for a refusal.
KindOfStatus(reply) ==
  CASE reply \in {"unauthorized", "forbidden", "lost"} -> "auth"
    [] reply = "missing" -> "not_found"
    [] reply = "limited" -> "rate_limited"
    [] OTHER -> "api"
\* call's error kinds.
Kind(reply) ==
  CASE reply \in {"unauthorized", "forbidden"} -> "auth"
    [] reply = "missing" -> "not_found"
    [] reply = "limited" -> "rate_limited"
    [] reply = "lost" -> "transport"
    [] OTHER -> "api"
\* checkPermitStatus: inspections are fetched where they exist, and "a failed
\* inspection fetch must not discard a good status read".
Closes(c) ==
  LET reply == call[c].reply IN
  IF call[c].part = "inspections" \/ reply = "done" THEN "success"
  ELSE IF reply = "nothing" THEN (IF c \in Writes THEN "success" ELSE "not_found")
  ELSE Kind(reply)
Receives(c) ==
  /\ At(c, "back") /\ ~Repeats(c) /\ ~Refreshes(c)
  /\ \/ call' = [call EXCEPT ![c] = Ended(Closes(c))] /\ UNCHANGED asking
     \/ /\ c \in Checks /\ call[c].part = "record" /\ call[c].reply = "done"
        /\ GetsToken(c, [call[c] EXCEPT !.part = "inspections", !.again = FALSE,
                                        !.tries = 0], held)
  /\ UNCHANGED <<held, took>>

Next ==
  \/ \E c \in Calls :
       Begin(c) \/ Handles(c) \/ SendAgain(c) \/ Refresh(c) \/ Receives(c)
  \/ TokenArrives \/ TokenRepeats \/ TokenFails \/ TokenRefused \/ TokenExpires \/ TokenRevoked

Spec == Init /\ [][Next]_vars

-----------------------------------------------------------------------------
\* No write is carried out twice, however its answers and its token fare.
WrittenOnce == \A w \in Writes : took[w] <= 1

\* The kind of a failure can be relied on: a write the agency refused was not
\* carried out, and one reported done was.
KindsAreTrue ==
  \A w \in Writes :
    /\ call[w].outcome \in {"not_found", "rate_limited", "auth"} => took[w] = 0
    /\ call[w].outcome = "success" => took[w] = 1

\* A token is asked for on behalf of somebody, and everybody who waits is waiting
\* for the one request there is.
AskedForSomebody == (asking # None) = \E c \in Calls : Waiting(c)

\* "Once, not in a loop": every call is given up after so many requests, whatever
\* becomes of its tokens.
CallsGiveUp == \A c \in Calls : call[c].sends <= MaxSends
=============================================================================
