----------------------------- MODULE Retainers ------------------------------
(***************************************************************************)
(* One contractor's subscription, the onboarding it has paid for and the   *)
(* compliance retainer held for it.                                        *)
(*                                                                         *)
(* A plan change and a release read the subscription and the ledger's      *)
(* balance without a lock, and add to them afterwards.                     *)
(***************************************************************************)
EXTENDS Integers, FiniteSetsExt

CONSTANTS Staff,     \* people, each with one request at a time
          MaxHeld,   \* bound on what is held
          None

VARIABLES
  plan,        \* subscriptions.plan_key of the live one, None if there is none
  paid,        \* onboarding_paid_cents
  top,         \* the highest onboarding fee of the plans it has been on
  held,        \* retainer_balance_cents: the sum of the ledger
  waiting,     \* subscription_changes that require an approval not given yet
  asked,       \* what each person's request has read
  overlapped   \* two requests have been under way at once
vars == <<plan, paid, top, held, waiting, asked, overlapped>>

Plans == {"OWN_LICENSE", "ONE_TRADE", "TWO_TRADES"}
Fee == [OWN_LICENSE |-> 0, ONE_TRADE |-> 2, TWO_TRADES |-> 3]
Retainer == [OWN_LICENSE |-> 0, ONE_TRADE |-> 1, TWO_TRADES |-> 3]

TypeOK ==
  /\ plan \in Plans \cup {None}
  /\ paid \in 0 .. 3 * Fee.TWO_TRADES /\ top \in {Fee[p] : p \in Plans}
  /\ held \in -MaxHeld .. MaxHeld
  /\ waiting \in BOOLEAN
  /\ overlapped \in BOOLEAN
  /\ \A s \in Staff : asked[s] # None => asked[s].op \in {"change", "release"}

Init ==
  /\ plan = None /\ paid = 0 /\ top = 0 /\ held = 0 /\ waiting = FALSE
  /\ asked = [s \in Staff |-> None] /\ overlapped = FALSE

\* What each request reads before it writes.
Reading == {[op |-> "change", plan |-> plan, paid |-> paid, held |-> held],
            [op |-> "release", held |-> held]}
Asks(s) ==
  /\ asked[s] = None
  /\ \E request \in Reading : asked' = [asked EXCEPT ![s] = request]
  /\ overlapped' = (overlapped \/ \E t \in Staff : asked[t] # None)
  /\ UNCHANGED <<plan, paid, top, held, waiting>>
Asked(s, op) ==
  /\ asked[s] # None /\ asked[s].op = op
  /\ asked' = [asked EXCEPT ![s] = None]
  /\ UNCHANGED overlapped

-----------------------------------------------------------------------------
\* Mutant: the gap to the plan it is on, at list price.
GapToPlan(s, p) == Max({0, Fee[p] - (IF asked[s].plan = None THEN 0 ELSE Fee[asked[s].plan])})
\* onboardingDueCents: the gap between what was paid and what the plan costs.
OnboardingDue(s, p) == Max({0, Fee[p] - asked[s].paid})

\* POST /api/billing/subscription. A retainer too small is topped up; one too
\* large waits for a person. A negative balance is refused by retainerChange.
ChangePlan(s, p) ==
  /\ Asked(s, "change")
  /\ asked[s].held >= 0 /\ p # asked[s].plan
  /\ asked[s].plan = None => plan = None  \* subscriptions_one_live_per_company
  /\ plan' = p
  /\ paid' = paid + OnboardingDue(s, p)
  /\ top' = Max({top, Fee[p]})
  /\ held' = held + Max({0, Retainer[p] - asked[s].held})
  /\ held' <= MaxHeld
  /\ waiting' = (waiting \/ asked[s].held > Retainer[p])

\* Mutant: what is held is looked at without the amount.
SomethingHeld(s, amount) == asked[s].held > 0
Covered(s, amount) == amount <= asked[s].held
\* POST /api/billing/retainer/release settles every change that was waiting.
Release(s, amount) ==
  /\ Asked(s, "release")
  /\ Covered(s, amount)
  /\ held - amount >= -MaxHeld
  /\ held' = held - amount
  /\ waiting' = FALSE
  /\ UNCHANGED <<plan, paid, top>>

\* A request refused on what it had read.
Drop(s) ==
  /\ asked[s] # None
  /\ asked' = [asked EXCEPT ![s] = None]
  /\ UNCHANGED <<plan, paid, top, held, waiting, overlapped>>

Next == \E s \in Staff :
  \/ Asks(s)
  \/ \E p \in Plans : ChangePlan(s, p)
  \/ \E amount \in 1 .. MaxHeld : Release(s, amount)
  \/ Drop(s)
Spec == Init /\ [][Next]_vars

-----------------------------------------------------------------------------
\* "Nobody pays the full fee twice": however plans go up and down, what was
\* charged for onboarding is the fee of the highest, unless two people changed
\* the plan at once.
OnboardingPaidOnce == overlapped \/ paid = top

\* "Only what is held can be released": the ledger is not overdrawn, unless two
\* people drew on it at once.
NotOverdrawn == overlapped \/ held >= 0
=============================================================================
