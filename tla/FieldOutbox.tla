----------------------------- MODULE FieldOutbox -----------------------------
(***************************************************************************)
(* The outbox of the supervisor's phone: what a field screen writes to      *)
(* IndexedDB before sending it (web/src/lib/fieldQueue.ts), the pages that   *)
(* drain it (web/src/pages/FieldVisits.tsx) and the three routes that get   *)
(* it (src/routes/compat/supervision.ts).                                   *)
(*                                                                         *)
(* A flush reads the outbox once and then sends, action by action, what it   *)
(* read.  Several pages may be open; each runs one flush at a time.  An      *)
(* action may reach the server without its answer reaching the phone.       *)
(***************************************************************************)
EXTENDS Integers, FiniteSets

CONSTANTS
  Pages,      \* open tabs of the field screen
  Actions,    \* ids of field actions; they are numbers, in the order of createdAt
  VisitOf,    \* VisitOf[a]: the visit of an action
  KindOf,     \* KindOf[a]: "check-in", "photo" or "sign-off"
  Required,   \* required_photo_count of a visit
  MaxSends    \* bound: times an action is sent

VARIABLES
  outbox,     \* outbox[a]: "absent", "waiting" or "blocked"
  made,       \* the actions enqueued so far
  discarded,  \* those a person has decided to abandon
  page,       \* page[p]: the flush that p runs
  sends,      \* sends[a]: times a was sent
  landed,     \* landed[a]: times the server carried a out
  refused,    \* actions the server ever refused for good
  evidence,   \* evidence[v]: photographs of v that reached the server through /v1
  closed,     \* visits the server has signed off
  ours        \* visits the server has assigned to the supervisor of the phone

phone == <<outbox, made, discarded>>
server == <<sends, landed, refused, evidence, closed, ours>>
vars == <<phone, page, server>>

Visits == {VisitOf[a] : a \in Actions}

\* A flush: what it read and has not dealt with, the visits it has stalled, the
\* action it has sent, and how that ended.
Resting == [at |-> "resting", list |-> {}, stalled |-> {}, action |-> 0, answer |-> "none"]

Init ==
  /\ outbox = [a \in Actions |-> "absent"]
  /\ made = {}
  /\ discarded = {}
  /\ page = [p \in Pages |-> Resting]
  /\ sends = [a \in Actions |-> 0]
  /\ landed = [a \in Actions |-> 0]
  /\ refused = {}
  /\ evidence = [v \in Visits |-> 0]
  /\ closed = {}
  /\ ours = Visits

Photos(v) == {a \in Actions : VisitOf[a] = v /\ KindOf[a] = "photo"}

CheckedIn(v) ==
  \E a \in Actions : VisitOf[a] = v /\ KindOf[a] = "check-in" /\ landed[a] > 0

-----------------------------------------------------------------------------
\* The office activates the engagement again under another supervisor, who gets
\* its open visits, or under this one.
Reassign(v) ==
  /\ v \notin closed
  /\ ours' = IF v \in ours THEN ours \ {v} ELSE ours \cup {v}
  /\ UNCHANGED <<phone, page, sends, landed, refused, evidence, closed>>

\* A photograph is added through /v1, by whoever is not on this screen.
Attach(v) ==
  /\ v \notin closed
  /\ evidence[v] < Required
  /\ evidence' = [evidence EXCEPT ![v] = @ + 1]
  /\ UNCHANGED <<phone, page, sends, landed, refused, closed, ours>>

\* The screen offers a sign-off when the photographs on the phone and those on
\* the server are enough.
Offered(a) ==
  KindOf[a] = "sign-off" =>
    evidence[VisitOf[a]] + Cardinality({b \in Photos(VisitOf[a]) : outbox[b] # "absent"})
      >= Required

Enqueue(a) ==
  /\ a \notin made
  /\ \A b \in Actions : b < a => b \in made
  /\ Offered(a)
  /\ made' = made \cup {a}
  /\ outbox' = [outbox EXCEPT ![a] = "waiting"]
  /\ UNCHANGED <<discarded, page, server>>

\* The buttons of a blocked action.
Discard(a) ==
  /\ outbox[a] = "blocked"
  /\ outbox' = [outbox EXCEPT ![a] = "absent"]
  /\ discarded' = discarded \cup {a}
  /\ UNCHANGED <<made, page, server>>

Retry(a) ==
  /\ outbox[a] = "blocked"
  /\ outbox' = [outbox EXCEPT ![a] = "waiting"]
  /\ UNCHANGED <<made, discarded, page, server>>

\* drain: on opening the page, on coming online, after an enqueue, on demand.
\* What is blocked when it is read is passed over, and stalls nothing.
Drain(p) ==
  /\ page[p] = Resting
  /\ LET list == {a \in Actions : outbox[a] = "waiting"}
     IN /\ list # {}
        /\ page' = [page EXCEPT ![p] = [Resting EXCEPT !.at = "flushing", !.list = list]]
  /\ UNCHANGED <<phone, server>>

\* Mutant: a visit is never stalled.
NeverStalled(p, a) == a \in page[p].list

\* Every action of a stalled visit is passed over.
ToSend(p, a) ==
  /\ a \in page[p].list
  /\ VisitOf[a] \notin page[p].stalled

\* The oldest of what is left of the flush.
NextUp(p, a) == ToSend(p, a) /\ \A b \in page[p].list : b < a => ~ToSend(p, b)

Flushing(p) == page[p].at = "flushing"

\* The visit is one the server lets the supervisor of the phone work on.
Workable(a) == VisitOf[a] \notin closed /\ VisitOf[a] \in ours

\* The server would carry the action out. It would carry out no photograph: the
\* row of an upload through /api is refused (Documents!InlineCommits), so that
\* a photograph fails with 500 for as long as its visit can be worked on.
Accepted(a) ==
  /\ Workable(a)
  /\ KindOf[a] # "photo"
  /\ KindOf[a] = "sign-off" => CheckedIn(VisitOf[a]) /\ evidence[VisitOf[a]] >= Required

Awaits(p, a, answer) ==
  page' = [page EXCEPT ![p].at = "sent", ![p].action = a, ![p].answer = answer]

\* The request is carried out; its answer may be lost on the way.
SendLands(p, a) ==
  /\ Flushing(p)
  /\ NextUp(p, a)
  /\ sends[a] < MaxSends
  /\ Accepted(a)
  /\ sends' = [sends EXCEPT ![a] = @ + 1]
  /\ landed' = [landed EXCEPT ![a] = @ + 1]
  /\ closed' = IF KindOf[a] = "sign-off" THEN closed \cup {VisitOf[a]} ELSE closed
  /\ \E answer \in {"ok", "lost"} : Awaits(p, a, answer)
  /\ UNCHANGED <<phone, refused, evidence, ours>>

\* The server answers 4xx, or the answer is lost.
SendRefused(p, a) ==
  /\ Flushing(p)
  /\ NextUp(p, a)
  /\ sends[a] < MaxSends
  /\ ~Accepted(a)
  /\ KindOf[a] = "photo" => ~Workable(a)
  /\ sends' = [sends EXCEPT ![a] = @ + 1]
  /\ \/ Awaits(p, a, "refused") /\ refused' = refused \cup {a}
     \/ Awaits(p, a, "lost") /\ UNCHANGED refused
  /\ UNCHANGED <<phone, landed, evidence, closed, ours>>

\* No signal, 408, 429 or 5xx: nothing is carried out.
SendFails(p, a) ==
  /\ Flushing(p)
  /\ NextUp(p, a)
  /\ Awaits(p, a, "lost")
  /\ UNCHANGED <<phone, server>>

\* Mutant: whatever was sent is removed.
RemoveSent(p) == page[p].answer \in {"ok", "lost"}

Confirmed(p) == page[p].answer = "ok"

\* The flush goes on to what is left, with stalled as its stalled visits.
GoesOn(p, stalled) ==
  page' = [page EXCEPT ![p] = [Resting EXCEPT
    !.at = "flushing",
    !.list = page[p].list \ {page[p].action},
    !.stalled = stalled]]

\* The answer is in: remove the action...
Settle(p) ==
  LET a == page[p].action
  IN /\ page[p].at = "sent"
     /\ Confirmed(p)
     /\ outbox' = [outbox EXCEPT ![a] = "absent"]
     /\ GoesOn(p, page[p].stalled)
     /\ UNCHANGED <<made, discarded, server>>

\* Mutant: the answer is stored as it came.
Answer(p) == page[p].answer

\* A 4xx other than 408 and 429 is for a person to look at.
Verdict(p) == IF page[p].answer = "refused" THEN "blocked" ELSE "waiting"

\* ...or put it back, as it was read, and leave the rest of its visit.
PutBack(p) ==
  LET a == page[p].action
  IN /\ page[p].at = "sent"
     /\ ~Confirmed(p)
     /\ outbox' = [outbox EXCEPT ![a] = Verdict(p)]
     /\ GoesOn(p, page[p].stalled \cup {VisitOf[a]})
     /\ UNCHANGED <<made, discarded, server>>

FlushEnds(p) ==
  /\ Flushing(p)
  /\ \A a \in Actions : ~ToSend(p, a)
  /\ page' = [page EXCEPT ![p] = Resting]
  /\ UNCHANGED <<phone, server>>

\* The page is closed or reloaded, at any point.
Reload(p) ==
  /\ page[p] # Resting
  /\ page' = [page EXCEPT ![p] = Resting]
  /\ UNCHANGED <<phone, server>>

-----------------------------------------------------------------------------
Next ==
  \/ \E a \in Actions : Enqueue(a) \/ Discard(a) \/ Retry(a)
  \/ \E v \in Visits : Reassign(v) \/ Attach(v)
  \/ \E p \in Pages :
       \/ Drain(p) \/ Settle(p) \/ PutBack(p) \/ FlushEnds(p) \/ Reload(p)
       \/ \E a \in Actions : SendLands(p, a) \/ SendRefused(p, a) \/ SendFails(p, a)

Spec == Init /\ [][Next]_vars

-----------------------------------------------------------------------------
\* Every variable has its type.
TypeOK ==
  /\ outbox \in [Actions -> {"absent", "waiting", "blocked"}]
  /\ made \subseteq Actions
  /\ discarded \subseteq made
  /\ page \in [Pages ->
       [at : {"resting", "flushing", "sent"}, list : SUBSET Actions, stalled : SUBSET Visits,
        action : Actions \cup {0}, answer : {"none", "ok", "lost", "refused"}]]
  /\ sends \in [Actions -> 0..MaxSends]
  /\ landed \in [Actions -> 0..MaxSends]
  /\ refused \subseteq made
  /\ evidence \in [Visits -> 0..Required]
  /\ closed \subseteq Visits
  /\ ours \subseteq Visits

\* An action stays on the phone until the server has confirmed it: whatever the
\* network and the tabs do, each action made is in the outbox, has been carried
\* out, or was discarded by a person.
NothingIsLost ==
  \A a \in made : outbox[a] # "absent" \/ landed[a] > 0 \/ a \in discarded

\* An action is on its way only if every earlier action of its visit has been
\* carried out or has been refused for good at some time.
OnlyRefusalsAreSkipped ==
  \A p \in Pages : page[p].at = "sent" =>
    \A b \in made :
      b < page[p].action /\ VisitOf[b] = VisitOf[page[p].action] => landed[b] > 0 \/ b \in refused
=============================================================================
