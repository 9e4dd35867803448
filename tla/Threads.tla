------------------------------- MODULE Threads -------------------------------
(***************************************************************************)
(* A thread of messages between a contractor's people and the staff: what  *)
(* is posted, who is shown and told of it, its counters, and the feed of   *)
(* notifications that is read a page at a time while more come in. A row   *)
(* has the time at which its transaction began; a cursor gives it to the   *)
(* millisecond.                                                            *)
(***************************************************************************)
EXTENDS Naturals, FiniteSets, FiniteSetsExt

CONSTANTS Contractors,   \* the people of the company
          Staff,
          Reader,        \* the person whose thread and feed are looked at
          Shown,         \* the messages a thread shows at most
          MaxTime        \* bound on the transactions that begin

VARIABLES
  thread,   \* "none", "open" or "closed", its closing, its count and last message
  messages, \* when each began, whose it is, and whether it is a note for the staff
  active,   \* the members of the company whose membership is active
  posting,  \* posting[p]: the request of p that has found the thread open
  bell,     \* the notifications: for whom, and when
  shown,    \* the messages the reader was last shown
  feed,     \* the cursor of the reader's feed, what he has had of it, what there was
            \* when he began, and whether there is more
  now
vars == <<thread, messages, active, posting, bell, shown, feed, now>>

People == Contractors \cup Staff
Times == 0 .. MaxTime
NotPosting == [on |-> FALSE, at |-> 0, internal |-> FALSE]
\* Of two instants, the first begins a millisecond.
ToTheMillisecond(t) == t - (t % 2)
Message == [at : Times, by : People, internal : BOOLEAN]
Newest(S) == Max({m.at : m \in S} \cup {0})

TypeOK ==
  /\ thread \in [state : {"none", "open", "closed"}, closing : Times, count : Nat, last : Times]
  /\ messages \subseteq Message /\ active \subseteq People
  /\ posting \in [People -> [on : BOOLEAN, at : Times, internal : BOOLEAN]]
  /\ bell \subseteq [to : People, at : Times]
  /\ shown \subseteq Message
  /\ feed \in [at : 0 .. MaxTime + 1, got : SUBSET Times, began : SUBSET Times, more : BOOLEAN]
  /\ now \in Times

Init ==
  /\ thread = [state |-> "none", closing |-> 0, count |-> 0, last |-> 0]
  /\ messages = {} /\ active = People /\ bell = {}
  /\ posting = [p \in People |-> NotPosting] /\ shown = {}
  /\ feed = [at |-> 0, got |-> {}, began |-> {}, more |-> FALSE] /\ now = 0

-----------------------------------------------------------------------------
Begins == now < MaxTime /\ now' = now + 1
\* Only the staff write notes for themselves.
MayWrite(p, internal) == internal => p \in Staff

\* bump_thread_counters. Mutant: the last message is the one written last.
BumpedByLast(m) == [thread EXCEPT !.count = @ + 1, !.last = m.at]
Bumped(m) == [thread EXCEPT !.count = @ + 1, !.last = Max({@, m.at})]

\* POST /v1/threads. Nobody is told of the first message.
OpenThread(p, internal) ==
  /\ thread.state = "none" /\ MayWrite(p, internal) /\ Begins
  /\ messages' = {[at |-> now, by |-> p, internal |-> internal]}
  /\ thread' = [state |-> "open", closing |-> 0, count |-> 1, last |-> now]
  /\ UNCHANGED <<active, posting, bell, shown, feed>>

\* POST /v1/threads/:threadId/messages: the thread is read without a lock, and the
\* message, its count and the notifications are written in the same transaction.
\* Mutant: a closed thread takes messages.
AnyThread == thread.state # "none"
OpenOne == thread.state = "open"
Look(p, internal) ==
  /\ OpenOne /\ ~posting[p].on /\ MayWrite(p, internal) /\ Begins
  /\ posting' = [posting EXCEPT ![p] = [on |-> TRUE, at |-> now, internal |-> internal]]
  /\ UNCHANGED <<thread, messages, active, bell, shown, feed>>
Recipients(p) == active \ {p}
\* Mutant: everybody is told of the staff's notes.
TellsOfNotes(p, m) == bell \cup {[to |-> u, at |-> m.at] : u \in Recipients(p)}
Tells(p, m) == IF m.internal THEN bell
               ELSE bell \cup {[to |-> u, at |-> m.at] : u \in Recipients(p)}
Reply(p) ==
  /\ posting[p].on /\ posting' = [posting EXCEPT ![p] = NotPosting]
  /\ LET m == [at |-> posting[p].at, by |-> p, internal |-> posting[p].internal] IN
       /\ messages' = messages \cup {m} /\ thread' = Bumped(m) /\ bell' = Tells(p, m)
  /\ UNCHANGED <<active, shown, feed, now>>
RollBack(p) ==
  /\ posting[p].on /\ posting' = [posting EXCEPT ![p] = NotPosting]
  /\ UNCHANGED <<thread, messages, active, bell, shown, feed, now>>
\* POST /v1/threads/:threadId/close
Close ==
  /\ thread.state = "open" /\ Begins
  /\ thread' = [thread EXCEPT !.state = "closed", !.closing = now]
  /\ UNCHANGED <<messages, active, posting, bell, shown, feed>>

\* GET /v1/threads/:threadId/messages: the oldest, those for the staff left out by
\* the query. Mutant: the staff's notes are shown too.
AllOfThem(p) == messages
MayRead(p) == {m \in messages : p \in Staff \/ ~m.internal}
Read ==
  /\ thread.state # "none"
  /\ LET mine == MayRead(Reader)
         older(m) == {n \in mine : n.at < m.at}
     IN shown' = {m \in mine : Cardinality(older(m)) < Shown}
  /\ UNCHANGED <<thread, messages, active, posting, bell, feed, now>>

\* GET /v1/notifications, newest first and one to a page.
Feed == {b.at : b \in {n \in bell : n.to = Reader}}
\* Mutant: the cursor is of the row beyond the page, which was read to see if there
\* is one.
NextBeyond ==
  LET rest == {t \in Feed : t < ToTheMillisecond(feed.at)}
  IN {t \in rest : \E u \in rest : t < u}
NextPage == {t \in Feed : t < ToTheMillisecond(feed.at)}
Had(rows, got, began) ==
  feed' = IF rows = {} THEN [at |-> 0, got |-> got, began |-> began, more |-> FALSE]
          ELSE [at |-> Max(rows), got |-> got \cup {Max(rows)}, began |-> began,
                more |-> Cardinality(rows) > 1]
FirstPage ==
  /\ ~feed.more /\ Had(Feed, {}, Feed)
  /\ UNCHANGED <<thread, messages, active, posting, bell, shown, now>>
MorePages ==
  /\ feed.more /\ Had(NextPage, feed.got, feed.began)
  /\ UNCHANGED <<thread, messages, active, posting, bell, shown, now>>

\* A member of the company leaves, or comes back.
SwitchMember(p) ==
  /\ active' = (IF p \in active THEN active \ {p} ELSE active \cup {p})
  /\ UNCHANGED <<thread, messages, posting, bell, shown, feed, now>>

Next ==
  \/ \E p \in People :
       \/ \E internal \in BOOLEAN : OpenThread(p, internal) \/ Look(p, internal)
       \/ Reply(p) \/ RollBack(p)
  \/ \E p \in Contractors \ {Reader} : SwitchMember(p)
  \/ Close \/ Read \/ FirstPage \/ MorePages

Spec == Init /\ [][Next]_vars

-----------------------------------------------------------------------------
\* "Keep the thread's denormalised counters honest": whatever the order in which
\* messages that were begun side by side are written.
CountersHonest == thread.count = Cardinality(messages) /\ thread.last = Newest(messages)

\* A note among the staff is shown to nobody else, and nobody is told of it.
NotesStayInside ==
  /\ Reader \notin Staff => \A m \in shown : ~m.internal
  /\ \A b \in bell : \A m \in messages : m.at = b.at => ~m.internal /\ m.by # b.to

\* After a thread is closed it gets no message but those begun before.
ClosedStays == thread.state = "closed" => \A m \in messages : m.at < thread.closing

\* Who reads to the end of the feed has had all there was when he began, whatever
\* came meanwhile; but for those of the millisecond in which a page ended.
PagesHold ==
  ~feed.more => \A t \in feed.began \ feed.got :
    \E u \in feed.got : t < u /\ ToTheMillisecond(t) = ToTheMillisecond(u)

ThreadsRight == CountersHonest /\ NotesStayInside /\ ClosedStays /\ PagesHold
=============================================================================
