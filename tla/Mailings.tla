-------------------------------- MODULE Mailings -------------------------------
(***************************************************************************)
(* One generated document and the letters that carry it.                   *)
(*                                                                         *)
(* A request to post reads the document, has the address verified, writes  *)
(* the mailing's row, asks the provider for the letter with up to Attempts *)
(* tries under a key made from the row, and writes the answer: four steps, *)
(* each committed before the next. The provider's events come as webhooks, *)
(* in any order and more than once.                                        *)
(***************************************************************************)
EXTENDS Naturals

CONSTANTS Clerks,       \* requests under way at once
          None,
          MaxMailings,  \* bound on the mailings begun
          Attempts,     \* sendLetter: attempts
          Days          \* bound on the clock

VARIABLES
  doc,      \* generated_documents.status
  post,     \* post[c]: what c's request is at, for which mailing, its attempts
  row,      \* document_mailings: status, whether provider_id is set, its dates
  letter,   \* letter[m]: how many letters the provider has made for m
  carrier,  \* what has happened to m's letter
  today
vars == <<doc, post, row, letter, carrier, today>>

Mailings == 1 .. MaxMailings
Idle == [at |-> "idle", mailing |-> None, tries |-> 0]
NoRow == [status |-> "none", known |-> FALSE, delivered |-> 0, returned |-> 0]
Happenings == {"rendered", "mailed", "processed", "delivered", "returned", "failed"}

TypeOK ==
  /\ doc \in {"none", "draft", "served", "void"}
  /\ post \in [Clerks -> [at : {"idle", "allowed", "queued", "posted", "refused", "completing"},
                          mailing : Mailings \cup {None}, tries : 0 .. Attempts]]
  /\ row \in [Mailings -> [status : {"none", "queued", "submitted", "in_transit", "delivered",
                                     "returned", "failed"},
                           known : BOOLEAN, delivered : 0 .. Days, returned : 0 .. Days]]
  /\ letter \in [Mailings -> 0 .. Attempts]
  /\ carrier \in [Mailings -> SUBSET Happenings]
  /\ today \in 1 .. Days

Init ==
  /\ doc = "none" /\ post = [c \in Clerks |-> Idle]
  /\ row = [m \in Mailings |-> NoRow] /\ letter = [m \in Mailings |-> 0]
  /\ carrier = [m \in Mailings |-> {}] /\ today = 1

-----------------------------------------------------------------------------
\* POST /api/generated-documents, its problems mended and its warnings accepted.
Generate ==
  /\ doc = "none" /\ doc' = "draft"
  /\ UNCHANGED <<post, row, letter, carrier, today>>

\* POST .../complete reads the status, and then writes by id alone.
CompleteReads(c) ==
  /\ post[c] = Idle /\ doc \in {"draft", "served"}
  /\ post' = [post EXCEPT ![c].at = "completing"]
  /\ UNCHANGED <<doc, row, letter, carrier, today>>
CompleteWrites(c) ==
  /\ post[c].at = "completing"
  /\ doc' = "served" /\ post' = [post EXCEPT ![c] = Idle]
  /\ UNCHANGED <<row, letter, carrier, today>>

\* POST .../void, one conditional UPDATE.
Void ==
  /\ doc \notin {"none", "void"} /\ doc' = "void"
  /\ UNCHANGED <<post, row, letter, carrier, today>>

-----------------------------------------------------------------------------
\* canMail, and everything else that is checked before a penny moves.
Allowed(c) ==
  /\ post[c] = Idle /\ doc \notin {"none", "void"}
  /\ post' = [post EXCEPT ![c].at = "allowed"]
  /\ UNCHANGED <<doc, row, letter, carrier, today>>

\* The row exists before the letter does.
Queue(c, m) ==
  /\ post[c].at = "allowed"
  /\ row[m].status = "none" /\ (m > 1 => row[m - 1].status # "none")
  /\ row' = [row EXCEPT ![m].status = "queued"]
  /\ post' = [post EXCEPT ![c].at = "queued", ![c].mailing = m]
  /\ UNCHANGED <<doc, letter, carrier, today>>

\* What the provider makes of a request under m's key.
\* Mutant: the key is not the row's, and each attempt makes a letter.
MadeAgain(m) == letter[m] + 1
Made(m) == 1

\* sendLetter, one attempt: answered; refused; or no answer, the letter made or not.
\* The provider does not refuse what it has already made.
Answered(c) ==
  /\ post[c].at = "queued"
  /\ letter' = [letter EXCEPT ![post[c].mailing] = Made(post[c].mailing)]
  /\ post' = [post EXCEPT ![c].at = "posted"]
  /\ UNCHANGED <<doc, row, carrier, today>>
Refused(c) ==
  /\ post[c].at = "queued" /\ letter[post[c].mailing] = 0
  /\ post' = [post EXCEPT ![c].at = "refused"]
  /\ UNCHANGED <<doc, row, letter, carrier, today>>
TimesOut(c) ==
  /\ post[c].at = "queued"
  /\ \E reached \in BOOLEAN :
       letter' = IF reached THEN [letter EXCEPT ![post[c].mailing] = Made(post[c].mailing)]
                 ELSE letter
  /\ post' = [post EXCEPT ![c].tries = @ + 1,
                          ![c].at = IF post[c].tries + 1 = Attempts THEN "refused" ELSE "queued"]
  /\ UNCHANGED <<doc, row, carrier, today>>

\* Either answer is written down, each by the row's id.
RecordSubmitted(c) ==
  /\ post[c].at = "posted"
  /\ row' = [row EXCEPT ![post[c].mailing].status = "submitted", ![post[c].mailing].known = TRUE]
  /\ post' = [post EXCEPT ![c] = Idle]
  /\ UNCHANGED <<doc, letter, carrier, today>>
RecordFailed(c) ==
  /\ post[c].at = "refused"
  /\ row' = [row EXCEPT ![post[c].mailing].status = "failed"]
  /\ post' = [post EXCEPT ![c] = Idle]
  /\ UNCHANGED <<doc, letter, carrier, today>>
\* The server goes down; nothing picks a queued row up again.
Crash(c) ==
  /\ post[c] # Idle /\ post' = [post EXCEPT ![c] = Idle]
  /\ UNCHANGED <<doc, row, letter, carrier, today>>

-----------------------------------------------------------------------------
\* The letter travels: a letter may come back even after it was delivered.
Before(h) == CASE h = "rendered" -> {} [] h \in {"mailed", "failed"} -> {"rendered"}
               [] h = "processed" -> {"mailed"} [] OTHER -> {"processed"}
Travel(m, h) ==
  /\ letter[m] > 0 /\ h \notin carrier[m] /\ Before(h) \subseteq carrier[m]
  /\ carrier[m] \cap {"returned", "failed"} = {}
  /\ carrier' = [carrier EXCEPT ![m] = @ \cup {h}]
  /\ UNCHANGED <<doc, post, row, letter, today>>

\* mapEventType.
\* Mutant: being out for delivery is taken for delivery.
HopefulStatus(h) == CASE h = "rendered" -> "submitted" [] h \in {"returned", "failed"} -> h
                      [] h = "mailed" -> "in_transit" [] OTHER -> "delivered"
Status(h) == CASE h = "rendered" -> "submitted" [] h \in {"mailed", "processed"} -> "in_transit"
               [] OTHER -> h
\* The first time we were told is the time that matters.
\* Mutant: the latest is.
LatestTime(told) == today
FirstTime(told) == IF told = 0 THEN today ELSE told

\* POST /api/webhooks/lob. An event of a letter no row knows is answered and lost;
\* any event may come late, or again.
LobEvent(m, h) ==
  /\ h \in carrier[m] /\ row[m].known
  /\ row' = [row EXCEPT
       ![m].status = Status(h),
       ![m].delivered = IF Status(h) = "delivered" THEN FirstTime(@) ELSE @,
       ![m].returned = IF Status(h) = "returned" THEN FirstTime(@) ELSE @]
  /\ UNCHANGED <<doc, post, letter, carrier, today>>

Tick ==
  /\ today < Days /\ today' = today + 1
  /\ UNCHANGED <<doc, post, row, letter, carrier>>

Next ==
  \/ Generate \/ Void \/ Tick
  \/ \E c \in Clerks : \/ CompleteReads(c) \/ CompleteWrites(c) \/ Allowed(c)
                       \/ \E m \in Mailings : Queue(c, m)
                       \/ Answered(c) \/ Refused(c) \/ TimesOut(c)
                       \/ RecordSubmitted(c) \/ RecordFailed(c) \/ Crash(c)
  \/ \E m \in Mailings, h \in Happenings : Travel(m, h) \/ LobEvent(m, h)
Spec == Init /\ [][Next]_vars

-----------------------------------------------------------------------------
\* However often the request for a letter is repeated, one mailing is one letter.
OneLetterEach == \A m \in Mailings : letter[m] <= 1

\* No "false proof of service": a date of delivery, or of return, is there only if
\* the letter was delivered, or came back, and the letter is of this mailing.
NoFalseProof ==
  \A m \in Mailings : /\ row[m].delivered # 0 => "delivered" \in carrier[m]
                      /\ row[m].returned # 0 => "returned" \in carrier[m]
                      /\ row[m].known => letter[m] > 0

\* "A redelivered event cannot move a delivery date that is already recorded",
\* nor can any other event, early or late.
FirstDateStands ==
  [][\A m \in Mailings : /\ row[m].delivered # 0 => row'[m].delivered = row[m].delivered
                         /\ row[m].returned # 0 => row'[m].returned = row[m].returned]_vars
=============================================================================
