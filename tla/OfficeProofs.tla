---------------------------- MODULE OfficeProofs ----------------------------
(***************************************************************************)
(* What the components of MCOffice keep, for any number of people,         *)
(* requests, revisions, letters, versions and calls: what was agreed or    *)
(* attested stands, nothing false is on record, files and rows agree, and  *)
(* what was done on site is not lost. Each has an invariant, a lemma for   *)
(* its first state, one for each step and one for what it gives; the       *)
(* theorems put them together.                                             *)
(***************************************************************************)
EXTENDS MCOffice, TLAPS, FiniteSetTheorems, WellFoundedInduction

\* A set of natural numbers that has a bound has a greatest one.
LEMMA Greatest ==
  ASSUME NEW n \in Nat, NEW T \in SUBSET (0 .. n), T # {}
  PROVE  \E x \in T : \A y \in T : x >= y
<1> DEFINE S == {n - x : x \in T}
<1>1. S \in SUBSET Nat /\ S # {}
  <2>1. \A x \in T : n - x \in Nat
    OBVIOUS
  <2>2. PICK x \in T : TRUE
    OBVIOUS
  <2>3. n - x \in S
    BY <2>2
  <2> QED BY <2>1, <2>3
<1>2. PICK d \in S : \A e \in S : ~ (<<e, d>> \in OpToRel(<, Nat))
  BY <1>1, WFMin, NatLessThanWellFounded
<1>3. \A e \in S : ~ (e < d)
  BY <1>1, <1>2 DEF OpToRel
<1>4. PICK x \in T : d = n - x
  OBVIOUS
<1>5. ASSUME NEW y \in T PROVE x >= y
  BY <1>3, <1>4, <1>5
<1> QED BY <1>4, <1>5

-----------------------------------------------------------------------------
(* Agreements: signature requests.                                         *)

\* What is signed is what has evidence, and one request at most waits.
SigningInv ==
  /\ agreement \in [1 .. MaxRequests ->
                      {"SENT", "VIEWED", "DECLINED", "VOIDED", "none", "SIGNED"}]
  /\ signature \subseteq 1 .. MaxRequests
  /\ opening \in [Pair -> 1 .. MaxRequests \cup {None}]
  /\ \A r \in 1 .. MaxRequests : r \in signature <=> agreement[r] = "SIGNED"
  /\ \A q, r \in 1 .. MaxRequests :
       agreement[q] \in {"SENT", "VIEWED"} /\ agreement[r] \in {"SENT", "VIEWED"} => q = r

\* What a step may do to a request that was signed or withdrawn.
SignedKept ==
  \A r \in 1 .. MaxRequests :
    agreement[r] = "SIGNED" => agreement'[r] = "SIGNED" /\ r \in signature'
RevivedByOpening ==
  \A r \in 1 .. MaxRequests :
    agreement[r] \in {"DECLINED", "VOIDED"} /\ agreement'[r] # agreement[r]
      => agreement'[r] = "VIEWED" /\ \E c \in Pair : opening[c] = r /\ opening'[c] = None

LEMMA SigningInit == Agreement!Init => SigningInv
  BY DEF Agreement!Init, Agreement!Requests, SigningInv

LEMMA SigningStep ==
  SigningInv /\ [Agreement!Next]_signing => SigningInv' /\ SignedKept /\ RevivedByOpening
<1> SUFFICES ASSUME SigningInv, [Agreement!Next]_signing
             PROVE  SigningInv' /\ SignedKept /\ RevivedByOpening
  OBVIOUS
<1> USE DEF SigningInv, SignedKept, RevivedByOpening, Agreement!Requests, Agreement!Open
<1>1. ASSUME NEW r \in 1 .. MaxRequests, Agreement!Send(r)
      PROVE  SigningInv' /\ SignedKept /\ RevivedByOpening
  BY <1>1 DEF Agreement!Send, Agreement!IndexAllows
<1>2. ASSUME NEW r \in 1 .. MaxRequests, Agreement!Sign(r)
      PROVE  SigningInv' /\ SignedKept /\ RevivedByOpening
  BY <1>2 DEF Agreement!Sign, Agreement!Signable
<1>3. ASSUME NEW r \in 1 .. MaxRequests, NEW to \in {"DECLINED", "VOIDED"},
             Agreement!Withdraw(r, to)
      PROVE  SigningInv' /\ SignedKept /\ RevivedByOpening
  BY <1>3 DEF Agreement!Withdraw
<1>4. ASSUME NEW c \in Pair, NEW r \in 1 .. MaxRequests, Agreement!OpenReads(c, r)
      PROVE  SigningInv' /\ SignedKept /\ RevivedByOpening
  BY <1>4 DEF Agreement!OpenReads
<1>5. ASSUME NEW c \in Pair, Agreement!OpenWrites(c)
      PROVE  SigningInv' /\ SignedKept /\ RevivedByOpening
  <2>1. PICK r \in 1 .. MaxRequests : r = opening[c]
    BY <1>5 DEF Agreement!OpenWrites
  <2>2. CASE agreement' = agreement
    BY <1>5, <2>2 DEF Agreement!OpenWrites
  <2>3. CASE /\ agreement' = [agreement EXCEPT ![r] = "VIEWED"]
             /\ Agreement!IndexAllows(r) /\ Agreement!CheckAllows(r)
    BY <1>5, <2>1, <2>3 DEF Agreement!OpenWrites, Agreement!IndexAllows, Agreement!CheckAllows
  <2> QED BY <1>5, <2>1, <2>2, <2>3 DEF Agreement!OpenWrites
<1>6. CASE UNCHANGED signing
  BY <1>6 DEF signing
<1> QED BY <1>1, <1>2, <1>3, <1>4, <1>5, <1>6
        DEF Agreement!Next, Agreement!Decline, Agreement!Void

LEMMA SigningHolds == SigningInv => Agreement!OneOpenRequest
<1> SUFFICES ASSUME SigningInv PROVE Agreement!OneOpenRequest
  OBVIOUS
<1> DEFINE S == {r \in Agreement!Requests : agreement[r] \in Agreement!Open}
<1>1. \A q, r \in S : q = r
  BY DEF SigningInv, Agreement!Requests, Agreement!Open
<1>2. Cardinality(S) <= 1
  <2>1. CASE S = {}
    BY <2>1, FS_EmptySet
  <2>2. CASE S # {}
    <3>1. PICK r \in S : S = {r}
      BY <1>1, <2>2
    <3>2. Cardinality(S) = 1
      BY <3>1, FS_Singleton
    <3> QED BY <3>2
  <2> QED BY <2>1, <2>2
<1>3. Agreement!Cardinality(S) = Cardinality(S)
  BY DEF Agreement!Cardinality, Cardinality
<1> QED BY <1>2, <1>3 DEF Agreement!OneOpenRequest

-----------------------------------------------------------------------------
(* Agreements: notarizations.                                              *)

\* What a step may do to a completed act.
ActKept == act # None /\ act.status = "completed" => OneAct!Fixed(act') = OneAct!Fixed(act)

LEMMA NotaryInit == OneAct!Init => OneAct!ActIsGood
  BY DEF OneAct!Init, OneAct!ActIsGood

\* What is stored is what was there, or a row the table's checks and triggers let in.
LEMMA StoredIsGood ==
  ASSUME NEW new, OneAct!ActIsGood, act' = OneAct!Stored(new)
  PROVE  OneAct!ActIsGood' /\ ActKept
<1>1. PICK stored : stored = OneAct!Finalised(new)
  OBVIOUS
<1>2. CASE act' = act
  BY <1>2 DEF OneAct!ActIsGood, ActKept
<1>3. CASE /\ act' = stored
           /\ stored.status = "completed" => OneAct!CommissionInForce(stored)
           /\ OneAct!Protected(act, stored) /\ OneAct!DatesHold(stored)
  <2>1. OneAct!ActIsGood'
    BY <1>3 DEF OneAct!ActIsGood, OneAct!CommissionInForce, OneAct!DatesHold
  <2>2. ActKept
    BY <1>3 DEF ActKept, OneAct!Protected
  <2> QED BY <2>1, <2>2
<1> QED BY <1>1, <1>2, <1>3 DEF OneAct!Stored

LEMMA NotaryStep == OneAct!ActIsGood /\ [OneAct!Next]_notarizing => OneAct!ActIsGood' /\ ActKept
<1> SUFFICES ASSUME OneAct!ActIsGood, [OneAct!Next]_notarizing
             PROVE  OneAct!ActIsGood' /\ ActKept
  OBVIOUS
<1>1. ASSUME NEW type, NEW scheduled, OneAct!Request(type, scheduled)
      PROVE  OneAct!ActIsGood' /\ ActKept
  BY <1>1 DEF OneAct!Request, OneAct!ActIsGood, ActKept
<1>2. ASSUME NEW c \in Pair, NEW why, OneAct!Reads(c, why)
      PROVE  OneAct!ActIsGood' /\ ActKept
  BY <1>2 DEF OneAct!Reads, OneAct!ActIsGood, ActKept
<1>3. ASSUME NEW c \in Pair, OneAct!Change(c) \/ OneAct!Complete(c)
      PROVE  OneAct!ActIsGood' /\ ActKept
  <2>1. PICK new : act' = OneAct!Stored(new)
    BY <1>3, Zenon DEF OneAct!Change, OneAct!Complete
  <2> QED BY <2>1, StoredIsGood
<1>4. CASE UNCHANGED notarizing
  BY <1>4 DEF notarizing, OneAct!ActIsGood, ActKept
<1> QED BY <1>1, <1>2, <1>3, <1>4 DEF OneAct!Next

-----------------------------------------------------------------------------
(* Agreements: quotes and revisions of an order.                           *)

\* A quote is approved just while its approval is recorded; the revisions submitted
\* so far are the first ones, and the one under review is the newest.
OrderInv ==
  /\ latest \in 0 .. MaxRevisions
  /\ binding = (quote = "approved")
  /\ revision \in [1 .. MaxRevisions ->
                     {"none", "submitted", "superseded", "approved", "rejected"}]
  /\ Order!OneUnderReview

\* What a step may do to an approved price and to a decided revision.
PriceKept == quote = "approved" => price' = price
DecisionKept ==
  \A n \in 1 .. MaxRevisions :
    revision[n] \in {"approved", "rejected"} => revision'[n] = revision[n]

LEMMA OrderInit == Order!Init => OrderInv
<1> SUFFICES ASSUME Order!Init PROVE OrderInv
  OBVIOUS
<1>1. latest = 0 /\ revision = [n \in 1 .. MaxRevisions |-> "none"]
  BY DEF Order!Init, Order!Numbers
<1>2. binding = (quote = "approved")
  BY DEF Order!Init
<1>3. Order!OneUnderReview
  BY <1>1, OrdersAssumption DEF Order!OneUnderReview, Order!Numbers
<1> QED BY <1>1, <1>2, <1>3, OrdersAssumption DEF OrderInv

\* The writes of a quote leave the revisions alone.
LEMMA QuoteWritten ==
  ASSUME OrderInv, NEW p \in Pair,
         Order!QuoteWrites(p) \/ Order!ApproveWrites(p) \/ Order!RejectWrites(p)
  PROVE  OrderInv' /\ PriceKept /\ DecisionKept
<1>1. latest' = latest /\ revision' = revision
  BY DEF Order!QuoteWrites, Order!ApproveWrites, Order!RejectWrites, Order!Asked
<1>2. binding' = (quote' = "approved") /\ PriceKept
  <2>1. CASE Order!QuoteWrites(p)
    BY <2>1 DEF Order!QuoteWrites, Order!QuoteAllowed, Order!Refused, OrderInv, PriceKept
  <2>2. CASE Order!ApproveWrites(p)
    BY <2>2 DEF Order!ApproveWrites, Order!QuoteAllowed, Order!Refused, OrderInv, PriceKept
  <2>3. CASE Order!RejectWrites(p)
    BY <2>3 DEF Order!RejectWrites, OrderInv, PriceKept
  <2> QED BY <2>1, <2>2, <2>3
<1> QED BY <1>1, <1>2 DEF OrderInv, Order!OneUnderReview, Order!Numbers, DecisionKept

LEMMA OrderStep == OrderInv /\ [Order!Next]_ordering => OrderInv' /\ PriceKept /\ DecisionKept
<1> SUFFICES ASSUME OrderInv, [Order!Next]_ordering
             PROVE  OrderInv' /\ PriceKept /\ DecisionKept
  OBVIOUS
<1>1. ASSUME Order!SubmitRevision PROVE OrderInv' /\ PriceKept /\ DecisionKept
  <2>1. /\ latest + 1 \in 1 .. MaxRevisions /\ latest' = latest + 1
        /\ quote' = quote /\ price' = price /\ binding' = binding
        /\ revision' = [n \in 1 .. MaxRevisions |->
             IF n = latest + 1 THEN "submitted" ELSE Order!Supersede(revision[n])]
    BY <1>1, OrdersAssumption DEF Order!SubmitRevision, Order!Numbers, OrderInv
  <2>2. \A n \in 1 .. MaxRevisions : revision[n] \in {"approved", "rejected"} => n # latest + 1
    BY OrdersAssumption DEF OrderInv, Order!OneUnderReview, Order!Numbers
  <2>3. \A n \in 1 .. MaxRevisions :
          /\ revision'[n] = "submitted" => n = latest + 1
          /\ (n <= latest + 1) = (revision'[n] # "none")
          /\ revision'[n] \in {"none", "submitted", "superseded", "approved", "rejected"}
          /\ revision[n] \in {"approved", "rejected"} => revision'[n] = revision[n]
    BY <2>1, <2>2, OrdersAssumption
       DEF Order!Supersede, Order!Undecided, OrderInv, Order!OneUnderReview, Order!Numbers
  <2> QED BY <2>1, <2>3, OrdersAssumption
          DEF OrderInv, Order!OneUnderReview, Order!Numbers, PriceKept, DecisionKept
<1>2. ASSUME NEW n \in 1 .. MaxRevisions, Order!DecideRevision(n)
      PROVE  OrderInv' /\ PriceKept /\ DecisionKept
  <2>1. PICK d \in {"approved", "rejected"} :
          /\ revision' = [revision EXCEPT ![n] = d]
          /\ revision[n] \notin {"none", "approved", "rejected"}
          /\ UNCHANGED <<latest, quote, price, binding>>
    BY <1>2 DEF Order!DecideRevision, Order!Decidable, Order!Decisions
  <2> QED BY <2>1 DEF OrderInv, Order!OneUnderReview, Order!Numbers, PriceKept, DecisionKept
<1>3. CASE UNCHANGED <<latest, quote, price, binding, revision>>
  BY <1>3 DEF OrderInv, Order!OneUnderReview, Order!Numbers, PriceKept, DecisionKept
<1>4. ASSUME NEW p \in Pair, Order!QuoteReads(p) \/ Order!ApproveReads(p) \/ Order!RejectReads(p)
      PROVE  UNCHANGED <<latest, quote, price, binding, revision>>
  BY <1>4 DEF Order!QuoteReads, Order!ApproveReads, Order!RejectReads, Order!Asks
<1>5. \/ Order!Assign \/ \E s \in Order!Status : Order!Move(s)
      \/ \E d \in Drawings : Order!Seal(d)
      \/ \E docs \in SUBSET Drawings \ {{}} : Order!Deliver(docs)
      \/ UNCHANGED ordering
      => UNCHANGED <<latest, quote, price, binding, revision>>
  BY DEF Order!Assign, Order!Move, Order!Seal, Order!Deliver, ordering
<1> QED BY <1>1, <1>2, <1>3, <1>4, <1>5, QuoteWritten DEF Order!Next, Order!Numbers

-----------------------------------------------------------------------------
(* Agreements: letters, and the dates they were delivered or came back.    *)

\* A mailing the provider has answered for has its one letter, and what its row
\* says has happened to that letter has.
LetterRow ==
  [status : {"none", "queued", "submitted", "in_transit", "delivered", "returned", "failed"},
   known : BOOLEAN, delivered : 0 .. Days, returned : 0 .. Days]
LetterPost ==
  [at : {"idle", "allowed", "queued", "posted", "refused", "completing"},
   mailing : 1 .. MaxMailings \cup {None}, tries : 0 .. Attempts]
LetterTyped ==
  /\ row \in [1 .. MaxMailings -> LetterRow]
  /\ letter \in [1 .. MaxMailings -> 0 .. 1]
  /\ carrier \in [1 .. MaxMailings -> SUBSET Letters!Happenings]
  /\ today \in 1 .. Days
  /\ post \in [Pair -> LetterPost]
LetterInv ==
  /\ LetterTyped
  /\ \A c \in Pair :
       /\ post[c].at \in {"queued", "posted", "refused"} => post[c].mailing \in 1 .. MaxMailings
       /\ post[c].at \in {"allowed", "queued"} => post[c].tries < Attempts
       /\ post[c].at = "posted" => letter[post[c].mailing] = 1
  /\ Letters!NoFalseProof

\* What a step may do to a date that is set.
DatesKept ==
  \A m \in 1 .. MaxMailings :
    /\ row[m].delivered # 0 => row'[m].delivered = row[m].delivered
    /\ row[m].returned # 0 => row'[m].returned = row[m].returned

LEMMA LetterInit == Letters!Init => LetterInv
<1> SUFFICES ASSUME Letters!Init PROVE LetterInv
  OBVIOUS
<1>1. LetterTyped
  BY DaysAssumption DEF Letters!Init, Letters!Mailings, Letters!NoRow, Letters!Idle,
     LetterTyped, LetterRow, LetterPost
<1>2. /\ \A c \in Pair : post[c].at = "idle"
      /\ Letters!NoFalseProof
  BY DEF Letters!Init, Letters!Mailings, Letters!NoRow, Letters!Idle, Letters!NoFalseProof
<1> QED BY <1>1, <1>2 DEF LetterInv

LEMMA LetterHolds == LetterInv => Letters!OneLetterEach /\ Letters!NoFalseProof
  BY DEF LetterInv, LetterTyped, Letters!OneLetterEach, Letters!Mailings

\* The request for a letter: nothing of a row's dates or of a letter's travel changes.
LetterAsked(c) ==
  \/ Letters!CompleteReads(c) \/ Letters!CompleteWrites(c) \/ Letters!Allowed(c)
  \/ \E m \in 1 .. MaxMailings : Letters!Queue(c, m)
  \/ Letters!Answered(c) \/ Letters!Refused(c) \/ Letters!TimesOut(c)
  \/ Letters!RecordSubmitted(c) \/ Letters!RecordFailed(c) \/ Letters!Crash(c)

\* A request's own record changes, and nothing else that is of interest.
LEMMA PostChanges ==
  ASSUME LetterInv, NEW c \in Pair, NEW p \in LetterPost,
         post' = [post EXCEPT ![c] = p], UNCHANGED <<row, letter, carrier, today>>,
         p.at \in {"queued", "posted", "refused"} => p.mailing \in 1 .. MaxMailings,
         p.at \in {"allowed", "queued"} => p.tries < Attempts,
         p.at = "posted" => letter[p.mailing] = 1
  PROVE  LetterInv' /\ DatesKept
<1>1. LetterTyped'
  BY DEF LetterInv, LetterTyped
<1>2. Letters!NoFalseProof'
  BY DEF LetterInv, Letters!NoFalseProof
<1>3. \A d \in Pair :
        /\ post'[d].at \in {"queued", "posted", "refused"} => post'[d].mailing \in 1 .. MaxMailings
        /\ post'[d].at \in {"allowed", "queued"} => post'[d].tries < Attempts
        /\ post'[d].at = "posted" => letter'[post'[d].mailing] = 1
  BY DEF LetterInv, LetterTyped
<1> QED BY <1>1, <1>2, <1>3 DEF LetterInv, DatesKept

\* A letter is made, at most one, while the request changes.
LEMMA LetterMade ==
  ASSUME LetterInv, NEW c \in Pair, NEW p \in LetterPost, NEW m \in 1 .. MaxMailings,
         post' = [post EXCEPT ![c] = p], letter' = [letter EXCEPT ![m] = 1],
         UNCHANGED <<row, carrier, today>>, p.mailing = m,
         p.at \in {"allowed", "queued"} => p.tries < Attempts
  PROVE  LetterInv' /\ DatesKept
<1>1. LetterTyped'
  BY DEF LetterInv, LetterTyped
<1>2. Letters!NoFalseProof'
  BY DEF LetterInv, LetterTyped, Letters!NoFalseProof, Letters!Mailings
<1>3. \A d \in Pair :
        /\ post'[d].at \in {"queued", "posted", "refused"} => post'[d].mailing \in 1 .. MaxMailings
        /\ post'[d].at \in {"allowed", "queued"} => post'[d].tries < Attempts
        /\ post'[d].at = "posted" => letter'[post'[d].mailing] = 1
  BY DEF LetterInv, LetterTyped
<1> QED BY <1>1, <1>2, <1>3 DEF LetterInv, DatesKept

\* A row is written, its dates as they were or first set to what has happened.
LEMMA RowWritten ==
  ASSUME LetterInv, NEW m \in 1 .. MaxMailings, NEW r \in LetterRow,
         row' = [row EXCEPT ![m] = r], UNCHANGED <<letter, carrier, today>>,
         post' \in [Pair -> LetterPost],
         \A d \in Pair : post'[d] = post[d] \/ post'[d] = Letters!Idle
                         \/ (post'[d].at = "queued" /\ post'[d].tries < Attempts
                               /\ post'[d].mailing \in 1 .. MaxMailings),
         row[m].delivered # 0 => r.delivered = row[m].delivered,
         row[m].returned # 0 => r.returned = row[m].returned,
         r.delivered # 0 => row[m].delivered # 0 \/ "delivered" \in carrier[m],
         r.returned # 0 => row[m].returned # 0 \/ "returned" \in carrier[m],
         r.known => letter[m] > 0
  PROVE  LetterInv' /\ DatesKept
<1>1. LetterTyped'
  BY DEF LetterInv, LetterTyped
<1>2. Letters!NoFalseProof'
  BY DEF LetterInv, LetterTyped, Letters!NoFalseProof, Letters!Mailings
<1>3. \A d \in Pair :
        /\ post'[d].at \in {"queued", "posted", "refused"} => post'[d].mailing \in 1 .. MaxMailings
        /\ post'[d].at \in {"allowed", "queued"} => post'[d].tries < Attempts
        /\ post'[d].at = "posted" => letter'[post'[d].mailing] = 1
  BY DEF LetterInv, LetterTyped, Letters!Idle
<1>4. DatesKept
  BY DEF LetterInv, LetterTyped, DatesKept
<1> QED BY <1>1, <1>2, <1>3, <1>4 DEF LetterInv

LEMMA IdlePost == Letters!Idle \in LetterPost /\ Letters!Idle.at = "idle"
  BY DaysAssumption DEF Letters!Idle, LetterPost

LEMMA LetterAskedStep ==
  ASSUME LetterInv, NEW c \in Pair, LetterAsked(c)
  PROVE  LetterInv' /\ DatesKept
<1>0. PICK p \in LetterPost : p = post[c]
  BY DEF LetterInv, LetterTyped
<1>1. CASE Letters!CompleteReads(c) \/ Letters!Allowed(c)
  <2>1. PICK at \in {"completing", "allowed"} :
          /\ post' = [post EXCEPT ![c].at = at] /\ UNCHANGED <<row, letter, carrier, today>>
          /\ p.tries = 0
    BY <1>0, <1>1 DEF Letters!CompleteReads, Letters!Allowed, Letters!Idle
  <2>2. PICK q \in LetterPost : q = [p EXCEPT !.at = at]
    BY <2>1 DEF LetterPost
  <2>3. post' = [post EXCEPT ![c] = q] /\ q.at = at /\ q.tries = 0
    BY <1>0, <2>1, <2>2 DEF LetterPost
  <2>4. /\ q.at \notin {"queued", "posted", "refused"} /\ q.tries < Attempts
        /\ UNCHANGED <<row, letter, carrier, today>>
    BY <2>1, <2>3, DaysAssumption
  <2> QED BY <2>3, <2>4, PostChanges
<1>2. CASE Letters!CompleteWrites(c) \/ Letters!Crash(c)
  BY <1>2, IdlePost, PostChanges DEF Letters!CompleteWrites, Letters!Crash
<1>3. ASSUME NEW m \in 1 .. MaxMailings, Letters!Queue(c, m) PROVE LetterInv' /\ DatesKept
  <2>1. PICK r \in LetterRow : r = [row[m] EXCEPT !.status = "queued"]
    <3>1. row[m] \in LetterRow
      BY DEF LetterInv, LetterTyped
    <3> QED BY <3>1 DEF LetterRow
  <2>2. row' = [row EXCEPT ![m] = r] /\ r.delivered = row[m].delivered
        /\ r.returned = row[m].returned /\ r.known = row[m].known
    BY <1>3, <2>1 DEF Letters!Queue, LetterInv, LetterTyped, LetterRow
  <2>3. PICK q \in LetterPost : q = [p EXCEPT !.at = "queued", !.mailing = m]
    BY DEF LetterPost
  <2>4. post' = [post EXCEPT ![c] = q] /\ q.at = "queued" /\ q.mailing = m /\ q.tries = p.tries
    BY <1>0, <1>3, <2>3 DEF Letters!Queue, LetterPost
  <2>5. q.tries < Attempts
    BY <1>0, <1>3, <2>4 DEF Letters!Queue, LetterInv
  <2>6. /\ \A d \in Pair : post'[d] = post[d] \/ (d = c /\ post'[d] = q)
        /\ post' \in [Pair -> LetterPost]
    BY <2>4 DEF LetterInv, LetterTyped
  <2>7. row[m].known => letter[m] > 0
    BY DEF LetterInv, Letters!NoFalseProof, Letters!Mailings
  <2>8. UNCHANGED <<letter, carrier, today>>
    BY <1>3 DEF Letters!Queue
  <2> HIDE DEF LetterInv
  <2> QED BY <2>2, <2>4, <2>5, <2>6, <2>7, <2>8, RowWritten
<1>4. CASE Letters!Answered(c)
  <2>1. p.mailing \in 1 .. MaxMailings
    BY <1>0, <1>4 DEF Letters!Answered, LetterInv
  <2>2. PICK q \in LetterPost : q = [p EXCEPT !.at = "posted"]
    BY DEF LetterPost
  <2>3. post' = [post EXCEPT ![c] = q] /\ q.at = "posted" /\ q.mailing = p.mailing
    BY <1>0, <1>4, <2>2 DEF Letters!Answered, LetterPost
  <2>4. letter' = [letter EXCEPT ![p.mailing] = 1] /\ UNCHANGED <<row, carrier, today>>
    BY <1>0, <1>4 DEF Letters!Answered, Letters!Made
  <2> QED BY <2>1, <2>3, <2>4, LetterMade
<1>5. CASE Letters!Refused(c)
  <2>1. PICK q \in LetterPost : q = [p EXCEPT !.at = "refused"]
    BY DEF LetterPost
  <2>2. post' = [post EXCEPT ![c] = q] /\ q.at = "refused" /\ q.mailing = p.mailing
    BY <1>0, <1>5, <2>1 DEF Letters!Refused, LetterPost
  <2>3. p.mailing \in 1 .. MaxMailings /\ UNCHANGED <<row, letter, carrier, today>>
    BY <1>0, <1>5 DEF Letters!Refused, LetterInv
  <2> QED BY <2>2, <2>3, PostChanges
<1>6. CASE Letters!TimesOut(c)
  <2>1. p.mailing \in 1 .. MaxMailings /\ p.tries < Attempts /\ p.tries \in 0 .. Attempts
    BY <1>0, <1>6 DEF Letters!TimesOut, LetterInv, LetterPost
  <2>2. PICK at \in {"refused", "queued"} :
          /\ at = IF p.tries + 1 = Attempts THEN "refused" ELSE "queued"
          /\ post' = [post EXCEPT ![c].tries = @ + 1, ![c].at = at]
    BY <1>0, <1>6 DEF Letters!TimesOut
  <2>3. PICK q \in LetterPost : q = [p EXCEPT !.tries = p.tries + 1, !.at = at]
    <3>1. p.tries + 1 \in 0 .. Attempts
      BY <2>1, DaysAssumption
    <3> QED BY <3>1 DEF LetterPost
  <2>4. q.at = at /\ q.mailing = p.mailing /\ q.tries = p.tries + 1
    BY <2>3 DEF LetterPost
  <2>5. post' = [post EXCEPT ![c] = q]
    BY <1>0, <2>2, <2>3 DEF LetterPost
  <2>6. q.at = "queued" => q.tries < Attempts
    BY <2>1, <2>2, <2>4, DaysAssumption
  <2>7. UNCHANGED <<row, carrier, today>>
        /\ (letter' = letter \/ letter' = [letter EXCEPT ![p.mailing] = 1])
    BY <1>0, <1>6 DEF Letters!TimesOut, Letters!Made
  <2> QED BY <2>1, <2>2, <2>4, <2>5, <2>6, <2>7, LetterMade, PostChanges
<1>7. CASE Letters!RecordSubmitted(c) \/ Letters!RecordFailed(c)
  <2>1. PICK m \in 1 .. MaxMailings : m = p.mailing
    BY <1>0, <1>7 DEF Letters!RecordSubmitted, Letters!RecordFailed, LetterInv
  <2>2. /\ post' = [post EXCEPT ![c] = Letters!Idle] /\ UNCHANGED <<letter, carrier, today>>
        /\ \/ /\ row' = [row EXCEPT ![m].status = "submitted", ![m].known = TRUE]
              /\ letter[m] > 0
           \/ row' = [row EXCEPT ![m].status = "failed"]
    BY <1>0, <1>7, <2>1 DEF Letters!RecordSubmitted, Letters!RecordFailed, LetterInv
  <2>3. PICK r \in LetterRow :
          /\ r.delivered = row[m].delivered /\ r.returned = row[m].returned
          /\ r.known => row[m].known \/ letter[m] > 0
          /\ row' = [row EXCEPT ![m] = r]
    <3>1. row[m] \in LetterRow
      BY DEF LetterInv, LetterTyped
    <3>2. [row[m] EXCEPT !.status = "submitted", !.known = TRUE] \in LetterRow
          /\ [row[m] EXCEPT !.status = "failed"] \in LetterRow
      BY <3>1 DEF LetterRow
    <3> QED BY <2>2, <3>1, <3>2 DEF LetterRow
  <2>4. row[m].known => letter[m] > 0
    BY DEF LetterInv, Letters!NoFalseProof, Letters!Mailings
  <2>5. /\ \A d \in Pair : post'[d] = post[d] \/ post'[d] = Letters!Idle
        /\ post' \in [Pair -> LetterPost]
    BY <2>2, IdlePost DEF LetterInv, LetterTyped
  <2> HIDE DEF LetterInv
  <2> QED BY <2>2, <2>3, <2>4, <2>5, RowWritten
<1> QED BY <1>1, <1>2, <1>3, <1>4, <1>5, <1>6, <1>7 DEF LetterAsked

LEMMA LetterStep == LetterInv /\ [Letters!Next]_mailing => LetterInv' /\ DatesKept
<1> SUFFICES ASSUME LetterInv, [Letters!Next]_mailing PROVE LetterInv' /\ DatesKept
  OBVIOUS
<1>1. ASSUME UNCHANGED <<post, row, letter, carrier>>, today' \in 1 .. Days
      PROVE  LetterInv' /\ DatesKept
  BY <1>1 DEF LetterInv, LetterTyped, DatesKept, Letters!NoFalseProof, Letters!Mailings
<1>2. Letters!Generate \/ Letters!Void \/ Letters!Tick \/ UNCHANGED mailing
      => UNCHANGED <<post, row, letter, carrier>> /\ today' \in 1 .. Days
  BY DaysAssumption
     DEF Letters!Generate, Letters!Void, Letters!Tick, mailing, LetterInv, LetterTyped
<1>3. ASSUME NEW m \in 1 .. MaxMailings, NEW h \in Letters!Happenings, Letters!Travel(m, h)
      PROVE  LetterInv' /\ DatesKept
  <2>1. UNCHANGED <<post, row, letter, today>>
        /\ carrier' = [carrier EXCEPT ![m] = @ \cup {h}]
    BY <1>3 DEF Letters!Travel
  <2>2. LetterTyped'
    BY <2>1 DEF LetterInv, LetterTyped
  <2>3. Letters!NoFalseProof'
    BY <2>1 DEF LetterInv, LetterTyped, Letters!NoFalseProof, Letters!Mailings
  <2> QED BY <2>1, <2>2, <2>3 DEF LetterInv, DatesKept
<1>4. ASSUME NEW m \in 1 .. MaxMailings, NEW h \in Letters!Happenings, Letters!LobEvent(m, h)
      PROVE  LetterInv' /\ DatesKept
  <2>1. PICK old \in LetterRow : old = row[m]
    BY DEF LetterInv, LetterTyped
  <2>2. PICK s, delivered, returned :
          /\ row' = [row EXCEPT ![m].status = s, ![m].delivered = delivered,
                                ![m].returned = returned]
          /\ s = Letters!Status(h)
          /\ delivered = IF s = "delivered" THEN Letters!FirstTime(old.delivered)
                         ELSE old.delivered
          /\ returned = IF s = "returned" THEN Letters!FirstTime(old.returned)
                        ELSE old.returned
    BY <1>4, <2>1 DEF Letters!LobEvent
  <2>3. /\ s \in {"submitted", "in_transit", "delivered", "returned", "failed"}
        /\ s = "delivered" => h = "delivered"
        /\ s = "returned" => h = "returned"
    BY <2>2 DEF Letters!Status, Letters!Happenings
  <2>4. /\ delivered \in 0 .. Days /\ returned \in 0 .. Days
        /\ old.delivered # 0 => delivered = old.delivered
        /\ old.returned # 0 => returned = old.returned
        /\ delivered # 0 => old.delivered # 0 \/ s = "delivered"
        /\ returned # 0 => old.returned # 0 \/ s = "returned"
    BY <2>1, <2>2, DaysAssumption DEF Letters!FirstTime, LetterInv, LetterTyped, LetterRow
  <2>5. PICK r \in LetterRow :
          r = [old EXCEPT !.status = s, !.delivered = delivered, !.returned = returned]
    BY <2>1, <2>3, <2>4 DEF LetterRow
  <2>6. r.delivered = delivered /\ r.returned = returned /\ r.known = old.known
        /\ row' = [row EXCEPT ![m] = r]
    BY <2>1, <2>2, <2>5 DEF LetterInv, LetterTyped, LetterRow
  <2>7. old.known => letter[m] > 0
    BY <2>1 DEF LetterInv, Letters!NoFalseProof, Letters!Mailings
  <2>8. UNCHANGED <<post, letter, carrier, today>> /\ h \in carrier[m]
    BY <1>4 DEF Letters!LobEvent
  <2>9. post' \in [Pair -> LetterPost]
    BY <2>8 DEF LetterInv, LetterTyped
  <2> HIDE DEF LetterInv
  <2> QED BY <2>1, <2>3, <2>4, <2>6, <2>7, <2>8, <2>9, RowWritten
<1> QED BY <1>1, <1>2, <1>3, <1>4, LetterAskedStep
        DEF Letters!Next, LetterAsked, Letters!Mailings

\* What somebody has agreed to, attested or decided stands, whatever a request does
\* that had read it earlier: signatures, notarized acts, approved prices, decided
\* revisions, and the first date of a delivery.
THEOREM AgreementsAreKept == Spec => AgreementsStand
<1> DEFINE Inv == SigningInv /\ OneAct!ActIsGood /\ OrderInv /\ LetterInv
<1>1. Init => Inv
  <2>1. Init => Agreement!Init /\ OneAct!Init /\ Order!Init /\ Letters!Init
    BY DEF Init
  <2> QED BY <2>1, SigningInit, NotaryInit, OrderInit, LetterInit
<1>2. Inv /\ [Next]_all =>
        /\ Inv' /\ [SignedKept]_<<agreement, signature>> /\ [RevivedByOpening]_agreement
        /\ [ActKept]_notarizing /\ [PriceKept]_<<quote, price>> /\ [DecisionKept]_revision
        /\ [DatesKept]_mailing
  <2>1. [Next]_all => /\ [Agreement!Next]_signing /\ [OneAct!Next]_notarizing
                      /\ [Order!Next]_ordering /\ [Letters!Next]_mailing
    BY DEF Next, all
  <2> QED BY <2>1, SigningStep, NotaryStep, OrderStep, LetterStep
<1> HIDE DEF Inv
<1> QED
  BY <1>1, <1>2, PTL DEF Spec, AgreementsStand, Agreement!SignedStands,
     Agreement!WithdrawnByMistake, OneAct!ActStands, Order!PriceStands, Order!DecisionStands,
     Letters!FirstDateStands, SignedKept, RevivedByOpening, ActKept, PriceKept, DecisionKept,
     DatesKept, Agreement!Requests, Agreement!Withdrawn, Order!Numbers, Order!Decisions,
     Letters!Mailings, OneAct!vars, Letters!vars, notarizing, mailing

-----------------------------------------------------------------------------
(* The calls of an agency: each write once, each call given up in time.    *)

CallRow ==
  [at : {"idle", "waits", "sent", "back", "ended"}, token : Calls!Tokens \cup {None},
   tries : 0 .. Attempts, sends : Nat, again : BOOLEAN, reply : Calls!Reply \cup {None},
   part : {"record", "inspections"}, outcome : Calls!Outcome \cup {None}]

\* What was sent before the token at hand: Attempts for each token and part.
Before(s) ==
  (IF s.part = "inspections" THEN 2 * Attempts ELSE 0) + (IF s.again THEN Attempts ELSE 0)

\* A call has sent no more than its parts and tokens allow for.
GoodCall(s) ==
  /\ s.at \in {"idle", "ended"} => s.sends = 0
  /\ s.at = "waits" => s.sends <= Before(s)
  /\ s.at \in {"sent", "back"} => s.sends <= Before(s) + s.tries
  /\ s.at \in {"sent", "back"} => s.token \in Calls!Tokens
  /\ s.at = "back" => s.reply \in Calls!Reply
  /\ s.at # "ended" => s.outcome = None

\* A write was carried out n times: not before its answer is back, and then as it says.
GoodWrite(s, n) ==
  /\ s.part = "record" /\ n \in 0 .. 1
  /\ s.at \in {"idle", "waits", "sent"} => n = 0
  /\ s.at = "back" =>
       /\ s.reply \in {"done", "nothing"} => n = 1
       /\ s.reply \in {"unauthorized", "forbidden", "missing", "limited", "busy"} => n = 0
  /\ s.outcome \in {"not_found", "rate_limited", "auth"} => n = 0
  /\ s.outcome = "success" => n = 1

CallsInv ==
  /\ token \in Calls!Tokens \cup {None}
  /\ requesting \in 1 .. Attempts \cup {None}
  /\ call \in [Calls!Calls -> CallRow]
  /\ \A c \in Calls!Calls : GoodCall(call[c])
  /\ took \in [Writes -> 0 .. 1]
  /\ \A w \in Writes : GoodWrite(call[w], took[w])
  /\ requesting = None <=> \A c \in Calls!Calls : call[c].at # "waits"

LEMMA IdleCall ==
  /\ Calls!Idle \in CallRow /\ GoodCall(Calls!Idle) /\ GoodWrite(Calls!Idle, 0)
  /\ Calls!Idle.at = "idle"
  BY DaysAssumption, CallsAssumption
     DEF Calls!Idle, CallRow, GoodCall, GoodWrite, Calls!Tokens, Calls!Outcome, Calls!Reply

LEMMA CallsInit == Calls!Init => CallsInv
<1> SUFFICES ASSUME Calls!Init PROVE CallsInv
  OBVIOUS
<1> HIDE DEF CallRow, GoodCall, GoodWrite
<1>1. token = None /\ requesting = None /\ call = [c \in Calls!Calls |-> Calls!Idle]
      /\ took = [w \in Writes |-> 0]
  BY DEF Calls!Init
<1>2. Writes \subseteq Calls!Calls
  BY DEF Calls!Calls
<1> QED BY <1>1, <1>2, IdleCall DEF CallsInv

\* Where a call goes on that has not sent with this token yet.
LEMMA CallGoes ==
  ASSUME NEW s \in CallRow, NEW t \in Calls!Tokens \cup {None}, NEW g,
         g = Calls!Goes(s, t), s.sends <= Before(s), s.outcome = None
  PROVE  /\ g \in CallRow /\ GoodCall(g) /\ g.part = s.part /\ g.outcome = None
         /\ g.at = IF t = None THEN "waits" ELSE "sent"
<1>1. CASE t = None
  BY <1>1, CallsAssumption DEF Calls!Goes, CallRow, GoodCall, Before
<1>2. CASE t # None
  <2>1. g = [s EXCEPT !.at = "sent", !.token = t, !.tries = 1, !.sends = s.sends + 1,
                      !.reply = None]
    BY <1>2 DEF Calls!Goes
  <2>2. g \in CallRow
    <3>1. 1 \in 0 .. Attempts /\ s.sends + 1 \in Nat
      BY DaysAssumption DEF CallRow
    <3>2. t \in Calls!Tokens
      BY <1>2
    <3> QED BY <2>1, <3>1, <3>2 DEF CallRow
  <2>3. /\ g.at = "sent" /\ g.token = t /\ g.tries = 1 /\ g.sends = s.sends + 1
        /\ g.part = s.part /\ g.again = s.again /\ g.outcome = None
    BY <2>1 DEF CallRow
  <2>4. Before(g) = Before(s) /\ Before(s) \in Nat /\ s.sends \in Nat
    BY <2>3, DaysAssumption DEF Before, CallRow
  <2>5. GoodCall(g)
    BY <1>2, <2>3, <2>4 DEF GoodCall
  <2> QED BY <1>2, <2>2, <2>3, <2>5
<1> QED BY <1>1, <1>2

\* A call whose token is not honoured any more is the call it was.
LEMMA CallStale ==
  ASSUME NEW s \in CallRow, GoodCall(s), NEW g, g = Calls!Stale(s)
  PROVE  /\ g \in CallRow /\ GoodCall(g) /\ g.at = s.at
         /\ \A n : GoodWrite(s, n) => GoodWrite(g, n)
<1>1. PICK t \in Calls!Tokens \cup {None} :
        /\ g = [s EXCEPT !.token = t] /\ (s.token # None => t \in Calls!Tokens)
  BY DEF Calls!Stale, Calls!Tokens
<1>2. g \in CallRow /\ GoodCall(g) /\ g.at = s.at
  BY <1>1, CallsAssumption DEF CallRow, GoodCall, Before
<1>3. \A n : GoodWrite(s, n) => GoodWrite(g, n)
  BY <1>1 DEF CallRow, GoodWrite
<1> QED BY <1>2, <1>3

\* One call changes, and the one request for a token is there while somebody waits.
LEMMA CallChanges ==
  ASSUME CallsInv, NEW c \in Calls!Calls, NEW s \in CallRow, GoodCall(s),
         call' = [call EXCEPT ![c] = s], token' \in Calls!Tokens \cup {None},
         took' \in [Writes -> 0 .. 1],
         \A w \in Writes : w # c => took'[w] = took[w],
         c \in Writes => GoodWrite(s, took'[c]),
         \/ s.at = "waits" /\ requesting' \in 1 .. Attempts
         \/ s.at # "waits" /\ call[c].at # "waits" /\ requesting' = requesting
  PROVE  CallsInv'
<1> USE DEF CallsInv
<1> HIDE DEF CallRow, GoodCall, GoodWrite
<1>1. /\ call' \in [Calls!Calls -> CallRow]
      /\ \A d \in Calls!Calls : call'[d] = IF d = c THEN s ELSE call[d]
  OBVIOUS
<1>2. \A d \in Calls!Calls : GoodCall(call'[d])
  BY <1>1
<1>3. \A w \in Writes : GoodWrite(call'[w], took'[w])
  BY <1>1 DEF Calls!Calls
<1>4. requesting' = None <=> \A d \in Calls!Calls : call'[d].at # "waits"
  BY <1>1, CallsAssumption
<1>5. requesting' \in 1 .. Attempts \cup {None}
  OBVIOUS
<1> QED BY <1>1, <1>2, <1>3, <1>4, <1>5

\* A call that has not sent with this token yet gets one, or waits for it.
LEMMA CallGetsToken ==
  ASSUME CallsInv, NEW c \in Calls!Calls, NEW s \in CallRow,
         NEW t \in Calls!Tokens \cup {None}, Calls!GetsToken(c, s, t),
         s.sends <= Before(s), s.outcome = None, call[c].at # "waits",
         c \in Writes => took[c] = 0 /\ s.part = "record",
         token' \in Calls!Tokens \cup {None}, took' = took
  PROVE  CallsInv'
<1>1. PICK g : g = Calls!Goes(s, t)
  OBVIOUS
<1>2. /\ g \in CallRow /\ GoodCall(g) /\ g.part = s.part /\ g.outcome = None
      /\ g.at = IF t = None THEN "waits" ELSE "sent"
  BY <1>1, CallGoes
<1>3. call' = [call EXCEPT ![c] = g]
  BY <1>1 DEF Calls!GetsToken
<1>4. c \in Writes => GoodWrite(g, took'[c])
  BY <1>2, CallsAssumption DEF GoodWrite, Calls!Outcome
<1>5. \/ g.at = "waits" /\ requesting' \in 1 .. Attempts
      \/ g.at # "waits" /\ call[c].at # "waits" /\ requesting' = requesting
  BY <1>2, DaysAssumption DEF Calls!GetsToken, Calls!Asked, CallsInv
<1>6. took' \in [Writes -> 0 .. 1]
  BY DEF CallsInv
<1> HIDE DEF CallRow, GoodCall, GoodWrite
<1> QED BY <1>2, <1>3, <1>4, <1>5, <1>6, CallChanges

\* What is left of a call that has ended.
LEMMA EndedCall ==
  ASSUME NEW outcome \in Calls!Outcome, NEW e, e = Calls!Ended(outcome)
  PROVE  /\ e \in CallRow /\ GoodCall(e) /\ e.at = "ended" /\ e.outcome = outcome
         /\ \A n \in 0 .. 1 : GoodWrite(e, n) <=>
              /\ outcome \in {"not_found", "rate_limited", "auth"} => n = 0
              /\ outcome = "success" => n = 1
<1>1. e = [at |-> "ended", token |-> None, tries |-> 0, sends |-> 0, again |-> FALSE,
           reply |-> None, part |-> "record", outcome |-> outcome]
  BY DEF Calls!Ended, Calls!Idle
<1>2. e \in CallRow
  <2>1. 0 \in 0 .. Attempts
    BY DaysAssumption
  <2> QED BY <1>1, <2>1 DEF CallRow
<1>3. GoodCall(e)
  BY <1>1 DEF GoodCall
<1>4. \A n \in 0 .. 1 : GoodWrite(e, n) <=>
        /\ outcome \in {"not_found", "rate_limited", "auth"} => n = 0
        /\ outcome = "success" => n = 1
  BY <1>1 DEF GoodWrite
<1> QED BY <1>1, <1>2, <1>3, <1>4

\* How the token's request ends, or goes on.
LEMMA TokenSteps ==
  ASSUME CallsInv,
         \/ Calls!TokenArrives \/ Calls!TokenRepeats \/ Calls!TokenFails \/ Calls!TokenRefused
         \/ Calls!TokenExpires \/ Calls!TokenRevoked
  PROVE  CallsInv'
<1> HIDE DEF CallRow, GoodCall, GoodWrite
<1>1. /\ \A c \in Calls!Calls : call[c] \in CallRow /\ GoodCall(call[c])
      /\ \A w \in Writes : w \in Calls!Calls /\ GoodWrite(call[w], took[w])
  BY DEF CallsInv, Calls!Calls
<1>2. \A c \in Calls!Calls :
        LET g == Calls!Stale(call[c])
        IN /\ g \in CallRow /\ GoodCall(g) /\ g.at = call[c].at
           /\ \A n : GoodWrite(call[c], n) => GoodWrite(g, n)
  BY <1>1, CallStale
<1>3. \A c \in Calls!Calls : call[c].at = "waits" =>
        LET g == Calls!Goes(call[c], "good")
        IN /\ g \in CallRow /\ GoodCall(g) /\ g.at = "sent"
           /\ c \in Writes => GoodWrite(g, took[c])
  <2> SUFFICES ASSUME NEW c \in Calls!Calls, call[c].at = "waits",
                      NEW g, g = Calls!Goes(call[c], "good")
               PROVE  /\ g \in CallRow /\ GoodCall(g) /\ g.at = "sent"
                      /\ c \in Writes => GoodWrite(g, took[c])
    OBVIOUS
  <2>1. "good" \in Calls!Tokens \cup {None} /\ "good" # None
    BY CallsAssumption DEF Calls!Tokens
  <2>2. call[c].sends <= Before(call[c]) /\ call[c].outcome = None
    BY <1>1 DEF GoodCall
  <2>3. g \in CallRow /\ GoodCall(g) /\ g.part = call[c].part /\ g.outcome = None /\ g.at = "sent"
    BY <1>1, <2>1, <2>2, CallGoes
  <2>4. c \in Writes => GoodWrite(g, took[c])
    BY <1>1, <2>3, CallsAssumption DEF GoodWrite, Calls!Outcome
  <2> QED BY <2>3, <2>4
<1>4. CASE Calls!TokenArrives
  <2>1. /\ token' = "good" /\ requesting' = None /\ took' = took
        /\ call' = [c \in Calls!Calls |-> IF call[c].at = "waits" THEN Calls!Goes(call[c], "good")
                                          ELSE Calls!Stale(call[c])]
    BY <1>4 DEF Calls!TokenArrives, Calls!Waiting, Calls!At
  <2>2. \A c \in Calls!Calls : call'[c] \in CallRow /\ GoodCall(call'[c]) /\ call'[c].at # "waits"
    BY <1>2, <1>3, <2>1
  <2>3. \A w \in Writes : GoodWrite(call'[w], took[w])
    BY <1>1, <1>2, <1>3, <2>1
  <2>4. token' \in Calls!Tokens \cup {None}
    BY <2>1 DEF Calls!Tokens
  <2> QED BY <2>1, <2>2, <2>3, <2>4 DEF CallsInv
<1> DEFINE AsBefore == /\ token' \in Calls!Tokens \cup {None} /\ took' = took
                       /\ requesting' \in 1 .. Attempts \cup {None}
                       /\ requesting' = None <=> requesting = None
<1>5. CASE AsBefore /\ call' = call
  BY <1>5 DEF CallsInv
<1>6. CASE AsBefore /\ call' = [c \in Calls!Calls |-> Calls!Stale(call[c])]
  <2>1. \A c \in Calls!Calls : /\ call'[c] \in CallRow /\ GoodCall(call'[c])
                               /\ call'[c].at = call[c].at
    BY <1>2, <1>6
  <2>2. \A w \in Writes : GoodWrite(call'[w], took[w])
    BY <1>1, <1>2, <1>6
  <2> QED BY <1>6, <2>1, <2>2 DEF CallsInv
<1>7. ASSUME NEW outcome \in {"transport", "api", "auth"}, Calls!AllFail(outcome), took' = took
      PROVE  CallsInv'
  <2>1. PICK e : e = Calls!Ended(outcome)
    OBVIOUS
  <2>2. e \in CallRow /\ GoodCall(e) /\ e.at = "ended" /\ GoodWrite(e, 0)
    <3>1. outcome \in Calls!Outcome /\ outcome # "success"
      BY DEF Calls!Outcome
    <3> QED BY <2>1, <3>1, EndedCall
  <2>3. /\ call' = [c \in Calls!Calls |-> IF call[c].at = "waits" THEN e ELSE call[c]]
        /\ requesting' = None /\ token' = token
    BY <1>7, <2>1 DEF Calls!AllFail, Calls!Waiting, Calls!At
  <2>4. \A c \in Calls!Calls : /\ call'[c] \in CallRow /\ GoodCall(call'[c])
                               /\ call'[c].at # "waits"
    BY <1>1, <2>2, <2>3
  <2>5. \A w \in Writes : call[w].at = "waits" => took[w] = 0
    BY <1>1 DEF GoodWrite
  <2>6. \A w \in Writes : GoodWrite(call'[w], took[w])
    BY <1>1, <2>2, <2>3, <2>5
  <2> QED BY <1>7, <2>3, <2>4, <2>6 DEF CallsInv
<1>8. CASE Calls!TokenRepeats
  <2>1. /\ requesting # None /\ requesting' # None /\ took' = took
        /\ requesting' \in 1 .. Attempts \cup {None}
    BY <1>8, CallsAssumption, DaysAssumption DEF Calls!TokenRepeats, CallsInv
  <2>2. token' \in Calls!Tokens \cup {None}
    BY <1>8 DEF Calls!TokenRepeats, CallsInv, Calls!Tokens
  <2> QED BY <1>5, <1>6, <1>8, <2>1, <2>2 DEF Calls!TokenRepeats
<1>9. CASE Calls!TokenFails \/ Calls!TokenRefused
  BY <1>7, <1>9 DEF Calls!TokenFails, Calls!TokenRefused
<1>10. CASE Calls!TokenExpires \/ Calls!TokenRevoked
  <2>1. AsBefore
    BY <1>10 DEF Calls!TokenExpires, Calls!TokenRevoked, CallsInv, Calls!Tokens
  <2> QED BY <1>5, <1>6, <1>10, <2>1 DEF Calls!TokenExpires, Calls!TokenRevoked
<1> QED BY <1>4, <1>8, <1>9, <1>10

\* A request is answered: a write was carried out at most now, and as its answer says.
LEMMA CallHandled ==
  ASSUME CallsInv, NEW c \in Calls!Calls, Calls!Handles(c)
  PROVE  CallsInv'
<1> HIDE DEF CallRow, GoodCall, GoodWrite
<1>1. call[c] \in CallRow /\ GoodCall(call[c]) /\ call[c].at = "sent"
  BY DEF CallsInv, Calls!Handles, Calls!At
<1>2. PICK back \in Calls!Answers(c) :
        /\ call' = [call EXCEPT ![c].at = "back", ![c].reply = back]
        /\ \/ back \notin {"done", "nothing"} /\ UNCHANGED took
           \/ /\ c \in Writes /\ call[c].token = "good" /\ Calls!MayDo(back)
              /\ took' = [took EXCEPT ![c] = @ + 1]
           \/ c \in Checks /\ UNCHANGED took
  BY DEF Calls!Handles
<1>3. back \in Calls!Reply /\ back \in Calls!Reply \cup {None}
  BY DEF Calls!Answers, Calls!Reply
<1>4. PICK s : s = [call[c] EXCEPT !.at = "back", !.reply = back]
  OBVIOUS
<1>5. /\ call' = [call EXCEPT ![c] = s] /\ s \in CallRow
      /\ s.at = "back" /\ s.reply = back /\ s.part = call[c].part /\ s.again = call[c].again
      /\ s.sends = call[c].sends /\ s.token = call[c].token /\ s.tries = call[c].tries /\ s.outcome = call[c].outcome
  <2>1. call \in [Calls!Calls -> CallRow]
    BY DEF CallsInv
  <2> QED BY <1>1, <1>2, <1>3, <1>4, <2>1 DEF CallRow
<1>6. GoodCall(s)
  BY <1>1, <1>3, <1>5 DEF GoodCall, Before
<1>7. c \in Writes => /\ took[c] = 0 /\ s.part = "record" /\ s.outcome = None
                      /\ c \notin Checks
  BY <1>1, <1>5, CallsAssumption DEF CallsInv, GoodWrite, GoodCall
<1>8. /\ took' \in [Writes -> 0 .. 1] /\ \A w \in Writes : w # c => took'[w] = took[w]
      /\ c \in Writes =>
           \/ took'[c] = 0 /\ back \notin {"done", "nothing"}
           \/ took'[c] = 1 /\ back \in {"done", "nothing", "fault", "lost"}
  BY <1>2, <1>7 DEF CallsInv, Calls!MayDo
<1>9. c \in Writes => GoodWrite(s, took'[c])
  BY <1>5, <1>7, <1>8, CallsAssumption DEF GoodWrite, Calls!Outcome
<1>10. requesting' = requesting /\ token' \in Calls!Tokens \cup {None}
  BY DEF Calls!Handles, CallsInv
<1>11. s.at # "waits" /\ call[c].at # "waits"
  BY <1>1, <1>5
<1> QED BY <1>5, <1>6, <1>8, <1>9, <1>10, <1>11, CallChanges

\* A read is sent again; a write never is.
LEMMA CallSentAgain ==
  ASSUME CallsInv, NEW c \in Calls!Calls, Calls!SendAgain(c)
  PROVE  CallsInv'
<1> HIDE DEF CallRow, GoodCall, GoodWrite
<1>1. call[c] \in CallRow /\ GoodCall(call[c]) /\ call[c].at = "back" /\ c \notin Writes
      /\ call[c].tries < Attempts
  BY CallsAssumption DEF CallsInv, Calls!SendAgain, Calls!At, Calls!Repeats
<1>2. call[c].tries \in 0 .. Attempts /\ call[c].sends \in Nat
  BY <1>1 DEF CallRow
<1>3. PICK n \in 0 .. Attempts : n = call[c].tries + 1
  BY <1>1, <1>2, DaysAssumption
<1>4. PICK k \in Nat : k = call[c].sends + 1
  BY <1>2
<1>5. PICK s : s = [call[c] EXCEPT !.at = "sent", !.tries = n, !.sends = k, !.reply = None]
  OBVIOUS
<1>6. call' = [call EXCEPT ![c] = s]
  BY <1>3, <1>4, <1>5 DEF Calls!SendAgain
<1>7. /\ s \in CallRow /\ s.at = "sent" /\ s.token = call[c].token /\ s.tries = n
      /\ s.sends = k /\ s.part = call[c].part /\ s.again = call[c].again
      /\ s.outcome = call[c].outcome
  BY <1>1, <1>3, <1>4, <1>5 DEF CallRow
<1>8. GoodCall(s)
  <2>1. Before(s) = Before(call[c]) /\ Before(s) \in Nat
    BY <1>1, <1>7, DaysAssumption DEF Before, CallRow
  <2> QED BY <1>1, <1>2, <1>3, <1>4, <1>7, <2>1 DEF GoodCall
<1>9. /\ requesting' = requesting /\ token' \in Calls!Tokens \cup {None}
      /\ took' = took /\ took' \in [Writes -> 0 .. 1]
  BY DEF Calls!SendAgain, CallsInv
<1>10. s.at # "waits" /\ call[c].at # "waits"
  BY <1>1, <1>7
<1> QED BY <1>1, <1>6, <1>7, <1>8, <1>9, <1>10, CallChanges

\* The agency did not honour the token: the call goes on with another, once.
LEMMA CallRefreshes ==
  ASSUME CallsInv, NEW c \in Calls!Calls, Calls!Refresh(c)
  PROVE  CallsInv'
<1> HIDE DEF CallRow, GoodCall, GoodWrite
<1>1. /\ call[c] \in CallRow /\ GoodCall(call[c]) /\ call[c].at = "back"
      /\ call[c].reply = "unauthorized" /\ call[c].again = FALSE
  BY DEF CallsInv, Calls!Refresh, Calls!At, Calls!Refreshes, CallRow
<1>2. PICK s : s = [call[c] EXCEPT !.again = TRUE]
  OBVIOUS
<1>3. /\ s \in CallRow /\ s.again = TRUE /\ s.part = call[c].part /\ s.sends = call[c].sends
      /\ s.outcome = call[c].outcome
  BY <1>1, <1>2 DEF CallRow
<1>4. s.sends <= Before(s)
  <2>1. s.sends \in Nat /\ call[c].tries \in 0 .. Attempts
    BY <1>1, <1>3 DEF CallRow
  <2>2. Before(s) = Before(call[c]) + Attempts /\ Before(call[c]) \in Nat
    BY <1>1, <1>3, DaysAssumption DEF Before, CallRow
  <2>3. s.sends <= Before(call[c]) + call[c].tries
    BY <1>1, <1>3 DEF GoodCall
  <2> QED BY <2>1, <2>2, <2>3, DaysAssumption
<1>5. c \in Writes => took[c] = 0 /\ s.part = "record"
  BY <1>1, <1>3 DEF CallsInv, GoodWrite
<1>6. /\ Calls!GetsToken(c, s, None) /\ token' \in Calls!Tokens \cup {None} /\ took' = took
  BY <1>2 DEF Calls!Refresh
<1>7. s.outcome = None /\ call[c].at # "waits"
  BY <1>1, <1>3 DEF GoodCall
<1> QED BY <1>3, <1>4, <1>5, <1>6, <1>7, CallGetsToken

\* The call ends with the answer, or goes on to the inspections.
LEMMA CallReceives ==
  ASSUME CallsInv, NEW c \in Calls!Calls, Calls!Receives(c)
  PROVE  CallsInv'
<1> HIDE DEF CallRow, GoodCall, GoodWrite
<1>1. /\ call[c] \in CallRow /\ GoodCall(call[c]) /\ call[c].at = "back"
      /\ took' = took /\ token' = token /\ token \in Calls!Tokens \cup {None}
      /\ took \in [Writes -> 0 .. 1]
  BY DEF CallsInv, Calls!Receives, Calls!At
<1>2. CASE call' = [call EXCEPT ![c] = Calls!Ended(Calls!Closes(c))] /\ requesting' = requesting
  <2>1. PICK outcome : outcome = Calls!Closes(c)
    OBVIOUS
  <2>2. /\ outcome \in Calls!Outcome
        /\ c \in Writes /\ outcome = "success" => call[c].reply \in {"done", "nothing"}
        /\ c \in Writes /\ outcome \in {"not_found", "rate_limited", "auth"} =>
             call[c].reply \in {"unauthorized", "forbidden", "missing", "limited"}
    <3>1. call[c].reply \in Calls!Reply
      BY <1>1 DEF GoodCall
    <3>2. c \in Writes => call[c].part = "record"
      BY DEF CallsInv, GoodWrite
    <3> QED BY <2>1, <3>1, <3>2 DEF Calls!Closes, Calls!Kind, Calls!Outcome, Calls!Reply
  <2>3. PICK e : e = Calls!Ended(outcome)
    OBVIOUS
  <2>4. /\ e \in CallRow /\ GoodCall(e) /\ e.at = "ended"
        /\ \A n \in 0 .. 1 : GoodWrite(e, n) <=>
             /\ outcome \in {"not_found", "rate_limited", "auth"} => n = 0
             /\ outcome = "success" => n = 1
    BY <2>2, <2>3, EndedCall
  <2>5. c \in Writes => GoodWrite(e, took'[c])
    <3> SUFFICES ASSUME c \in Writes PROVE GoodWrite(e, took[c])
      BY <1>1
    <3>1. /\ took[c] \in 0 .. 1
          /\ call[c].reply \in {"done", "nothing"} => took[c] = 1
          /\ call[c].reply \in {"unauthorized", "forbidden", "missing", "limited"} => took[c] = 0
      BY <1>1 DEF CallsInv, GoodWrite
    <3> QED BY <2>2, <2>4, <3>1
  <2>6. call' = [call EXCEPT ![c] = e]
    BY <1>2, <2>1, <2>3
  <2>7. e.at # "waits" /\ call[c].at # "waits"
    BY <1>1, <2>4
  <2> QED BY <1>1, <1>2, <2>4, <2>5, <2>6, <2>7, CallChanges
<1>3. CASE /\ c \in Checks /\ call[c].part = "record"
           /\ Calls!GetsToken(c, [call[c] EXCEPT !.part = "inspections", !.again = FALSE,
                                                 !.tries = 0], token)
  <2>1. PICK s : s = [call[c] EXCEPT !.part = "inspections", !.again = FALSE, !.tries = 0]
    OBVIOUS
  <2>2. /\ s \in CallRow /\ s.part = "inspections" /\ s.again = FALSE
        /\ s.sends = call[c].sends /\ s.outcome = call[c].outcome
    <3>1. 0 \in 0 .. Attempts
      BY DaysAssumption
    <3> QED BY <1>1, <2>1, <3>1 DEF CallRow
  <2>3. s.sends <= Before(s)
    <3>1. s.sends \in Nat /\ call[c].tries \in 0 .. Attempts /\ call[c].again \in BOOLEAN
      BY <1>1, <2>2 DEF CallRow
    <3>2. Before(s) = 2 * Attempts /\ Before(call[c]) \in {0, Attempts}
      BY <1>3, <2>2, <3>1, DaysAssumption DEF Before
    <3>3. s.sends <= Before(call[c]) + call[c].tries
      BY <1>1, <2>2 DEF GoodCall
    <3> QED BY <3>1, <3>2, <3>3, DaysAssumption
  <2>4. c \notin Writes
    BY <1>3, CallsAssumption
  <2>5. s.outcome = None /\ call[c].at # "waits"
    BY <1>1, <2>2 DEF GoodCall
  <2>6. Calls!GetsToken(c, s, token)
    BY <1>3, <2>1
  <2> QED BY <1>1, <2>2, <2>3, <2>4, <2>5, <2>6, CallGetsToken
<1> QED BY <1>2, <1>3 DEF Calls!Receives

LEMMA CallsStep == CallsInv /\ [Calls!Next]_calling => CallsInv'
<1> SUFFICES ASSUME CallsInv, [Calls!Next]_calling PROVE CallsInv'
  OBVIOUS
<1>1. ASSUME NEW c \in Calls!Calls, Calls!Begin(c) PROVE CallsInv'
  <2>1. /\ call[c] \in CallRow /\ call[c].sends = 0 /\ call[c].outcome = None
        /\ call[c].at # "waits" /\ token \in Calls!Tokens \cup {None}
        /\ c \in Writes => took[c] = 0 /\ call[c].part = "record"
    BY <1>1 DEF Calls!Begin, Calls!At, CallsInv, GoodCall, GoodWrite
  <2>2. call[c].sends <= Before(call[c])
    BY <2>1, DaysAssumption DEF Before, CallRow
  <2>3. Calls!GetsToken(c, call[c], token) /\ token' = token /\ took' = took
    BY <1>1 DEF Calls!Begin
  <2> QED BY <2>1, <2>2, <2>3, CallGetsToken
<1>2. CASE UNCHANGED calling
  BY <1>2 DEF calling, CallsInv
<1> QED BY <1>1, <1>2, CallHandled, CallSentAgain, CallRefreshes, CallReceives, TokenSteps
        DEF Calls!Next

LEMMA CallsHold ==
  CallsInv => Calls!WrittenOnce /\ Calls!KindsAreTrue /\ Calls!AskedForSomebody /\ Calls!CallsGiveUp
<1> SUFFICES ASSUME CallsInv
             PROVE  /\ Calls!WrittenOnce /\ Calls!KindsAreTrue
                    /\ Calls!AskedForSomebody /\ Calls!CallsGiveUp
  OBVIOUS
<1>1. Calls!WrittenOnce /\ Calls!KindsAreTrue
  BY DEF CallsInv, GoodWrite, Calls!WrittenOnce, Calls!KindsAreTrue
<1>2. Calls!AskedForSomebody
  BY DEF CallsInv, Calls!AskedForSomebody, Calls!Waiting, Calls!At
<1>3. ASSUME NEW c \in Calls!Calls PROVE call[c].sends <= 4 * Attempts
  <2>1. /\ call[c].sends \in Nat /\ call[c].tries \in 0 .. Attempts
        /\ call[c].at \in {"idle", "waits", "sent", "back", "ended"}
    BY DEF CallsInv, CallRow
  <2>2. Before(call[c]) \in 0 .. 3 * Attempts
    BY DaysAssumption DEF Before
  <2>3. call[c].sends = 0 \/ call[c].sends <= Before(call[c])
        \/ call[c].sends <= Before(call[c]) + call[c].tries
    BY <2>1 DEF CallsInv, GoodCall
  <2> QED BY <2>1, <2>2, <2>3, DaysAssumption
<1> QED BY <1>1, <1>2, <1>3 DEF Calls!CallsGiveUp, Calls!MaxSends

\* Nothing is on record that did not happen so: no letter twice, no delivery of one that
\* was not delivered, no act beyond its notary's commission, no two agreements or
\* revisions open at once; nothing booked twice with an agency, and no failure of a call
\* called by another's name.
THEOREM RecordsAreTrue == Spec => []NoFalseRecord
<1> DEFINE Inv == SigningInv /\ OneAct!ActIsGood /\ OrderInv /\ LetterInv /\ CallsInv
<1>1. Init => Inv
  <2>1. Init => Agreement!Init /\ OneAct!Init /\ Order!Init /\ Letters!Init /\ Calls!Init
    BY DEF Init
  <2> QED BY <2>1, SigningInit, NotaryInit, OrderInit, LetterInit, CallsInit
<1>2. Inv /\ [Next]_all => Inv'
  <2>1. [Next]_all => /\ [Agreement!Next]_signing /\ [OneAct!Next]_notarizing
                      /\ [Order!Next]_ordering /\ [Letters!Next]_mailing
                      /\ [Calls!Next]_calling
    BY DEF Next, all
  <2> QED BY <2>1, SigningStep, NotaryStep, OrderStep, LetterStep, CallsStep
<1>3. Inv => NoFalseRecord
  <2>1. OrderInv => Order!OneUnderReview
    BY DEF OrderInv
  <2> QED BY <2>1, SigningHolds, LetterHolds, CallsHold DEF NoFalseRecord
<1> HIDE DEF Inv
<1> QED BY <1>1, <1>2, <1>3, PTL DEF Spec

-----------------------------------------------------------------------------
(* The versions of a document and their files.                             *)

Last(w) == IF w = "uploads" THEN 1 ELSE MaxVersions

StoreTyped(w) ==
  /\ doc \in {"none", "live", "deleted", "expired", "gone"}
  /\ state \in [1 .. Last(w) -> {"none", "pending", "uploaded", "gone"}]
  /\ number \in [1 .. Last(w) -> Nat] /\ count \in Nat
  /\ current \in 1 .. Last(w) \cup {None} /\ files \subseteq 1 .. Last(w)
  /\ completing \in [Pair -> 1 .. Last(w) \cup {None}]
  /\ purging \in [listed : SUBSET (1 .. Last(w)), deleted : 1 .. Last(w) \cup {None}]

\* Versions are begun in order, and a number is never ahead of them.
NumbersInv(w) ==
  /\ \A v, u \in 1 .. Last(w) : v < u /\ state[u] # "none" => state[v] # "none"
  /\ \A v \in 1 .. Last(w) : number[v] <= v
  /\ \A v \in 1 .. Last(w) : state[v] = "none" => count < v
  /\ Store(w)!NumbersDistinct

\* A file is missing, or on its way out, only once the document's term is up.
FilesInv(w) ==
  /\ \A v \in 1 .. Last(w) :
       /\ state[v] = "uploaded" => v \in files \/ doc \in {"expired", "gone"}
       /\ state[v] = "gone" => v \notin files
  /\ \A u \in Pair : completing[u] # None => completing[u] \in files \/ doc \in {"expired", "gone"}
  /\ purging.listed # {} \/ purging.deleted # None => doc \in {"expired", "gone"}
  /\ purging.deleted # None => purging.deleted \notin files /\ state[purging.deleted] # "none"
  /\ \A v \in purging.listed : state[v] # "none"
  /\ Store(w)!CurrentIsUploaded

StoreInv(w) == StoreTyped(w) /\ NumbersInv(w) /\ FilesInv(w)

LEMMA LastVersion == ASSUME NEW w \in StoreLooks PROVE Last(w) \in Nat /\ Last(w) >= 1
  BY CountsAssumption DEF Last

LEMMA StoreInit == ASSUME NEW w \in StoreLooks, Store(w)!Init PROVE StoreInv(w)
<1>1. Store(w)!Versions = 1 .. Last(w)
  BY DEF Store!Versions, Last
<1>2. StoreTyped(w)
  BY <1>1 DEF Store!Init, StoreTyped
<1>3. NumbersInv(w)
  BY <1>1, LastVersion DEF Store!Init, Store!NumbersDistinct, Store!Rows, NumbersInv
<1>4. FilesInv(w)
  BY <1>1 DEF Store!Init, Store!CurrentIsUploaded, FilesInv
<1> QED BY <1>2, <1>3, <1>4 DEF StoreInv

\* What the greatest of some natural numbers with a bound is.
LEMMA GreatestOf ==
  ASSUME NEW w \in StoreLooks, NEW n \in Nat, NEW T \in SUBSET (0 .. n), T # {}
  PROVE  Store(w)!Max(T) \in T /\ \A y \in T : Store(w)!Max(T) >= y
BY Greatest DEF Store!Max

\* The next number is ahead of every row's, and not ahead of its version.
LEMMA NextNumberFits ==
  ASSUME NEW w \in StoreLooks, StoreInv(w), NEW v \in 1 .. Last(w), state[v] = "none"
  PROVE  /\ Store(w)!NextNumber \in Nat /\ Store(w)!NextNumber <= v
         /\ \A u \in Store(w)!Rows : number[u] < Store(w)!NextNumber
<1> DEFINE Taken == {0} \cup {number[u] : u \in Store(w)!Rows}
           m == Store(w)!Max(Taken)
<1>1. Store(w)!Versions = 1 .. Last(w) /\ Last(w) \in Nat
  BY LastVersion DEF Store!Versions, Last
<1>2. \A u \in Store(w)!Rows : u \in 1 .. Last(w) /\ u < v /\ number[u] \in 0 .. v - 1
  BY <1>1 DEF Store!Rows, StoreInv, StoreTyped, NumbersInv
<1>3. Taken \in SUBSET (0 .. v - 1) /\ Taken # {} /\ v - 1 \in Nat
  BY <1>2
<1>4. m \in 0 .. v - 1 /\ \A y \in Taken : m >= y
  BY <1>3, GreatestOf
<1>5. count + 1 \in 0 .. v
  BY DEF StoreInv, StoreTyped, NumbersInv
<1>6. {m + 1, count + 1} \in SUBSET (0 .. v) /\ {m + 1, count + 1} # {} /\ v \in Nat
  BY <1>4, <1>5
<1>7. /\ Store(w)!NextNumber \in {m + 1, count + 1}
      /\ \A y \in {m + 1, count + 1} : Store(w)!NextNumber >= y
  BY <1>6, GreatestOf DEF Store!NextNumber
<1>8. \A u \in Store(w)!Rows : number[u] <= m /\ number[u] \in Nat
  BY <1>2, <1>4
<1> HIDE DEF m
<1> QED BY <1>4, <1>5, <1>6, <1>7, <1>8

\* The requests and the purge change one version's row at a time, and what else is
\* there of a document is as it was.
LEMMA StoreStep ==
  ASSUME NEW w \in StoreLooks, StoreInv(w), [Store(w)!Next]_storing
  PROVE  StoreInv(w)'
<1>0. Store(w)!Versions = 1 .. Last(w) /\ Last(w) \in Nat
  BY LastVersion DEF Store!Versions, Last
<1> USE DEF StoreInv
<1>1. ASSUME NEW v \in 1 .. Last(w), Store(w)!UploadInit(v) PROVE StoreInv(w)'
  <2>1. PICK n : n = Store(w)!NextNumber
    OBVIOUS
  <2>2. /\ state[v] = "none" /\ doc \in {"none", "live"} /\ doc' = "live"
        /\ v > 1 => state[v - 1] # "none"
        /\ state' = [state EXCEPT ![v] = "pending"] /\ number' = [number EXCEPT ![v] = n]
        /\ UNCHANGED <<count, current, files, completing, purging>>
    BY <1>1, <2>1 DEF Store!UploadInit
  <2>3. n \in Nat /\ n <= v /\ \A u \in Store(w)!Rows : number[u] < n
    BY <2>1, <2>2, NextNumberFits
  <2>4. StoreTyped(w)'
    BY <2>2, <2>3 DEF StoreTyped
  <2>5. \A u \in 1 .. Last(w) : u < v => state[u] # "none"
    <3>1. ASSUME NEW u \in 1 .. Last(w), u < v PROVE state[u] # "none"
      <4>1. v - 1 \in 1 .. Last(w) /\ (u = v - 1 \/ u < v - 1) /\ state[v - 1] # "none"
        BY <1>0, <2>2, <3>1
      <4> QED BY <4>1 DEF NumbersInv
    <3> QED BY <3>1
  <2>6. \A x, y \in 1 .. Last(w) : x < y /\ state'[y] # "none" => state'[x] # "none"
    BY <2>2, <2>5 DEF StoreTyped, NumbersInv
  <2>7. \A x \in 1 .. Last(w) : number'[x] <= x /\ (state'[x] = "none" => count' < x)
    BY <2>2, <2>3 DEF StoreTyped, NumbersInv
  <2>8. Store(w)!Rows' = Store(w)!Rows \cup {v} /\ v \notin Store(w)!Rows
    BY <1>0, <2>2 DEF Store!Rows, Store!Versions, StoreTyped
  <2>9. Store(w)!NumbersDistinct'
    BY <1>0, <2>2, <2>3, <2>8
       DEF Store!NumbersDistinct, NumbersInv, StoreTyped, Store!Rows
  <2>10. FilesInv(w)'
    BY <2>2 DEF FilesInv, StoreTyped, Store!CurrentIsUploaded
  <2> QED BY <2>4, <2>6, <2>7, <2>9, <2>10 DEF NumbersInv
<1>2. ASSUME UNCHANGED <<state, number, count>>, StoreTyped(w)', FilesInv(w)'
      PROVE  StoreInv(w)'
  BY <1>2 DEF NumbersInv, Store!NumbersDistinct, Store!Rows
<1>3. ASSUME NEW v \in 1 .. Last(w), Store(w)!PutFile(v) PROVE StoreInv(w)'
  BY <1>2, <1>3 DEF Store!PutFile, StoreTyped, FilesInv, Store!CurrentIsUploaded
<1>4. ASSUME NEW u \in Pair, NEW v \in 1 .. Last(w), Store(w)!CompleteReads(u, v)
      PROVE  StoreInv(w)'
  BY <1>2, <1>4 DEF Store!CompleteReads, Store!Arrived, StoreTyped, FilesInv,
     Store!CurrentIsUploaded
<1>5. CASE Store(w)!Delete \/ Store(w)!RetentionEnds \/ Store(w)!Restore
  BY <1>2, <1>5 DEF Store!Delete, Store!RetentionEnds, Store!Restore, Store!Recoverable,
     StoreTyped, FilesInv, Store!CurrentIsUploaded
<1>6. CASE Store(w)!PurgeLists \/ Store(w)!PurgeDies
  <2>1. /\ purging'.deleted = None /\ purging'.listed \subseteq 1 .. Last(w)
        /\ purging' = [listed |-> purging'.listed, deleted |-> None]
        /\ \A v \in purging'.listed : state[v] # "none"
        /\ doc \in {"expired", "gone"}
        /\ UNCHANGED <<doc, state, number, count, current, files, completing>>
    BY <1>0, <1>6 DEF Store!PurgeLists, Store!PurgeDies, Store!Rows, FilesInv
  <2>2. StoreTyped(w)'
    BY <2>1 DEF StoreTyped
  <2>3. FilesInv(w)'
    BY <2>1 DEF FilesInv, Store!CurrentIsUploaded
  <2> QED BY <1>2, <2>1, <2>2, <2>3
<1>7. ASSUME NEW v \in 1 .. Last(w), Store(w)!PurgeFile(v) PROVE StoreInv(w)'
  <2>1. /\ purging.listed # {} /\ files' = files \ {v} /\ v \in purging.listed
        /\ purging' = [listed |-> purging.listed \ {v}, deleted |-> v]
        /\ UNCHANGED <<doc, state, number, count, current, completing>>
    BY <1>7 DEF Store!PurgeFile, Store!FileGoes
  <2>2. /\ purging'.deleted = v /\ purging'.listed \subseteq purging.listed
        /\ state[v] # "none" /\ doc \in {"expired", "gone"}
    BY <2>1 DEF FilesInv
  <2>3. StoreTyped(w)'
    BY <2>1 DEF StoreTyped
  <2>4. FilesInv(w)'
    BY <2>1, <2>2 DEF FilesInv, Store!CurrentIsUploaded
  <2> QED BY <1>2, <2>1, <2>3, <2>4
<1>8. ASSUME NEW v \in 1 .. Last(w), Store(w)!PurgeSkips(v) PROVE StoreInv(w)'
  <2>1. /\ purging.listed # {} /\ purging.deleted = None
        /\ purging' = [listed |-> purging.listed \ {v}, deleted |-> None]
        /\ UNCHANGED <<doc, state, number, count, current, files, completing>>
    BY <1>8 DEF Store!PurgeSkips, StoreTyped
  <2> QED BY <1>2, <2>1 DEF StoreTyped, FilesInv, Store!CurrentIsUploaded
<1>9. CASE \/ Store(w)!InlineStores \/ Store(w)!InlineCommits
           \/ UNCHANGED storing
  <2>1. UNCHANGED <<doc, state, number, count, current, files, completing, purging>>
    BY <1>9 DEF Store!InlineStores, Store!InlineCommits, storing
  <2>2. StoreTyped(w)'
    BY <2>1 DEF StoreTyped
  <2>3. FilesInv(w)'
    BY <2>1 DEF FilesInv, Store!CurrentIsUploaded
  <2> QED BY <1>2, <2>1, <2>2, <2>3
<1>10. ASSUME NEW u \in Pair, Store(w)!CompleteWrites(u) PROVE StoreInv(w)'
  <2>1. PICK v \in 1 .. Last(w) : v = completing[u]
    BY <1>10 DEF Store!CompleteWrites, StoreTyped
  <2>2. /\ completing' = [completing EXCEPT ![u] = None]
        /\ UNCHANGED <<doc, number, files, purging>>
        /\ v \in files \/ doc \in {"expired", "gone"}
    BY <1>10, <2>1 DEF Store!CompleteWrites, FilesInv
  <2>3. CASE UNCHANGED <<state, current, count>>
    BY <1>2, <2>2, <2>3 DEF StoreTyped, FilesInv, Store!CurrentIsUploaded
  <2>4. CASE /\ v \in Store(w)!Rows /\ state' = [state EXCEPT ![v] = "uploaded"]
             /\ current' = v /\ count' = Store(w)!Max({count, number[v]})
    <3>1. /\ count \in 0 .. Last(w) + count /\ number[v] \in 0 .. Last(w) + count
          /\ Last(w) + count \in Nat
      BY <1>0 DEF StoreTyped, NumbersInv
    <3>2. count' \in {count, number[v]}
      BY <2>4, <3>1, GreatestOf
    <3>3. StoreTyped(w)'
      BY <2>2, <2>4, <3>2 DEF StoreTyped
    <3>4. state[v] \in {"pending", "uploaded"}
      BY <2>4 DEF Store!Rows
    <3>5. \A x \in 1 .. Last(w) : state[x] = "none" => v < x
      BY <1>0, <3>4 DEF NumbersInv
    <3>6. \A x \in 1 .. Last(w) : (state'[x] = "none") = (state[x] = "none")
      BY <2>4, <3>4 DEF StoreTyped
    <3>7. \A x \in 1 .. Last(w) : state'[x] = "none" => count' < x
      BY <1>0, <3>2, <3>5, <3>6 DEF NumbersInv, StoreTyped
    <3>8. Store(w)!Rows' = Store(w)!Rows
      BY <1>0, <2>4, <3>4 DEF Store!Rows, Store!Versions, StoreTyped
    <3>9. Store(w)!NumbersDistinct'
      BY <2>2, <3>8 DEF Store!NumbersDistinct, NumbersInv
    <3>10. FilesInv(w)'
      BY <2>2, <2>4 DEF FilesInv, StoreTyped, Store!CurrentIsUploaded
    <3> QED BY <2>2, <3>3, <3>6, <3>7, <3>9, <3>10 DEF NumbersInv
  <2> QED BY <1>10, <2>1, <2>3, <2>4 DEF Store!CompleteWrites
<1>11. CASE Store(w)!PurgeRows
  <2>1. PICK v \in 1 .. Last(w) : v = purging.deleted /\ v # None
    BY <1>11 DEF Store!PurgeRows, StoreTyped
  <2>2. /\ state' = [state EXCEPT ![v] = "gone"]
        /\ current' = IF current = v THEN None ELSE current
        /\ doc' \in {doc, "gone"} /\ doc \in {"expired", "gone"} /\ v \notin files
        /\ purging' = [listed |-> purging.listed, deleted |-> None]
        /\ UNCHANGED <<number, count, files, completing>>
    BY <1>11, <2>1 DEF Store!PurgeRows, StoreTyped, FilesInv
  <2>3. StoreTyped(w)'
    BY <2>2 DEF StoreTyped
  <2>4. FilesInv(w)'
    BY <2>2 DEF FilesInv, StoreTyped, Store!CurrentIsUploaded
  <2>5. \A x \in 1 .. Last(w) : state'[x] = "none" => state[x] = "none"
    BY <2>2 DEF StoreTyped
  <2>6. Store(w)!Rows' \subseteq Store(w)!Rows
    BY <1>0, <2>2 DEF Store!Rows, Store!Versions, StoreTyped
  <2>7. state[v] # "none"
    BY <2>1 DEF FilesInv
  <2>8. \A x \in 1 .. Last(w) : (state'[x] = "none") = (state[x] = "none")
    BY <2>2, <2>7 DEF StoreTyped
  <2>9. Store(w)!NumbersDistinct'
    BY <2>2, <2>6 DEF Store!NumbersDistinct, NumbersInv
  <2> QED BY <2>2, <2>3, <2>4, <2>8, <2>9 DEF NumbersInv
<1> QED BY <1>0, <1>1, <1>3, <1>4, <1>5, <1>6, <1>7, <1>8, <1>9, <1>10, <1>11 DEF Store!Next

LEMMA StoreHolds ==
  ASSUME NEW w \in StoreLooks, StoreInv(w)
  PROVE  /\ Store(w)!NumbersDistinct /\ Store(w)!LiveHasFiles
         /\ Store(w)!PurgedHasNoFile /\ Store(w)!CurrentIsUploaded
<1>1. Store(w)!Versions = 1 .. Last(w)
  BY DEF Store!Versions, Last
<1> QED BY <1>1 DEF StoreInv, NumbersInv, FilesInv, Store!LiveHasFiles,
        Store!PurgedHasNoFile, Store!Rows

\* A document and its files agree: each upload has a number of its own, what can be read
\* has its file, what was purged has none, and the current version was uploaded.
THEOREM DocumentsHaveFiles == Spec => []FilesAreThere
<1> DEFINE Inv == \A w \in StoreLooks : which = w => StoreInv(w)
<1>1. Init => Inv
  <2>1. ASSUME Init, NEW w \in StoreLooks, which = w PROVE Store(w)!Init
    BY <2>1 DEF Init, StoreLooks
  <2> QED BY <2>1, StoreInit
<1>2. Inv /\ [Next]_all => Inv'
  <2>1. ASSUME Inv, [Next]_all, NEW w \in StoreLooks, which' = w PROVE StoreInv(w)'
    <3>1. which = w /\ [Store(w)!Next]_storing
      BY <2>1 DEF Next, all
    <3> QED BY <2>1, <3>1, StoreStep
  <2> QED BY <2>1
<1>3. Inv => FilesAreThere
  BY StoreHolds DEF FilesAreThere
<1> HIDE DEF Inv
<1> QED BY <1>1, <1>2, <1>3, PTL DEF Spec

-----------------------------------------------------------------------------
(* The outbox of a supervisor's phone.                                     *)

PagesOf(w) == IF w = "one tab" THEN Single ELSE Pair
Flush ==
  [at : {"resting", "flushing", "sent"}, list : SUBSET Actions,
   stalled : SUBSET {VisitOf[a] : a \in Actions}, action : Actions \cup {0},
   answer : {"none", "ok", "lost", "refused"}]

\* The server has carried it out, or refused it for good at some time.
Done(b) == landed[b] > 0 \/ b \in refused

\* A flush has passed over nothing that is not done, unless it has stalled its visit.
GoodFlush(g) ==
  /\ g.list \subseteq made
  /\ \A a \in g.list, b \in Actions :
       b < a /\ VisitOf[b] = VisitOf[a] => b \in g.list \/ Done(b) \/ VisitOf[a] \in g.stalled
  /\ g.at = "sent" =>
       /\ g.action \in g.list
       /\ \A b \in Actions : b < g.action /\ VisitOf[b] = VisitOf[g.action] => Done(b)
       /\ g.answer = "ok" => landed[g.action] > 0
       /\ g.answer = "refused" => g.action \in refused

\* What is blocked or was given up has been refused, and actions are made in order.
OutboxInv(w) ==
  /\ outbox \in [Actions -> {"absent", "waiting", "blocked"}]
  /\ made \subseteq Actions /\ landed \in [Actions -> Nat]
  /\ page \in [PagesOf(w) -> Flush]
  /\ \A a \in made, b \in Actions : b < a => b \in made
  /\ \A a \in Actions : outbox[a] # "absent" => a \in made
  /\ \A a \in Actions : outbox[a] = "blocked" => a \in refused
  /\ discarded \subseteq refused
  /\ Phone(w)!NothingIsLost
  /\ \A p \in PagesOf(w) : GoodFlush(page[p])

LEMMA RestingFlush ==
  ASSUME NEW w \in PhoneLooks
  PROVE  Phone(w)!Resting \in Flush /\ GoodFlush(Phone(w)!Resting)
  BY DEF Phone!Resting, Flush, GoodFlush

LEMMA OutboxInit == ASSUME NEW w \in PhoneLooks, Phone(w)!Init PROVE OutboxInv(w)
<1>1. /\ outbox = [a \in Actions |-> "absent"] /\ made = {} /\ discarded = {}
      /\ page = [p \in PagesOf(w) |-> Phone(w)!Resting] /\ landed = [a \in Actions |-> 0]
  BY DEF Phone!Init, PagesOf
<1> HIDE DEF GoodFlush, Flush
<1>2. Phone(w)!NothingIsLost
  BY <1>1 DEF Phone!NothingIsLost
<1> QED BY <1>1, <1>2, RestingFlush DEF OutboxInv

\* What has been carried out or refused stays so, and so do the flushes.
LEMMA FlushStays ==
  ASSUME made \subseteq made', refused \subseteq refused',
         landed \in [Actions -> Nat], landed' \in [Actions -> Nat],
         \A a \in Actions : landed[a] > 0 => landed'[a] > 0
  PROVE  \A g \in Flush : GoodFlush(g) => GoodFlush(g)'
<1>1. \A b \in Actions : Done(b) => Done(b)'
  BY DEF Done
<1> SUFFICES ASSUME NEW g \in Flush, GoodFlush(g) PROVE GoodFlush(g)'
  OBVIOUS
<1>2. g.list \subseteq Actions
  BY DEF Flush
<1>3. g.list \subseteq made'
  BY DEF GoodFlush
<1>4. ASSUME NEW a \in g.list, NEW b \in Actions, b < a, VisitOf[b] = VisitOf[a]
      PROVE  b \in g.list \/ Done(b)' \/ VisitOf[a] \in g.stalled
  BY <1>1, <1>4 DEF GoodFlush
<1>5. ASSUME g.at = "sent"
      PROVE  /\ g.action \in g.list
             /\ \A b \in Actions : b < g.action /\ VisitOf[b] = VisitOf[g.action] => Done(b)'
             /\ g.answer = "ok" => landed'[g.action] > 0
             /\ g.answer = "refused" => g.action \in refused'
  BY <1>1, <1>2, <1>5 DEF GoodFlush
<1> HIDE DEF Done
<1> QED BY <1>3, <1>4, <1>5 DEF GoodFlush

\* One page's flush changes, whatever becomes of the server.
LEMMA FlushChanges ==
  ASSUME NEW w \in PhoneLooks, OutboxInv(w), NEW p \in PagesOf(w), NEW g \in Flush,
         page' = [page EXCEPT ![p] = g], GoodFlush(g)',
         made' = made, refused \subseteq refused',
         landed' \in [Actions -> Nat], \A a \in Actions : landed[a] > 0 => landed'[a] > 0
  PROVE  /\ page' \in [PagesOf(w) -> Flush]
         /\ \A q \in PagesOf(w) : GoodFlush(page[q])'
<1> USE DEF OutboxInv
<1>1. page' \in [PagesOf(w) -> Flush]
  OBVIOUS
<1>2. \A h \in Flush : GoodFlush(h) => GoodFlush(h)'
  BY FlushStays
<1> HIDE DEF GoodFlush, Flush
<1>3. ASSUME NEW q \in PagesOf(w) PROVE GoodFlush(page[q])'
  <2>1. CASE q = p
    <3>1. page'[q] = g
      BY <2>1
    <3> QED BY <3>1
  <2>2. CASE q # p
    <3>1. page'[q] = page[q] /\ page[q] \in Flush /\ GoodFlush(page[q])
      BY <2>2
    <3> QED BY <3>1, <1>2
  <2> QED BY <2>1, <2>2
<1> QED BY <1>1, <1>3

\* What is next of a flush comes after what is done of its visit.
LEMMA NextIsDue ==
  ASSUME NEW w \in PhoneLooks, OutboxInv(w), NEW p \in PagesOf(w), NEW a \in Actions,
         Phone(w)!NextUp(p, a)
  PROVE  /\ a \in page[p].list
         /\ \A b \in Actions : b < a /\ VisitOf[b] = VisitOf[a] => Done(b)
<1>1. /\ a \in page[p].list /\ VisitOf[a] \notin page[p].stalled
      /\ \A b \in page[p].list : b < a => VisitOf[b] \in page[p].stalled
  BY DEF Phone!NextUp, Phone!ToSend
<1>2. GoodFlush(page[p])
  BY DEF OutboxInv
<1>3. ASSUME NEW b \in Actions, b < a, VisitOf[b] = VisitOf[a] PROVE Done(b)
  <2>1. b \notin page[p].list
    BY <1>1, <1>3
  <2> QED BY <1>1, <1>2, <1>3, <2>1 DEF GoodFlush
<1> QED BY <1>1, <1>3

\* What the phone keeps does not change, and a page sends an action.
LEMMA SendingKeeps ==
  ASSUME NEW w \in PhoneLooks, OutboxInv(w), NEW p \in PagesOf(w), NEW a \in Actions,
         Phone(w)!NextUp(p, a), NEW answer \in {"ok", "lost", "refused"},
         Phone(w)!Awaits(p, a, answer), UNCHANGED <<outbox, made, discarded>>,
         refused \subseteq refused', landed' \in [Actions -> Nat],
         \A b \in Actions : landed[b] > 0 => landed'[b] > 0,
         answer = "ok" => landed'[a] > 0, answer = "refused" => a \in refused'
  PROVE  OutboxInv(w)'
<1>1. PICK g : g = [page[p] EXCEPT !.at = "sent", !.action = a, !.answer = answer]
  OBVIOUS
<1>2. page' = [page EXCEPT ![p] = g]
  BY <1>1 DEF Phone!Awaits
<1>3. page[p] \in Flush /\ GoodFlush(page[p])
  BY DEF OutboxInv
<1>4. /\ g.at = "sent" /\ g.action = a /\ g.answer = answer
      /\ g.list = page[p].list /\ g.stalled = page[p].stalled /\ g \in Flush
  BY <1>1, <1>3 DEF Flush
<1>5. GoodFlush(g)'
  <2>1. \A b \in Actions : Done(b) => Done(b)'
    BY DEF Done
  <2>2. /\ a \in page[p].list
        /\ \A b \in Actions : b < a /\ VisitOf[b] = VisitOf[a] => Done(b)
    BY NextIsDue
  <2>3. g.list \subseteq Actions /\ g.list \subseteq made'
    BY <1>3, <1>4 DEF Flush, GoodFlush
  <2>4. \A c \in g.list, b \in Actions :
          b < c /\ VisitOf[b] = VisitOf[c] =>
            b \in g.list \/ Done(b)' \/ VisitOf[c] \in g.stalled
    BY <1>3, <1>4, <2>1, <2>3 DEF GoodFlush
  <2>5. \A b \in Actions : b < g.action /\ VisitOf[b] = VisitOf[g.action] => Done(b)'
    BY <1>4, <2>1, <2>2
  <2> HIDE DEF Done
  <2> QED BY <1>4, <2>2, <2>3, <2>4, <2>5 DEF GoodFlush
<1> HIDE DEF GoodFlush, Flush
<1>6. /\ page' \in [PagesOf(w) -> Flush]
      /\ \A q \in PagesOf(w) : GoodFlush(page[q])'
  BY <1>2, <1>4, <1>5, FlushChanges
<1>7. Phone(w)!NothingIsLost'
  BY DEF OutboxInv, Phone!NothingIsLost
<1> QED BY <1>6, <1>7 DEF OutboxInv

\* An answer is dealt with: the action leaves the list, and its visit may be stalled.
LEMMA AnswerKeeps ==
  ASSUME NEW w \in PhoneLooks, OutboxInv(w), NEW p \in PagesOf(w), page[p].at = "sent",
         NEW S \in SUBSET {VisitOf[a] : a \in Actions},
         page[p].stalled \subseteq S,
         Done(page[p].action) \/ VisitOf[page[p].action] \in S,
         Phone(w)!GoesOn(p, S), UNCHANGED <<made, discarded, refused, landed>>
  PROVE  /\ page' \in [PagesOf(w) -> Flush]
         /\ \A q \in PagesOf(w) : GoodFlush(page[q])'
<1>1. page[p] \in Flush /\ GoodFlush(page[p])
  BY DEF OutboxInv
<1>2. PICK g : /\ page' = [page EXCEPT ![p] = g]
               /\ g = [at |-> "flushing", list |-> page[p].list \ {page[p].action},
                       stalled |-> S, action |-> 0, answer |-> "none"]
  <2>1. PICK g : g = [Phone(w)!Resting EXCEPT
                       !.at = "flushing", !.list = page[p].list \ {page[p].action},
                       !.stalled = S]
    OBVIOUS
  <2>2. page' = [page EXCEPT ![p] = g]
    BY <2>1, Zenon DEF Phone!GoesOn
  <2>3. g = [at |-> "flushing", list |-> page[p].list \ {page[p].action},
             stalled |-> S, action |-> 0, answer |-> "none"]
    BY <2>1 DEF Phone!Resting
  <2> QED BY <2>2, <2>3
<1>3. page' = [page EXCEPT ![p] = g]
  BY <1>2
<1>4. g \in Flush
  BY <1>1, <1>2 DEF Flush
<1>5. GoodFlush(g)'
  <2>1. g.list \subseteq Actions /\ g.list \subseteq made' /\ page[p].list \subseteq Actions
    BY <1>1, <1>2 DEF Flush, GoodFlush
  <2>2. \A b \in Actions : Done(b) => Done(b)'
    BY DEF Done
  <2>3. ASSUME NEW c \in g.list, NEW b \in Actions, b < c, VisitOf[b] = VisitOf[c]
        PROVE  b \in g.list \/ Done(b)' \/ VisitOf[c] \in g.stalled
    <3>1. b \in page[p].list \/ Done(b) \/ VisitOf[c] \in page[p].stalled
      BY <1>1, <1>2, <2>3 DEF GoodFlush
    <3>2. CASE b = page[p].action
      BY <1>2, <2>2, <2>3, <3>2
    <3> QED BY <1>2, <2>2, <3>1, <3>2
  <2>4. g.at # "sent"
    BY <1>2
  <2> HIDE DEF Done
  <2> QED BY <2>1, <2>3, <2>4 DEF GoodFlush
<1> HIDE DEF GoodFlush, Flush
<1>6. \A a \in Actions : landed[a] > 0 => landed'[a] > 0
  OBVIOUS
<1>7. landed' \in [Actions -> Nat]
  BY DEF OutboxInv
<1> QED BY <1>3, <1>4, <1>5, <1>6, <1>7, FlushChanges

\* A flush reads what waits: what came before it is blocked, carried out or given up.
LEMMA DrainKeeps ==
  ASSUME NEW w \in PhoneLooks, OutboxInv(w), NEW p \in PagesOf(w), Phone(w)!Drain(p)
  PROVE  OutboxInv(w)'
<1>1. UNCHANGED <<outbox, made, discarded, refused, landed>>
  BY DEF Phone!Drain, Phone!phone, Phone!server
<1>2. PICK g : /\ page' = [page EXCEPT ![p] = g]
               /\ g = [at |-> "flushing", list |-> {a \in Actions : outbox[a] = "waiting"},
                       stalled |-> {}, action |-> 0, answer |-> "none"]
  <2>1. PICK g : g = [Phone(w)!Resting EXCEPT
                       !.at = "flushing", !.list = {a \in Actions : outbox[a] = "waiting"}]
    OBVIOUS
  <2>2. page' = [page EXCEPT ![p] = g]
    BY <2>1, Zenon DEF Phone!Drain
  <2>3. g = [at |-> "flushing", list |-> {a \in Actions : outbox[a] = "waiting"},
             stalled |-> {}, action |-> 0, answer |-> "none"]
    BY <2>1 DEF Phone!Resting
  <2> QED BY <2>2, <2>3
<1>3. page' = [page EXCEPT ![p] = g]
  BY <1>2
<1>4. g \in Flush
  BY <1>2 DEF Flush
<1>5. GoodFlush(g)'
  <2>1. \A a \in g.list : a \in Actions /\ outbox[a] = "waiting"
    BY <1>2
  <2>2. g.list \subseteq made'
    BY <1>1, <2>1 DEF OutboxInv
  <2>3. ASSUME NEW a \in g.list, NEW b \in Actions, b < a PROVE b \in g.list \/ Done(b)'
    <3>1. b \in made
      BY <1>1, <2>2, <2>3 DEF OutboxInv
    <3>2. CASE outbox[b] = "waiting"
      BY <1>2, <3>2
    <3>3. CASE outbox[b] = "blocked"
      BY <1>1, <3>3 DEF OutboxInv, Done
    <3>4. CASE outbox[b] = "absent"
      BY <1>1, <3>1, <3>4 DEF OutboxInv, Phone!NothingIsLost, Done
    <3> QED BY <3>2, <3>3, <3>4 DEF OutboxInv
  <2>4. g.at # "sent"
    BY <1>2
  <2> HIDE DEF Done
  <2> QED BY <2>2, <2>3, <2>4 DEF GoodFlush
<1> HIDE DEF GoodFlush, Flush
<1>6. /\ page' \in [PagesOf(w) -> Flush]
      /\ \A q \in PagesOf(w) : GoodFlush(page[q])'
  <2>1. (\A a \in Actions : landed[a] > 0 => landed'[a] > 0) /\ landed' \in [Actions -> Nat]
    BY <1>1 DEF OutboxInv
  <2> QED BY <1>1, <1>3, <1>4, <1>5, <2>1, FlushChanges
<1>7. Phone(w)!NothingIsLost'
  BY <1>1 DEF OutboxInv, Phone!NothingIsLost
<1> QED BY <1>1, <1>6, <1>7 DEF OutboxInv

\* No page goes on, nothing is sent: what is made may be added to.
LEMMA PagesRest ==
  ASSUME NEW w \in PhoneLooks, OutboxInv(w), UNCHANGED <<page, landed, refused>>,
         made \subseteq made'
  PROVE  \A q \in PagesOf(w) : GoodFlush(page[q])'
<1>1. \A g \in Flush : GoodFlush(g) => GoodFlush(g)'
  BY FlushStays DEF OutboxInv
<1>2. ASSUME NEW q \in PagesOf(w) PROVE GoodFlush(page[q])'
  <2>1. page'[q] = page[q] /\ page[q] \in Flush /\ GoodFlush(page[q])
    BY DEF OutboxInv
  <2> QED BY <2>1, <1>1
<1> QED BY <1>2

LEMMA OutboxStep ==
  ASSUME NEW w \in PhoneLooks, OutboxInv(w), [Phone(w)!Next]_sendingOn
  PROVE  OutboxInv(w)'
<1> HIDE DEF GoodFlush, Flush
<1>1. ASSUME NEW a \in Actions, Phone(w)!Enqueue(a) PROVE OutboxInv(w)'
  <2>1. /\ a \notin made /\ \A b \in Actions : b < a => b \in made
        /\ made' = made \cup {a} /\ outbox' = [outbox EXCEPT ![a] = "waiting"]
        /\ UNCHANGED <<discarded, page, landed, refused>>
    BY <1>1 DEF Phone!Enqueue, Phone!server
  <2>2. \A q \in PagesOf(w) : GoodFlush(page[q])'
    BY <2>1, PagesRest
  <2>3. \A c \in made', b \in Actions : b < c => b \in made'
    BY <2>1 DEF OutboxInv
  <2>4. Phone(w)!NothingIsLost'
    BY <2>1 DEF OutboxInv, Phone!NothingIsLost
  <2>5. /\ outbox' \in [Actions -> {"absent", "waiting", "blocked"}] /\ made' \subseteq Actions
        /\ \A b \in Actions : outbox'[b] # "absent" => b \in made'
        /\ \A b \in Actions : outbox'[b] = "blocked" => b \in refused'
    BY <2>1 DEF OutboxInv
  <2> QED BY <2>1, <2>2, <2>3, <2>4, <2>5 DEF OutboxInv
<1>2. ASSUME NEW a \in Actions, Phone(w)!Discard(a) PROVE OutboxInv(w)'
  <2>1. /\ outbox[a] = "blocked" /\ outbox' = [outbox EXCEPT ![a] = "absent"]
        /\ discarded' = discarded \cup {a} /\ UNCHANGED <<made, page, landed, refused>>
    BY <1>2 DEF Phone!Discard, Phone!server
  <2>2. \A q \in PagesOf(w) : GoodFlush(page[q])'
    BY <2>1, PagesRest
  <2>3. Phone(w)!NothingIsLost'
    BY <2>1 DEF OutboxInv, Phone!NothingIsLost
  <2>4. discarded' \subseteq refused'
    BY <2>1 DEF OutboxInv
  <2> QED BY <2>1, <2>2, <2>3, <2>4 DEF OutboxInv
<1>3. ASSUME NEW a \in Actions, Phone(w)!Retry(a) PROVE OutboxInv(w)'
  <2>1. /\ outbox[a] = "blocked" /\ outbox' = [outbox EXCEPT ![a] = "waiting"]
        /\ UNCHANGED <<made, discarded, page, landed, refused>>
    BY <1>3 DEF Phone!Retry, Phone!server
  <2>2. \A q \in PagesOf(w) : GoodFlush(page[q])'
    BY <2>1, PagesRest
  <2>3. Phone(w)!NothingIsLost'
    BY <2>1 DEF OutboxInv, Phone!NothingIsLost
  <2> QED BY <2>1, <2>2, <2>3 DEF OutboxInv
<1>4. ASSUME UNCHANGED <<outbox, made, discarded, page, landed, refused>> PROVE OutboxInv(w)'
  <2>1. \A q \in PagesOf(w) : GoodFlush(page[q])'
    BY <1>4, PagesRest
  <2>2. Phone(w)!NothingIsLost'
    BY <1>4 DEF OutboxInv, Phone!NothingIsLost
  <2> QED BY <1>4, <2>1, <2>2 DEF OutboxInv
<1>5. ASSUME NEW v \in Phone(w)!Visits, Phone(w)!Reassign(v) \/ Phone(w)!Attach(v)
      PROVE  OutboxInv(w)'
  BY <1>4, <1>5 DEF Phone!Reassign, Phone!Attach, Phone!phone
<1>6. ASSUME NEW p \in PagesOf(w), Phone(w)!FlushEnds(p) \/ Phone(w)!Reload(p)
      PROVE  OutboxInv(w)'
  <2>1. /\ page' = [page EXCEPT ![p] = Phone(w)!Resting]
        /\ UNCHANGED <<outbox, made, discarded, landed, refused>>
    BY <1>6 DEF Phone!FlushEnds, Phone!Reload, Phone!phone, Phone!server
  <2>2. PICK g : g = Phone(w)!Resting
    OBVIOUS
  <2>3. g \in Flush /\ GoodFlush(g)'
    BY <2>2 DEF Phone!Resting, Flush, GoodFlush
  <2>4. (\A a \in Actions : landed[a] > 0 => landed'[a] > 0) /\ landed' \in [Actions -> Nat]
    BY <2>1 DEF OutboxInv
  <2>5. page' = [page EXCEPT ![p] = g]
    BY <2>1, <2>2
  <2>6. /\ page' \in [PagesOf(w) -> Flush]
        /\ \A q \in PagesOf(w) : GoodFlush(page[q])'
    BY <2>1, <2>3, <2>4, <2>5, FlushChanges
  <2>7. Phone(w)!NothingIsLost'
    BY <2>1 DEF OutboxInv, Phone!NothingIsLost
  <2> QED BY <2>1, <2>6, <2>7 DEF OutboxInv
<1>7. ASSUME NEW p \in PagesOf(w), NEW a \in Actions, Phone(w)!SendLands(p, a)
      PROVE  OutboxInv(w)'
  <2>1. PICK answer \in {"ok", "lost"} : Phone(w)!Awaits(p, a, answer)
    BY <1>7 DEF Phone!SendLands
  <2>2. /\ Phone(w)!NextUp(p, a) /\ landed' = [landed EXCEPT ![a] = @ + 1]
        /\ UNCHANGED <<outbox, made, discarded, refused>>
    BY <1>7 DEF Phone!SendLands, Phone!phone
  <2>3. /\ landed' \in [Actions -> Nat] /\ landed'[a] > 0
        /\ \A b \in Actions : landed[b] > 0 => landed'[b] > 0
    BY <2>2 DEF OutboxInv
  <2> QED BY <2>1, <2>2, <2>3, SendingKeeps
<1>8. ASSUME NEW p \in PagesOf(w), NEW a \in Actions, Phone(w)!SendRefused(p, a)
      PROVE  OutboxInv(w)'
  <2>1. /\ Phone(w)!NextUp(p, a) /\ UNCHANGED <<outbox, made, discarded, landed>>
        /\ \/ Phone(w)!Awaits(p, a, "refused") /\ refused' = refused \cup {a}
           \/ Phone(w)!Awaits(p, a, "lost") /\ refused' = refused
    BY <1>8 DEF Phone!SendRefused, Phone!phone
  <2>2. /\ landed' \in [Actions -> Nat]
        /\ \A b \in Actions : landed[b] > 0 => landed'[b] > 0
    BY <2>1 DEF OutboxInv
  <2>3. CASE Phone(w)!Awaits(p, a, "refused") /\ refused' = refused \cup {a}
    BY <2>1, <2>2, <2>3, SendingKeeps
  <2>4. CASE Phone(w)!Awaits(p, a, "lost") /\ refused' = refused
    BY <2>1, <2>2, <2>4, SendingKeeps
  <2> QED BY <2>1, <2>3, <2>4
<1>9. ASSUME NEW p \in PagesOf(w), NEW a \in Actions, Phone(w)!SendFails(p, a)
      PROVE  OutboxInv(w)'
  <2>1. /\ Phone(w)!NextUp(p, a) /\ Phone(w)!Awaits(p, a, "lost")
        /\ UNCHANGED <<outbox, made, discarded, landed, refused>>
    BY <1>9 DEF Phone!SendFails, Phone!phone, Phone!server
  <2>2. /\ landed' \in [Actions -> Nat]
        /\ \A b \in Actions : landed[b] > 0 => landed'[b] > 0
    BY <2>1 DEF OutboxInv
  <2> QED BY <2>1, <2>2, SendingKeeps
<1>10. ASSUME NEW p \in PagesOf(w), Phone(w)!Settle(p) PROVE OutboxInv(w)'
  <2>1. /\ page[p].at = "sent" /\ page[p].answer = "ok"
        /\ outbox' = [outbox EXCEPT ![page[p].action] = "absent"]
        /\ Phone(w)!GoesOn(p, page[p].stalled)
        /\ UNCHANGED <<made, discarded, landed, refused>>
    BY <1>10 DEF Phone!Settle, Phone!Confirmed, Phone!server
  <2>2. /\ page[p] \in Flush /\ landed[page[p].action] > 0
        /\ page[p].action \in page[p].list /\ page[p].list \subseteq made
    BY <2>1 DEF OutboxInv, GoodFlush
  <2>3. page[p].stalled \in SUBSET {VisitOf[a] : a \in Actions}
    BY <2>2 DEF Flush
  <2>4. PICK S \in SUBSET {VisitOf[a] : a \in Actions} : S = page[p].stalled
    BY <2>3
  <2>5. /\ page' \in [PagesOf(w) -> Flush]
        /\ \A q \in PagesOf(w) : GoodFlush(page[q])'
    BY <2>1, <2>2, <2>4, AnswerKeeps DEF Done
  <2>6. Phone(w)!NothingIsLost'
    BY <2>1, <2>2 DEF OutboxInv, Phone!NothingIsLost
  <2> QED BY <2>1, <2>5, <2>6 DEF OutboxInv
<1>11. ASSUME NEW p \in PagesOf(w), Phone(w)!PutBack(p) PROVE OutboxInv(w)'
  <2>1. /\ page[p].at = "sent"
        /\ outbox' = [outbox EXCEPT ![page[p].action] = Phone(w)!Verdict(p)]
        /\ Phone(w)!GoesOn(p, page[p].stalled \cup {VisitOf[page[p].action]})
        /\ UNCHANGED <<made, discarded, landed, refused>>
    BY <1>11 DEF Phone!PutBack, Phone!server
  <2>2. /\ page[p] \in Flush /\ page[p].action \in page[p].list /\ page[p].list \subseteq made
        /\ page[p].answer = "refused" => page[p].action \in refused
    BY <2>1 DEF OutboxInv, GoodFlush
  <2>3. page[p].stalled \subseteq {VisitOf[a] : a \in Actions} /\ page[p].action \in Actions
    BY <2>2 DEF OutboxInv, Flush
  <2>4. PICK S \in SUBSET {VisitOf[a] : a \in Actions} :
          S = page[p].stalled \cup {VisitOf[page[p].action]}
    BY <2>3
  <2>5. /\ page' \in [PagesOf(w) -> Flush]
        /\ \A q \in PagesOf(w) : GoodFlush(page[q])'
    BY <2>1, <2>4, AnswerKeeps
  <2>6. Phone(w)!Verdict(p) \in {"blocked", "waiting"}
        /\ (Phone(w)!Verdict(p) = "blocked" => page[p].action \in refused)
    BY <2>2 DEF Phone!Verdict
  <2>7. Phone(w)!NothingIsLost'
    BY <2>1, <2>3, <2>6 DEF OutboxInv, Phone!NothingIsLost
  <2>8. /\ outbox' \in [Actions -> {"absent", "waiting", "blocked"}]
        /\ \A a \in Actions : outbox'[a] # "absent" => a \in made
        /\ \A a \in Actions : outbox'[a] = "blocked" => a \in refused
    BY <2>1, <2>2, <2>3, <2>6 DEF OutboxInv
  <2> QED BY <2>1, <2>5, <2>7, <2>8 DEF OutboxInv
<1>12. CASE UNCHANGED sendingOn
  BY <1>4, <1>12 DEF sendingOn
<1>13. CASE Phone(w)!Next
  BY <1>1, <1>2, <1>3, <1>5, <1>6, <1>7, <1>8, <1>9, <1>10, <1>11, <1>13, DrainKeeps
     DEF Phone!Next, PagesOf
<1> QED BY <1>12, <1>13

LEMMA OutboxHolds ==
  ASSUME NEW w \in PhoneLooks, OutboxInv(w)
  PROVE  Phone(w)!NothingIsLost /\ Phone(w)!OnlyRefusalsAreSkipped
<1>1. ASSUME NEW p \in PagesOf(w), page[p].at = "sent", NEW b \in made, b < page[p].action,
             VisitOf[b] = VisitOf[page[p].action]
      PROVE  landed[b] > 0 \/ b \in refused
  BY <1>1 DEF OutboxInv, GoodFlush, Done
<1> QED BY <1>1 DEF OutboxInv, Phone!OnlyRefusalsAreSkipped, PagesOf

\* An action made on site stays on the phone until it has been carried out or a person gives
\* it up, and is sent only after those made before it on the same visit.
THEOREM OutboxIsKept == Spec => []OutboxKept
<1> DEFINE Inv == \A w \in PhoneLooks : which = w => OutboxInv(w)
<1>1. Init => Inv
  <2>1. ASSUME Init, NEW w \in PhoneLooks, which = w PROVE Phone(w)!Init
    BY <2>1 DEF Init, PhoneLooks
  <2> QED BY <2>1, OutboxInit
<1>2. Inv /\ [Next]_all => Inv'
  <2>1. ASSUME Inv, [Next]_all, NEW w \in PhoneLooks, which' = w PROVE OutboxInv(w)'
    <3>1. which = w /\ [Phone(w)!Next]_sendingOn
      BY <2>1 DEF Next, all
    <3> QED BY <2>1, <3>1, OutboxStep
  <2> QED BY <2>1
<1>3. Inv => OutboxKept
  BY OutboxHolds DEF OutboxKept
<1> HIDE DEF Inv
<1> QED BY <1>1, <1>2, <1>3, PTL DEF Spec

-----------------------------------------------------------------------------
(* A retainer, and the onboarding that was paid for.                        *)

\* As long as one person at a time changes a plan or releases, what a request has read is so.
RetainerInv ==
  overlapped \/
    /\ planAsked = [s \in Pair |-> planAsked[s]]
    /\ paid \in Nat /\ top = paid /\ held \in Nat
    /\ \A s, t \in Pair : planAsked[s] # None /\ planAsked[t] # None => s = t
    /\ \A s \in Pair : planAsked[s] # None =>
         /\ planAsked[s].held = held
         /\ planAsked[s].op = "change" => planAsked[s].paid = paid

LEMMA GreaterOfTwo ==
  ASSUME NEW a \in Nat, NEW b \in Int
  PROVE  Retainer!Max({a, b}) = IF b > a THEN b ELSE a
<1>1. PICK g \in {a, b} : \A y \in {a, b} : g >= y
  OBVIOUS
<1>2. /\ Retainer!Max({a, b}) \in {a, b}
      /\ \A y \in {a, b} : Retainer!Max({a, b}) >= y
  BY <1>1 DEF Retainer!Max
<1> QED BY <1>2

LEMMA RetainerInit == ASSUME Retainer!Init PROVE RetainerInv
BY DEF Retainer!Init, RetainerInv

LEMMA RetainerStep ==
  ASSUME RetainerInv, [Retainer!Next]_retaining
  PROVE  RetainerInv'
<1> SUFFICES ASSUME ~overlapped' PROVE RetainerInv'
  BY DEF RetainerInv
<1>1. ~overlapped
  BY DEF Retainer!Next, Retainer!Asks, Retainer!ChangePlan, Retainer!Release, Retainer!Drop,
         Retainer!Asked, retaining
<1>2. ASSUME NEW s \in Pair, Retainer!Asks(s) PROVE RetainerInv'
  <2>1. PICK r \in Retainer!Reading : planAsked' = [planAsked EXCEPT ![s] = r]
    BY <1>2 DEF Retainer!Asks
  <2>2. /\ \A t \in Pair : planAsked[t] = None
        /\ UNCHANGED <<plan, paid, top, held, waiting>>
    BY <1>2 DEF Retainer!Asks
  <2>3. r.held = held /\ (r.op = "change" => r.paid = paid)
    BY DEF Retainer!Reading
  <2>4. \A t \in Pair : planAsked'[t] # None => t = s /\ planAsked'[t] = r
    BY <1>1, <2>1, <2>2 DEF RetainerInv
  <2> QED BY <1>1, <2>1, <2>2, <2>3, <2>4 DEF RetainerInv
<1>3. ASSUME NEW s \in Pair, planAsked[s] # None, planAsked' = [planAsked EXCEPT ![s] = None],
             paid' \in Nat, top' = paid', held' \in Nat
      PROVE  RetainerInv'
  <2>1. \A t \in Pair : planAsked'[t] = None
    BY <1>1, <1>3 DEF RetainerInv
  <2> QED BY <1>1, <1>3, <2>1 DEF RetainerInv
<1>4. ASSUME NEW s \in Pair, NEW p \in Retainer!Plans, Retainer!ChangePlan(s, p)
      PROVE  RetainerInv'
  <2>1. PICK fee \in Nat : fee = Retainer!Fee[p]
    BY DEF Retainer!Plans, Retainer!Fee
  <2>2. PICK least \in Nat : least = Retainer!Retainer[p]
    BY DEF Retainer!Plans, Retainer!Retainer
  <2>3. /\ planAsked[s] # None /\ planAsked' = [planAsked EXCEPT ![s] = None]
        /\ planAsked[s].held = held /\ planAsked[s].paid = paid
        /\ paid \in Nat /\ top = paid /\ held \in Nat
    BY <1>1, <1>4 DEF Retainer!ChangePlan, Retainer!Asked, RetainerInv
  <2>4. /\ paid' = paid + Retainer!Max({0, fee - paid}) /\ top' = Retainer!Max({paid, fee})
        /\ held' = held + Retainer!Max({0, least - held})
    BY <1>4, <2>1, <2>2, <2>3 DEF Retainer!ChangePlan, Retainer!OnboardingDue
  <2>5. paid' \in Nat /\ top' = paid' /\ held' \in Nat
    BY <2>3, <2>4, GreaterOfTwo
  <2> QED BY <1>3, <2>3, <2>5
<1>5. ASSUME NEW s \in Pair, NEW amount \in 1 .. MaxHeld, Retainer!Release(s, amount)
      PROVE  RetainerInv'
  <2>1. /\ planAsked[s] # None /\ planAsked' = [planAsked EXCEPT ![s] = None]
        /\ amount <= held /\ held' = held - amount /\ UNCHANGED <<paid, top>>
        /\ paid \in Nat /\ top = paid /\ held \in Nat
    BY <1>1, <1>5 DEF Retainer!Release, Retainer!Asked, Retainer!Covered, RetainerInv
  <2>2. held' \in Nat
    BY <2>1, OrdersAssumption
  <2> QED BY <1>3, <2>1, <2>2
<1>6. ASSUME NEW s \in Pair, Retainer!Drop(s) PROVE RetainerInv'
  BY <1>1, <1>3, <1>6 DEF Retainer!Drop, RetainerInv
<1>7. CASE UNCHANGED retaining
  BY <1>7 DEF retaining, RetainerInv
<1> QED BY <1>2, <1>4, <1>5, <1>6, <1>7 DEF Retainer!Next

-----------------------------------------------------------------------------
(* One payment, and its refunds.                                           *)

PaymentRow == Refunds!PaymentRows
Held == {"written", "summed"}
RefundsTyped ==
  /\ payment \in [{i0} -> PaymentRow \cup {None}]
  /\ stripe \in [{i0} -> Refunds!StripeIntents \cup {None}]
  /\ request \in [Refunds!Keys -> {"idle", "locked", "called"}]
  /\ asked \in [Pair -> [intent : {i0}, amount : Amounts] \cup {None}]
  /\ DOMAIN run = Refunds!Events
  /\ \A e \in Refunds!Events : {"pc", "seen", "sum"} \subseteq DOMAIN run[e]

\* Before there is an intent there is nothing about it.
BeforeIntent ==
  /\ invoice \in [{v1} -> [status : {"none", "draft", "open", "paid"}, paid : {0}]]
  /\ payment[i0] = None /\ emitted = {}
  /\ \A k \in Single : request[k] # "called"
  /\ byKey = [k \in Single |-> None]
  /\ \A f \in Pair : request[f] = "idle"
  /\ hook = [e \in Refunds!Events |-> "none"] /\ job = [e \in Refunds!Events |-> "none"]
  /\ \A e \in Refunds!Events : run[e].pc = "resting"

\* A handler at work was started for what its event says.
HandlersInv ==
  \A e \in Refunds!Events :
    /\ run[e].pc \in {"read"} \cup Held =>
         /\ e.kind = "intent"
         /\ run[e].seen # "none" => payment[i0] \in PaymentRow

\* One refund at a time has the payment, or a handler has; and the refund fits.
LocksInv ==
  /\ \A f, g \in Pair : request[f] # "idle" /\ request[g] # "idle" => f = g
  /\ \A f \in Pair, e \in Refunds!Events : request[f] # "idle" => run[e].pc \notin Held
  /\ \A f \in Pair : request[f] # "idle" =>
       /\ payment[i0] \in PaymentRow /\ asked[f] \in [intent : {i0}, amount : Amounts]
       /\ payment[i0].refunded + asked[f].amount <= stripe[i0].amount

RefundsInv ==
  RefundsTyped /\ (stripe[i0] = None => BeforeIntent) /\ HandlersInv /\ LocksInv

LEMMA RefundsInit == ASSUME Refunds!Init PROVE RefundsInv
<1>1. /\ invoice = [v \in {v1} |-> [status |-> "none", paid |-> 0]]
      /\ payment = [i \in {i0} |-> None] /\ stripe = [i \in {i0} |-> None] /\ emitted = {}
      /\ request = [k \in Refunds!Keys |-> "idle"] /\ asked = [f \in Pair |-> None]
      /\ byKey = [k \in Single |-> None]
      /\ hook = [e \in Refunds!Events |-> "none"] /\ job = [e \in Refunds!Events |-> "none"]
      /\ run = [e \in Refunds!Events |-> Refunds!Resting]
  BY DEF Refunds!Init
<1>2. Refunds!Keys = Single \cup Pair
  BY DEF Refunds!Keys
<1>3. \A e \in Refunds!Events : run[e] = [pc |-> "resting", seen |-> "none", sum |-> 0]
  BY <1>1 DEF Refunds!Resting
<1>4. RefundsTyped
  BY <1>1, <1>3 DEF RefundsTyped
<1>5. BeforeIntent
  BY <1>1, <1>2, <1>3 DEF BeforeIntent
<1>6. HandlersInv /\ LocksInv
  BY <1>1, <1>2, <1>3 DEF HandlersInv, LocksInv, Held
<1> QED BY <1>4, <1>5, <1>6 DEF RefundsInv

\* A step that leaves the payment, what was asked and Stripe's amount alone, and takes no lock.
LEMMA LocksStay ==
  ASSUME RefundsInv, RefundsTyped', payment'[i0] = payment[i0], asked' = asked,
         stripe[i0] # None => stripe'[i0] # None /\ stripe'[i0].amount = stripe[i0].amount,
         \A f \in Pair : request'[f] # "idle" => request[f] # "idle",
         \A e \in Refunds!Events : run'[e].pc \in Held => run[e].pc \in Held
  PROVE  LocksInv'
<1>1. \A f \in Pair : request[f] # "idle" => stripe[i0] # None
  BY DEF RefundsInv, BeforeIntent
<1> QED BY <1>1 DEF RefundsInv, LocksInv

LEMMA EventIs ==
  ASSUME NEW e \in Refunds!Events
  PROVE  /\ e.intent = i0 /\ e.kind \in {"intent", "refund"}
         /\ e.kind = "intent" => e.status \in Refunds!IntentStatus
         /\ e.kind = "refund" => e.amount \in Amounts
BY DEF Refunds!Events

\* Neither the payment, nor Stripe's record, nor a handler.
LEMMA Elsewhere ==
  ASSUME RefundsInv, UNCHANGED <<payment, stripe, asked, run>>,
         request' \in [Refunds!Keys -> {"idle", "locked", "called"}],
         \A f \in Pair : request'[f] # "idle" => request[f] # "idle",
         stripe[i0] = None => BeforeIntent'
  PROVE  RefundsInv'
<1>1. RefundsTyped'
  BY DEF RefundsInv, RefundsTyped
<1>2. LocksInv'
  BY <1>1, LocksStay
<1>3. HandlersInv'
  BY DEF RefundsInv, HandlersInv
<1> QED BY <1>1, <1>2, <1>3 DEF RefundsInv

\* Stripe's record changes, but not its amount.
LEMMA AtStripe ==
  ASSUME RefundsInv, NEW r \in Refunds!StripeIntents, stripe' = [stripe EXCEPT ![i0] = r],
         stripe[i0] # None => r.amount = stripe[i0].amount,
         UNCHANGED <<payment, asked, run>>,
         request' \in [Refunds!Keys -> {"idle", "locked", "called"}],
         \A f \in Pair : request'[f] # "idle" => request[f] # "idle"
  PROVE  RefundsInv'
<1>1. RefundsTyped' /\ stripe'[i0] = r
  BY DEF RefundsInv, RefundsTyped
<1>2. stripe'[i0] # None
  BY <1>1, RefundsAssumption
<1>3. LocksInv'
  BY <1>1, <1>2, LocksStay
<1>4. HandlersInv'
  BY DEF RefundsInv, HandlersInv
<1> QED BY <1>1, <1>2, <1>3, <1>4 DEF RefundsInv

\* A handler goes on: it writes only what nobody has locked.
LEMMA AtWork ==
  ASSUME RefundsInv, stripe[i0] # None, NEW e \in Refunds!Events, NEW h,
         run' = [run EXCEPT ![e] = h], {"pc", "seen", "sum"} \subseteq DOMAIN h,
         UNCHANGED <<stripe, asked>>,
         request' \in [Refunds!Keys -> {"idle", "locked", "called"}],
         \A f \in Pair : request'[f] # "idle" => request[f] # "idle",
         payment' \in [{i0} -> PaymentRow \cup {None}],
         payment[i0] \in PaymentRow => payment'[i0] \in PaymentRow,
         \/ payment' = payment /\ (h.pc \in Held => run[e].pc \in Held)
         \/ \A f \in Pair : request[f] = "idle",
         h.pc \in {"read"} \cup Held =>
           e.kind = "intent" /\ (h.seen # "none" => payment'[i0] \in PaymentRow)
  PROVE  RefundsInv'
<1>1. \A d \in Refunds!Events : run'[d] = IF d = e THEN h ELSE run[d]
  BY DEF RefundsInv, RefundsTyped
<1>2. RefundsTyped'
  BY <1>1 DEF RefundsInv, RefundsTyped
<1>3. LocksInv'
  <2>1. CASE payment' = payment /\ (h.pc \in Held => run[e].pc \in Held)
    BY <1>1, <1>2, <2>1, LocksStay
  <2>2. CASE \A f \in Pair : request[f] = "idle"
    BY <2>2 DEF LocksInv
  <2> QED BY <2>1, <2>2
<1>4. HandlersInv'
  BY <1>1 DEF RefundsInv, HandlersInv
<1> QED BY <1>2, <1>3, <1>4 DEF RefundsInv

LEMMA FreePayment ==
  ASSUME RefundsInv, Refunds!PaymentFree(i0)
  PROVE  /\ \A f \in Pair : request[f] = "idle"
         /\ \A e \in Refunds!Events : run[e].pc \notin Held
<1>1. ASSUME NEW f \in Pair, request[f] # "idle" PROVE FALSE
  <2>1. asked[f].intent = i0
    BY <1>1 DEF RefundsInv, LocksInv
  <2> QED BY <1>1, <2>1 DEF Refunds!PaymentFree
<1>2. \A e \in Refunds!Events : run[e].pc \notin Held
  BY EventIs DEF Refunds!PaymentFree, Held
<1> QED BY <1>1, <1>2

\* A transaction that ends without a trace.
LEMMA RolledBack ==
  ASSUME RefundsInv, NEW k \in Refunds!Keys, request' = [request EXCEPT ![k] = "idle"]
  PROVE  /\ request' \in [Refunds!Keys -> {"idle", "locked", "called"}]
         /\ \A j \in Refunds!Keys : request'[j] = request[j] \/ request'[j] = "idle"
BY DEF RefundsInv, RefundsTyped

\* Invoices, and what a request for a payment does.
LEMMA IntentSteps ==
  ASSUME RefundsInv,
         \/ \E v \in {v1} : \/ \E s \in {"draft", "open"} : Refunds!CreateInvoice(v, s)
                            \/ Refunds!SendReads(v) \/ Refunds!SendWrites(v)
         \/ \E k \in Single : Refunds!BeginIntent(k) \/ Refunds!PayRequest(k)
  PROVE  RefundsInv'
<1> USE DEF Refunds!Keys
<1>0. \A k \in Single : k \notin Pair
  BY RefundsAssumption
<1>1. ASSUME NEW s \in {"draft", "open"}, Refunds!CreateInvoice(v1, s) PROVE RefundsInv'
  <2>1. invoice' = [invoice EXCEPT ![v1].status = s]
        /\ UNCHANGED <<payment, stripe, asked, run, request, emitted, byKey, hook, job>>
    BY <1>1 DEF Refunds!CreateInvoice, Refunds!requests, Refunds!provider, Refunds!jobs
  <2>2. stripe[i0] = None => BeforeIntent'
    BY <2>1 DEF RefundsInv, BeforeIntent
  <2> QED BY <2>1, <2>2, Elsewhere DEF RefundsInv, RefundsTyped
<1>2. ASSUME Refunds!SendReads(v1) \/ Refunds!SendWrites(v1) PROVE RefundsInv'
  <2>1. (invoice' = invoice \/ invoice' = [invoice EXCEPT ![v1].status = "open"])
        /\ UNCHANGED <<payment, stripe, asked, run, request, emitted, byKey, hook, job>>
    BY <1>2 DEF Refunds!SendReads, Refunds!SendWrites, Refunds!requests, Refunds!provider,
                Refunds!jobs
  <2>2. stripe[i0] = None => BeforeIntent'
    BY <2>1 DEF RefundsInv, BeforeIntent
  <2> QED BY <2>1, <2>2, Elsewhere DEF RefundsInv, RefundsTyped
<1>3. ASSUME NEW k \in Single, Refunds!BeginIntent(k) PROVE RefundsInv'
  <2>1. request' = [request EXCEPT ![k] = "locked"]
        /\ UNCHANGED <<invoice, payment, stripe, asked, run, emitted, byKey, hook, job>>
    BY <1>3 DEF Refunds!BeginIntent, Refunds!ClaimKey, Refunds!rows, Refunds!provider,
                Refunds!jobs
  <2>2. /\ request' \in [Single \cup Pair -> {"idle", "locked", "called"}]
        /\ \A f \in Pair : request'[f] = request[f]
        /\ \A j \in Single : request'[j] = request[j] \/ request'[j] = "locked"
    BY <1>0, <2>1 DEF RefundsInv, RefundsTyped
  <2>3. stripe[i0] = None => BeforeIntent'
    BY <2>1, <2>2 DEF RefundsInv, BeforeIntent
  <2> QED BY <2>1, <2>2, <2>3, Elsewhere
<1>4. ASSUME NEW k \in Single, NEW i \in {i0}, Refunds!StripeCreates(k, i) PROVE RefundsInv'
  <2>1. request' = [request EXCEPT ![k] = "called"]
        /\ UNCHANGED <<invoice, payment, asked, run, emitted, hook, job>>
    BY <1>4 DEF Refunds!StripeCreates, Refunds!rows, Refunds!jobs
  <2>2. /\ request' \in [Single \cup Pair -> {"idle", "locked", "called"}]
        /\ \A f \in Pair : request'[f] = request[f]
    BY <1>0, <2>1 DEF RefundsInv, RefundsTyped
  <2>3. CASE byKey[k] = i /\ stripe' = stripe
    <3>1. stripe[i0] # None
      BY <2>3, RefundsAssumption DEF RefundsInv, BeforeIntent
    <3> QED BY <2>1, <2>2, <2>3, <3>1, Elsewhere
  <2>4. CASE ~ (byKey[k] = i /\ stripe' = stripe)
    <3>1. /\ stripe[i0] = None
          /\ stripe' = [stripe EXCEPT ![i0] =
               [status |-> "requires_payment_method", invoice |-> v1,
                amount |-> Price - invoice[v1].paid, refunded |-> 0]]
      BY <1>4, <2>4 DEF Refunds!StripeCreates
    <3>2. PICK r : r = [status |-> "requires_payment_method", invoice |-> v1,
                        amount |-> Price - invoice[v1].paid, refunded |-> 0]
      OBVIOUS
    <3>3. invoice[v1].paid = 0
      BY <3>1 DEF RefundsInv, BeforeIntent
    <3>4. r \in Refunds!StripeIntents
      BY <3>2, <3>3, RefundsAssumption DEF Refunds!StripeIntents, Refunds!IntentStatus
    <3>5. stripe' = [stripe EXCEPT ![i0] = r]
      BY <3>1, <3>2
    <3> QED BY <2>1, <2>2, <3>1, <3>4, <3>5, AtStripe
  <2> QED BY <2>3, <2>4
<1>5. ASSUME NEW k \in Single, Refunds!CommitIntent(k) PROVE RefundsInv'
  <2>1. /\ request[k] = "called" /\ request' = [request EXCEPT ![k] = "idle"]
        /\ Refunds!PaymentFree(byKey[k])
        /\ UNCHANGED <<invoice, stripe, asked, run, emitted, byKey, hook, job>>
    BY <1>5 DEF Refunds!CommitIntent, Refunds!jobs
  <2>2. stripe[i0] # None
    BY <2>1 DEF RefundsInv, BeforeIntent
  <2>3. /\ request' \in [Single \cup Pair -> {"idle", "locked", "called"}]
        /\ \A f \in Pair : request'[f] = request[f]
    BY <1>0, <2>1, RolledBack DEF RefundsInv, RefundsTyped
  <2>4. CASE byKey[k] # i0
    <3>1. payment' = payment
      BY <1>5, <2>4 DEF Refunds!CommitIntent, RefundsInv, RefundsTyped
    <3> QED BY <2>1, <2>2, <2>3, <3>1, Elsewhere
  <2>5. CASE byKey[k] = i0
    <3>1. PICK r : /\ payment' = [payment EXCEPT ![i0] = r]
                   /\ r = IF payment[i0] = None
                          THEN [status |-> "requires_payment_method", refunded |-> 0, key |-> k]
                          ELSE [payment[i0] EXCEPT !.status = "requires_payment_method"]
      BY <1>5, <2>5 DEF Refunds!CommitIntent
    <3>2. r \in PaymentRow
      <4>1. payment[i0] \in PaymentRow \cup {None}
        BY DEF RefundsInv, RefundsTyped
      <4>2. CASE payment[i0] = None
        BY <3>1, <4>2 DEF PaymentRow, Refunds!PaymentRows, Refunds!IntentStatus
      <4>3. CASE payment[i0] \in PaymentRow /\ payment[i0] # None
        BY <3>1, <4>3 DEF PaymentRow, Refunds!PaymentRows, Refunds!IntentStatus
      <4> QED BY <4>1, <4>2, <4>3
    <3>3. payment' \in [{i0} -> PaymentRow \cup {None}] /\ payment'[i0] \in PaymentRow
      BY <3>1, <3>2 DEF RefundsInv, RefundsTyped
    <3>4. \A f \in Pair : request'[f] = "idle"
      BY <2>1, <2>3, <2>5, FreePayment
    <3>5. RefundsTyped'
      BY <2>1, <2>3, <3>3 DEF RefundsInv, RefundsTyped
    <3>6. LocksInv'
      BY <3>4 DEF LocksInv
    <3>7. HandlersInv'
      BY <2>1, <3>3 DEF RefundsInv, HandlersInv
    <3> QED BY <2>1, <2>2, <3>5, <3>6, <3>7 DEF RefundsInv
  <2> QED BY <2>4, <2>5
<1>6. ASSUME NEW k \in Single, Refunds!IndexRefuses(k) PROVE RefundsInv'
  <2>1. /\ request[k] = "called" /\ request' = [request EXCEPT ![k] = "idle"]
        /\ UNCHANGED <<payment, stripe, asked, run>>
    BY <1>6 DEF Refunds!IndexRefuses, Refunds!rows, Refunds!provider, Refunds!jobs
  <2>2. stripe[i0] # None
    BY <2>1 DEF RefundsInv, BeforeIntent
  <2> QED BY <2>1, <2>2, RolledBack, Elsewhere
<1> QED BY <1>1, <1>2, <1>3, <1>4, <1>5, <1>6 DEF Refunds!PayRequest

\* A request for a refund has the payment from its read to its end.
LEMMA RefundSteps ==
  ASSUME RefundsInv, NEW f \in Pair,
         \/ \E i \in {i0}, a \in Amounts : Refunds!BeginRefund(f, i, a)
         \/ Refunds!RefundRequest(f)
  PROVE  RefundsInv'
<1> USE DEF Refunds!Keys
<1>1. ASSUME NEW a \in Amounts, Refunds!BeginRefund(f, i0, a) PROVE RefundsInv'
  <2>1. /\ request[f] = "idle" /\ request' = [request EXCEPT ![f] = "locked"]
        /\ asked' = [asked EXCEPT ![f] = [intent |-> i0, amount |-> a]]
        /\ Refunds!PaymentFree(i0) /\ payment[i0] # None
        /\ a <= stripe[i0].amount - payment[i0].refunded
        /\ UNCHANGED <<payment, stripe, run>>
    BY <1>1 DEF Refunds!BeginRefund, Refunds!ClaimKey, Refunds!rows, Refunds!provider,
                Refunds!jobs
  <2>2. /\ \A g \in Pair : request[g] = "idle"
        /\ \A e \in Refunds!Events : run[e].pc \notin Held
    BY <2>1, FreePayment
  <2>3. /\ request' \in [Single \cup Pair -> {"idle", "locked", "called"}]
        /\ \A g \in Pair : request'[g] # "idle" => g = f
    BY <2>1, <2>2 DEF RefundsInv, RefundsTyped
  <2>4. /\ asked' \in [Pair -> [intent : {i0}, amount : Amounts] \cup {None}]
        /\ asked'[f] = [intent |-> i0, amount |-> a]
    BY <2>1 DEF RefundsInv, RefundsTyped
  <2>5. stripe[i0] # None
    BY <2>1 DEF RefundsInv, BeforeIntent
  <2>6. stripe[i0].amount \in Nat
    <3>1. stripe[i0] \in Refunds!StripeIntents
      BY <2>5 DEF RefundsInv, RefundsTyped
    <3> QED BY <3>1 DEF Refunds!StripeIntents
  <2>7. payment[i0] \in PaymentRow /\ payment[i0].refunded \in Nat
    <3>1. payment[i0] \in PaymentRow
      BY <2>1 DEF RefundsInv, RefundsTyped
    <3> QED BY <3>1 DEF PaymentRow, Refunds!PaymentRows
  <2>8. payment[i0].refunded + a <= stripe[i0].amount
    BY <2>1, <2>6, <2>7, RefundsAssumption
  <2>9. LocksInv'
    BY <2>1, <2>2, <2>3, <2>4, <2>7, <2>8 DEF LocksInv
  <2>10. RefundsTyped'
    BY <2>1, <2>3, <2>4 DEF RefundsInv, RefundsTyped
  <2>11. HandlersInv'
    BY <2>1 DEF RefundsInv, HandlersInv
  <2> QED BY <2>1, <2>5, <2>9, <2>10, <2>11 DEF RefundsInv
<1>2. ASSUME request[f] # "idle"
      PROVE  /\ stripe[i0] # None /\ stripe[i0] \in Refunds!StripeIntents
             /\ payment[i0] \in PaymentRow
             /\ asked[f].intent = i0 /\ asked[f].amount \in Amounts
  BY <1>2 DEF RefundsInv, BeforeIntent, RefundsTyped, LocksInv
<1>3. CASE Refunds!StripeRefunds(f)
  <2>1. /\ request[f] = "locked" /\ request' = [request EXCEPT ![f] = "called"]
        /\ UNCHANGED <<payment, asked, run>>
    BY <1>3 DEF Refunds!StripeRefunds, Refunds!rows, Refunds!jobs
  <2>2. /\ request' \in [Single \cup Pair -> {"idle", "locked", "called"}]
        /\ \A g \in Pair : request'[g] # "idle" => request[g] # "idle"
    BY <2>1 DEF RefundsInv, RefundsTyped
  <2>3. CASE stripe' = stripe
    BY <1>2, <2>1, <2>2, <2>3, Elsewhere
  <2>4. CASE stripe' # stripe
    <3>1. stripe' = [stripe EXCEPT ![i0].refunded = stripe[i0].refunded + asked[f].amount]
      BY <1>2, <1>3, <2>1, <2>4 DEF Refunds!StripeRefunds
    <3>2. PICK r : /\ stripe' = [stripe EXCEPT ![i0] = r]
                   /\ r = [stripe[i0] EXCEPT !.refunded = stripe[i0].refunded + asked[f].amount]
      BY <3>1
    <3>3. r \in Refunds!StripeIntents /\ r.amount = stripe[i0].amount
      BY <1>2, <2>1, <3>2, RefundsAssumption DEF Refunds!StripeIntents
    <3> QED BY <2>1, <2>2, <3>2, <3>3, AtStripe
  <2> QED BY <2>3, <2>4
<1>4. CASE Refunds!StripeRefuses(f) \/ Refunds!RefundMisfits(f)
  <2>1. /\ request[f] # "idle" /\ request' = [request EXCEPT ![f] = "idle"]
        /\ UNCHANGED <<payment, stripe, asked, run>>
    BY <1>4 DEF Refunds!StripeRefuses, Refunds!RefundMisfits, Refunds!rows, Refunds!provider,
                Refunds!jobs
  <2> QED BY <1>2, <2>1, RolledBack, Elsewhere
<1>5. CASE Refunds!CommitRefund(f)
  <2>1. /\ request[f] = "called" /\ request' = [request EXCEPT ![f] = "idle"]
        /\ UNCHANGED <<stripe, asked, run>>
    BY <1>5 DEF Refunds!CommitRefund, Refunds!provider, Refunds!jobs
  <2>2. PICK total \in Nat : total = payment[i0].refunded + asked[f].amount
    <3>1. payment[i0].refunded \in Nat
      BY <1>2, <2>1 DEF PaymentRow, Refunds!PaymentRows
    <3>2. asked[f].amount \in Nat
      BY <1>2, <2>1, RefundsAssumption
    <3> QED BY <3>1, <3>2
  <2>3. PICK s : /\ s = Refunds!RefundStatus(i0, total, payment[i0].status)
                 /\ s \in Refunds!IntentStatus \cup {"refunded", "partially_refunded"}
    BY <1>2, <2>1 DEF Refunds!RefundStatus, PaymentRow, Refunds!PaymentRows
  <2>4. PICK r : /\ payment' = [payment EXCEPT ![i0] = r]
                 /\ r = [payment[i0] EXCEPT !.refunded = total, !.status = s]
    BY <1>2, <1>5, <2>1, <2>2, <2>3 DEF Refunds!CommitRefund
  <2>5. r \in PaymentRow
    BY <1>2, <2>1, <2>3, <2>4 DEF PaymentRow, Refunds!PaymentRows
  <2>6. payment' \in [{i0} -> PaymentRow \cup {None}] /\ payment'[i0] \in PaymentRow
    BY <2>4, <2>5 DEF RefundsInv, RefundsTyped
  <2>7. /\ request' \in [Single \cup Pair -> {"idle", "locked", "called"}]
        /\ \A g \in Pair : request'[g] = "idle"
    BY <2>1 DEF RefundsInv, RefundsTyped, LocksInv
  <2>8. RefundsTyped'
    BY <2>1, <2>6, <2>7 DEF RefundsInv, RefundsTyped
  <2>9. LocksInv'
    BY <2>7 DEF LocksInv
  <2>10. HandlersInv'
    BY <2>1, <2>6 DEF RefundsInv, HandlersInv
  <2> QED BY <1>2, <2>1, <2>8, <2>9, <2>10 DEF RefundsInv
<1> QED BY <1>1, <1>3, <1>4, <1>5 DEF Refunds!RefundRequest

\* What Stripe does of itself, what is rolled back, and what is forgotten.
LEMMA OutsideSteps ==
  ASSUME RefundsInv,
         \/ \E k \in Refunds!Keys : Refunds!Abort(k) \/ Refunds!CleanupIdempotency(k)
         \/ \E i \in {i0} : \/ \E s \in Refunds!IntentStatus : Refunds!StripeMoves(i, s)
                            \/ \E a \in Amounts : Refunds!DashboardRefund(i, a)
  PROVE  RefundsInv'
<1>0. \A f \in Pair : f \in Refunds!Keys
  BY DEF Refunds!Keys
<1>1. ASSUME NEW k \in Refunds!Keys, Refunds!Abort(k) PROVE RefundsInv'
  <2>1. /\ request' = [request EXCEPT ![k] = "idle"]
        /\ UNCHANGED <<invoice, payment, stripe, asked, run, emitted, byKey, hook, job>>
    BY <1>1 DEF Refunds!Abort, Refunds!rows, Refunds!provider, Refunds!jobs
  <2>2. /\ request' \in [Refunds!Keys -> {"idle", "locked", "called"}]
        /\ \A j \in Refunds!Keys : request'[j] = request[j] \/ request'[j] = "idle"
    BY <2>1, RolledBack
  <2>3. stripe[i0] = None => BeforeIntent'
    BY <2>1, <2>2 DEF RefundsInv, BeforeIntent, Refunds!Keys
  <2> QED BY <1>0, <2>1, <2>2, <2>3, Elsewhere
<1>2. ASSUME NEW k \in Refunds!Keys, Refunds!CleanupIdempotency(k) PROVE RefundsInv'
  <2>1. /\ byKey' = byKey \/ byKey' = [byKey EXCEPT ![k] = None]
        /\ UNCHANGED <<invoice, payment, stripe, asked, run, emitted, request, hook, job>>
    BY <1>2 DEF Refunds!CleanupIdempotency, Refunds!rows, Refunds!jobs
  <2>2. stripe[i0] = None => BeforeIntent'
    BY <2>1 DEF RefundsInv, BeforeIntent
  <2> QED BY <2>1, <2>2, Elsewhere DEF RefundsInv, RefundsTyped
<1>3. ASSUME stripe[i0] # None, NEW r, stripe' = [stripe EXCEPT ![i0] = r],
             r \in Refunds!StripeIntents, r.amount = stripe[i0].amount,
             UNCHANGED <<payment, asked, run, request>>
      PROVE  RefundsInv'
  BY <1>3, AtStripe DEF RefundsInv, RefundsTyped
<1>4. ASSUME NEW s \in Refunds!IntentStatus, Refunds!StripeMoves(i0, s) PROVE RefundsInv'
  <2>1. /\ stripe[i0] # None /\ stripe' = [stripe EXCEPT ![i0].status = s]
        /\ UNCHANGED <<payment, asked, run, request>>
    BY <1>4 DEF Refunds!StripeMoves, Refunds!rows, Refunds!requests, Refunds!jobs
  <2>2. PICK r : stripe' = [stripe EXCEPT ![i0] = r] /\ r = [stripe[i0] EXCEPT !.status = s]
    BY <2>1
  <2>3. stripe[i0] \in Refunds!StripeIntents
    BY <2>1 DEF RefundsInv, RefundsTyped
  <2>4. r \in Refunds!StripeIntents /\ r.amount = stripe[i0].amount
    BY <2>2, <2>3 DEF Refunds!StripeIntents
  <2> QED BY <1>3, <2>1, <2>2, <2>4
<1>5. ASSUME NEW a \in Amounts, Refunds!DashboardRefund(i0, a) PROVE RefundsInv'
  <2>1. /\ stripe[i0] # None
        /\ stripe' = [stripe EXCEPT ![i0].refunded = stripe[i0].refunded + a]
        /\ UNCHANGED <<payment, asked, run, request>>
    BY <1>5 DEF Refunds!DashboardRefund, Refunds!rows, Refunds!requests, Refunds!jobs
  <2>2. PICK r : /\ stripe' = [stripe EXCEPT ![i0] = r]
                 /\ r = [stripe[i0] EXCEPT !.refunded = stripe[i0].refunded + a]
    BY <2>1
  <2>3. stripe[i0] \in Refunds!StripeIntents
    BY <2>1 DEF RefundsInv, RefundsTyped
  <2>4. r \in Refunds!StripeIntents /\ r.amount = stripe[i0].amount
    BY <2>2, <2>3, RefundsAssumption DEF Refunds!StripeIntents
  <2> QED BY <1>3, <2>1, <2>2, <2>4
<1> QED BY <1>1, <1>2, <1>4, <1>5

\* What a handler does next, and what it writes.
LEMMA HandlerGoes ==
  ASSUME RefundsInv, NEW e \in Refunds!Events, NEW pc, Refunds!Goto(e, pc)
  PROVE  \E h : /\ run' = [run EXCEPT ![e] = h] /\ {"pc", "seen", "sum"} \subseteq DOMAIN h
                /\ h.pc = pc /\ h.seen = run[e].seen
<1>1. PICK h : run' = [run EXCEPT ![e] = h] /\ h = [run[e] EXCEPT !.pc = pc]
  BY DEF Refunds!Goto
<1>2. {"pc", "seen", "sum"} \subseteq DOMAIN run[e]
  BY DEF RefundsInv, RefundsTyped
<1>3. DOMAIN h = DOMAIN run[e] /\ h.pc = pc /\ h.seen = run[e].seen
  BY <1>1, <1>2
<1> QED BY <1>1, <1>2, <1>3

LEMMA HandlerRests ==
  ASSUME NEW e \in Refunds!Events, Refunds!Rest(e)
  PROVE  \E h : /\ run' = [run EXCEPT ![e] = h] /\ {"pc", "seen", "sum"} \subseteq DOMAIN h
                /\ h.pc = "resting"
<1>1. PICK h : h = Refunds!Resting
  OBVIOUS
<1>2. {"pc", "seen", "sum"} \subseteq DOMAIN h /\ h.pc = "resting"
  BY <1>1 DEF Refunds!Resting
<1>3. run' = [run EXCEPT ![e] = h]
  BY <1>1 DEF Refunds!Rest
<1> QED BY <1>2, <1>3

LEMMA RowWrites ==
  ASSUME RefundsInv, NEW e \in Refunds!Events, run[e].pc \in {"read"} \cup Held
  PROVE  Refunds!Written(e) \in PaymentRow
<1>1. /\ e.intent = i0 /\ e.status \in Refunds!IntentStatus
      /\ run[e].seen # "none" => payment[i0] \in PaymentRow
  BY EventIs DEF RefundsInv, HandlersInv
<1>2. CASE run[e].seen = "none"
  BY <1>1, <1>2 DEF Refunds!Written, PaymentRow, Refunds!PaymentRows
<1>3. CASE run[e].seen # "none"
  <2>1. PICK r \in PaymentRow : r = payment[i0]
    BY <1>1, <1>3
  <2>2. Refunds!Written(e) = [r EXCEPT !.status = e.status]
    BY <1>1, <1>3, <2>1 DEF Refunds!Written
  <2>3. [r EXCEPT !.status = e.status] \in PaymentRow
    BY <1>1 DEF PaymentRow, Refunds!PaymentRows
  <2> QED BY <2>2, <2>3
<1> QED BY <1>2, <1>3

\* The payment is written by a handler that has it, or when nobody has.
LEMMA HandlerWrites ==
  ASSUME RefundsInv, stripe[i0] # None, NEW e \in Refunds!Events,
         Refunds!Goto(e, "applied"), NEW r \in PaymentRow, payment' = [payment EXCEPT ![i0] = r],
         UNCHANGED <<stripe, asked, request>>, \A f \in Pair : request[f] = "idle"
  PROVE  RefundsInv'
<1>1. PICK h : /\ run' = [run EXCEPT ![e] = h] /\ {"pc", "seen", "sum"} \subseteq DOMAIN h
               /\ h.pc = "applied"
  BY HandlerGoes
<1>2. payment' \in [{i0} -> PaymentRow \cup {None}] /\ payment'[i0] \in PaymentRow
  BY DEF RefundsInv, RefundsTyped
<1>3. request' \in [Refunds!Keys -> {"idle", "locked", "called"}]
  BY DEF RefundsInv, RefundsTyped
<1> QED BY <1>1, <1>2, <1>3, AtWork DEF Held

\* A handler that writes nothing and takes no lock.
LEMMA HandlerPasses ==
  ASSUME RefundsInv, stripe[i0] # None, NEW e \in Refunds!Events,
         UNCHANGED <<payment, stripe, asked, request>>,
         \/ \E pc \in {"started", "applied", "marked"} : Refunds!Goto(e, pc)
         \/ Refunds!Rest(e)
  PROVE  RefundsInv'
<1>1. PICK h : /\ run' = [run EXCEPT ![e] = h] /\ {"pc", "seen", "sum"} \subseteq DOMAIN h
               /\ h.pc \in {"started", "applied", "marked", "resting"}
  BY HandlerGoes, HandlerRests
<1>2. request' \in [Refunds!Keys -> {"idle", "locked", "called"}]
      /\ payment' \in [{i0} -> PaymentRow \cup {None}]
  BY DEF RefundsInv, RefundsTyped
<1> QED BY <1>1, <1>2, AtWork DEF Held

LEMMA HandlerSteps ==
  ASSUME RefundsInv, NEW e \in Refunds!Events,
         \/ Refunds!Deliver(e) \/ Refunds!Handle(e) \/ Refunds!HandlerFails(e)
         \/ Refunds!WorkerDies(e) \/ Refunds!RetryFailedWebhook(e)
  PROVE  RefundsInv'
<1> USE DEF Refunds!rows, Refunds!requests, Refunds!provider, Refunds!At
<1>0. /\ e.intent = i0
      /\ request \in [Refunds!Keys -> {"idle", "locked", "called"}]
      /\ payment \in [{i0} -> PaymentRow \cup {None}]
  BY EventIs DEF RefundsInv, RefundsTyped
<1>1. /\ run[e].pc # "resting" => stripe[i0] # None
      /\ hook[e] # "none" \/ job[e] # "none" => stripe[i0] # None
  BY DEF RefundsInv, BeforeIntent
<1>2. CASE Refunds!Deliver(e) \/ Refunds!RetryFailedWebhook(e)
  <2>1. stripe[i0] # None /\ UNCHANGED <<payment, stripe, asked, run, request>>
    BY <1>1, <1>2 DEF Refunds!Deliver, Refunds!RetryFailedWebhook, RefundsInv, BeforeIntent
  <2> QED BY <1>0, <2>1, Elsewhere
<1>3. CASE Refunds!Start(e)
  <2>1. stripe[i0] # None /\ UNCHANGED <<payment, stripe, asked, request>>
    BY <1>1, <1>3 DEF Refunds!Start
  <2>2. CASE run' = run
    BY <1>0, <2>1, <2>2, Elsewhere
  <2>3. CASE Refunds!Goto(e, "started")
    BY <2>1, <2>3, HandlerPasses
  <2> QED BY <1>3, <2>2, <2>3 DEF Refunds!Start
<1>4. CASE \/ Refunds!NothingToDo(e) \/ Refunds!MarkProcessed(e)
           \/ Refunds!JobSucceeds(e) \/ Refunds!InsertConflicts(e)
  <2>1. run[e].pc # "resting" /\ UNCHANGED <<payment, stripe, asked, request>>
    BY <1>4 DEF Refunds!NothingToDo, Refunds!MarkProcessed, Refunds!JobSucceeds,
                Refunds!InsertConflicts
  <2>2. \/ \E pc \in {"started", "applied", "marked"} : Refunds!Goto(e, pc)
        \/ Refunds!Rest(e)
    BY <1>4 DEF Refunds!NothingToDo, Refunds!MarkProcessed, Refunds!JobSucceeds,
                Refunds!InsertConflicts
  <2> QED BY <1>1, <2>1, <2>2, HandlerPasses
<1>5. CASE Refunds!HandlerFails(e) \/ Refunds!WorkerDies(e)
  <2>1. /\ run[e].pc # "resting" /\ UNCHANGED <<payment, stripe, asked, request>>
        /\ Refunds!Rest(e)
    BY <1>5 DEF Refunds!HandlerFails, Refunds!WorkerDies
  <2> QED BY <1>1, <2>1, HandlerPasses
<1>6. CASE Refunds!ReadPayment(e)
  <2>1. /\ run[e].pc # "resting" /\ e.kind = "intent"
        /\ UNCHANGED <<payment, stripe, asked, request>>
    BY <1>6 DEF Refunds!ReadPayment
  <2>2. PICK seen_ : seen_ = IF payment[i0] = None THEN "none" ELSE payment[i0].status
    OBVIOUS
  <2>3. PICK h : run' = [run EXCEPT ![e] = h] /\ h = [run[e] EXCEPT !.pc = "read", !.seen = seen_]
    BY <1>0, <1>6, <2>2 DEF Refunds!ReadPayment
  <2>4. {"pc", "seen", "sum"} \subseteq DOMAIN run[e]
    BY DEF RefundsInv, RefundsTyped
  <2>5. DOMAIN h = DOMAIN run[e] /\ h.pc = "read" /\ h.seen = seen_
    BY <2>3, <2>4
  <2>6. seen_ # "none" => payment[i0] \in PaymentRow
    BY <1>0, <2>2
  <2> QED BY <1>0, <1>1, <2>1, <2>3, <2>4, <2>5, <2>6, AtWork DEF Held
<1>7. CASE Refunds!WriteStatus(e)
  <2>1. /\ run[e].pc = "read" /\ Refunds!PaymentFree(i0) /\ Refunds!Goto(e, "applied")
        /\ UNCHANGED <<stripe, asked, request>>
        /\ payment' = [payment EXCEPT ![i0] = Refunds!Written(e)]
    BY <1>0, <1>7 DEF Refunds!WriteStatus, Refunds!MayWrite
  <2>2. PICK r \in PaymentRow : r = Refunds!Written(e)
    BY <2>1, RowWrites
  <2> QED BY <1>1, <2>1, <2>2, FreePayment, HandlerWrites
<1>8. CASE Refunds!WriteSuccess(e)
  <2>1. /\ run[e].pc = "read" /\ Refunds!PaymentFree(i0) /\ Refunds!Goto(e, "written")
        /\ UNCHANGED <<payment, stripe, asked, request>>
    BY <1>0, <1>8 DEF Refunds!WriteSuccess, Refunds!MayWrite
  <2>2. PICK h : /\ run' = [run EXCEPT ![e] = h] /\ {"pc", "seen", "sum"} \subseteq DOMAIN h
                 /\ h.pc = "written" /\ h.seen = run[e].seen
    BY <2>1, HandlerGoes
  <2>3. e.kind = "intent" /\ (h.seen # "none" => payment'[i0] \in PaymentRow)
    BY <2>1, <2>2 DEF RefundsInv, HandlersInv
  <2>4. \A f \in Pair : request[f] = "idle"
    BY <2>1, FreePayment
  <2> QED BY <1>0, <1>1, <2>1, <2>2, <2>3, <2>4, AtWork
<1>9. CASE Refunds!SumPayments(e)
  <2>1. run[e].pc = "written" /\ UNCHANGED <<payment, stripe, asked, request>>
    BY <1>9 DEF Refunds!SumPayments
  <2>2. PICK sum : sum = Refunds!Counted(e)
    OBVIOUS
  <2>3. PICK h : run' = [run EXCEPT ![e] = h] /\ h = [run[e] EXCEPT !.pc = "summed", !.sum = sum]
    BY <1>9, <2>2 DEF Refunds!SumPayments
  <2>4. {"pc", "seen", "sum"} \subseteq DOMAIN run[e]
    BY DEF RefundsInv, RefundsTyped
  <2>5. DOMAIN h = DOMAIN run[e] /\ h.pc = "summed" /\ h.seen = run[e].seen
    BY <2>3, <2>4
  <2>6. e.kind = "intent" /\ (h.seen # "none" => payment'[i0] \in PaymentRow)
    BY <2>1, <2>5 DEF RefundsInv, HandlersInv, Held
  <2> QED BY <1>0, <1>1, <2>1, <2>3, <2>4, <2>5, <2>6, AtWork DEF Held
<1>10. CASE Refunds!CommitSuccess(e)
  <2>1. /\ run[e].pc = "summed" /\ Refunds!Goto(e, "applied")
        /\ UNCHANGED <<stripe, asked, request>>
        /\ payment' = [payment EXCEPT ![i0] = Refunds!Written(e)]
    BY <1>0, <1>10 DEF Refunds!CommitSuccess
  <2>2. PICK r \in PaymentRow : r = Refunds!Written(e)
    BY <2>1, RowWrites DEF Held
  <2>3. \A f \in Pair : request[f] = "idle"
    BY <2>1 DEF RefundsInv, LocksInv, Held
  <2> QED BY <1>1, <2>1, <2>2, <2>3, HandlerWrites
<1>11. CASE Refunds!ApplyRefund(e)
  <2>1. /\ run[e].pc = "started" /\ e.kind = "refund" /\ Refunds!Goto(e, "applied")
        /\ UNCHANGED <<stripe, asked, request>>
    BY <1>11 DEF Refunds!ApplyRefund
  <2>2. CASE payment' = payment
    BY <1>1, <2>1, <2>2, HandlerPasses
  <2>3. CASE payment' # payment
    <3>1. /\ payment[i0] \in PaymentRow /\ Refunds!PaymentFree(i0)
          /\ e.amount \in Nat
      BY <1>0, <1>11, <2>1, <2>3, EventIs, RefundsAssumption DEF Refunds!ApplyRefund
    <3>2. PICK s : /\ s = Refunds!RefundStatus(i0, e.amount, payment[i0].status)
                   /\ s \in Refunds!IntentStatus \cup {"refunded", "partially_refunded"}
      BY <3>1 DEF Refunds!RefundStatus, PaymentRow, Refunds!PaymentRows
    <3>3. PICK r : /\ payment' = [payment EXCEPT ![i0] = r]
                   /\ r = [payment[i0] EXCEPT !.refunded = e.amount, !.status = s]
      BY <1>0, <1>11, <2>3, <3>2 DEF Refunds!ApplyRefund
    <3>4. r \in PaymentRow
      BY <3>1, <3>2, <3>3 DEF PaymentRow, Refunds!PaymentRows
    <3> QED BY <1>1, <2>1, <3>1, <3>3, <3>4, FreePayment, HandlerWrites
  <2> QED BY <2>2, <2>3
<1> QED BY <1>2, <1>3, <1>4, <1>5, <1>6, <1>7, <1>8, <1>9, <1>10, <1>11 DEF Refunds!Handle

\* A handler and a request that wait for each other: one of them is rolled back.
LEMMA DeadlockBroken ==
  ASSUME RefundsInv, NEW k \in Single, NEW e \in Refunds!Events, Refunds!BreakDeadlock(k, e)
  PROVE  RefundsInv'
<1>1. /\ run[e].pc = "summed" /\ UNCHANGED <<payment, stripe, asked>>
  BY DEF Refunds!BreakDeadlock, Refunds!rows, Refunds!provider, Refunds!At
<1>2. stripe[i0] # None
  BY <1>1 DEF RefundsInv, BeforeIntent
<1>3. CASE request' = [request EXCEPT ![k] = "idle"] /\ run' = run
  <2>1. k \in Refunds!Keys /\ \A f \in Pair : f \in Refunds!Keys
    BY DEF Refunds!Keys
  <2> QED BY <1>1, <1>2, <1>3, <2>1, RolledBack, Elsewhere
<1>4. CASE Refunds!Rest(e) /\ request' = request
  BY <1>1, <1>2, <1>4, HandlerPasses
<1> QED BY <1>3, <1>4 DEF Refunds!BreakDeadlock

LEMMA RefundsStep ==
  ASSUME RefundsInv, [Refunds!Next]_paying
  PROVE  RefundsInv'
<1>1. CASE UNCHANGED paying
  <2>1. UNCHANGED <<invoice, payment, stripe, request, asked, emitted, byKey, hook, job, run>>
    BY <1>1 DEF paying
  <2>2. stripe[i0] = None => BeforeIntent'
    BY <2>1 DEF RefundsInv, BeforeIntent
  <2> QED BY <2>1, <2>2, Elsewhere DEF RefundsInv, RefundsTyped
<1>2. CASE Refunds!Next
  BY <1>2, IntentSteps, RefundSteps, OutsideSteps, HandlerSteps, DeadlockBroken
     DEF Refunds!Next
<1> QED BY <1>1, <1>2

\* Money goes out only where it is. A refund Stripe has made fits the payment, whoever else
\* asked, retried or refunded from Stripe's side; of a retainer no more is released than is
\* held, and onboarding is charged once, as long as people do not act on it at once.
THEOREM MoneyIsKept == Spec => []MoneyIsThere
<1> DEFINE Inv == (which = "refunds" => RefundsInv) /\ (which = "retainer" => RetainerInv)
<1>1. Init => Inv
  BY RefundsInit, RetainerInit DEF Init
<1>2. Inv /\ [Next]_all => Inv'
  <2> SUFFICES ASSUME Inv, [Next]_all PROVE Inv'
    OBVIOUS
  <2>1. which' = which
    BY DEF Next, all
  <2>2. which = "refunds" => [Refunds!Next]_paying
    BY DEF Next, all
  <2>3. which = "retainer" => [Retainer!Next]_retaining
    BY DEF Next, all
  <2> QED BY <2>1, <2>2, <2>3, RefundsStep, RetainerStep
<1>3. Inv => MoneyIsThere
  BY DEF MoneyIsThere, RefundsInv, LocksInv, Refunds!RefundsWithinPayment, RetainerInv,
         Retainer!OnboardingPaidOnce, Retainer!NotOverdrawn
<1> HIDE DEF Inv
<1> QED BY <1>1, <1>2, <1>3, PTL DEF Spec
=============================================================================
