----------------------------- MODULE Statuses ------------------------------
(***************************************************************************)
(* What an automated check of one permit reports: which adapter its        *)
(* jurisdiction gets, what that adapter makes of the agency's answer, and  *)
(* how the agency's words become a status. The rule of all of it is "a     *)
(* misconfigured jurisdiction degrades to 'a person must look', never to a *)
(* confidently wrong status".                                              *)
(*                                                                         *)
(* A text is the set of the kinds of word in it that the rules look for:   *)
(* one kind stands for the alternatives of a rule.                         *)
(***************************************************************************)
EXTENDS Integers, FiniteSets, SequencesExt

CONSTANTS MaxWords   \* bound on the kinds of word in one text

VARIABLES
  place,      \* the jurisdiction: is it verified, its platform, what is configured
  reference,  \* the permit has a number or a record id of the agency's
  reply,      \* what the agency answers
  word,       \* the word at the configured path: in the map, our own, strange, absent
  says        \* the text of a status or of an inspection's result
vars == <<place, reference, reply, word, says>>

\* RULES of the mapping, in their order: "the FIRST match wins".
StatusRules ==
  << <<"void", "closed">>, <<"expired", "expired">>, <<"finaled", "closed">>,
     <<"correction", "corrections_required">>, <<"denied", "rejected">>,
     <<"inspection", "inspections">>, <<"issued", "issued">>,
     <<"approved", "approved">>, <<"review", "under_review">>,
     <<"submitted", "submitted">> >>
\* INSPECTION_RULES: the words overlap and mean different things.
InspectionRules ==
  << <<"conditional", "partial">>, <<"no show", "no_show">>, <<"void", "cancelled">>,
     <<"denied", "failed">>, <<"correction", "failed">>, <<"approved", "passed">>,
     <<"review", "scheduled">> >>
Words == {r[1] : r \in ToSet(StatusRules)} \cup {r[1] : r \in ToSet(InspectionRules)}

Platforms == {"accela", "other vendor", "no interface"}
Replies == {"read", "missing", "refused", "limited", "failed", "no json", "timeout"}

TypeOK ==
  /\ place \in [verified : BOOLEAN, platform : Platforms, oauth : BOOLEAN,
                statusCheck : BOOLEAN, auth : BOOLEAN, secret : BOOLEAN]
  /\ reference \in BOOLEAN /\ reply \in Replies
  /\ word \in {"mapped", "ours", "strange", "absent"}
  /\ says \in SUBSET Words /\ Cardinality(says) <= MaxWords

Init ==
  /\ place = [verified |-> FALSE, platform |-> "other vendor", oauth |-> FALSE,
              statusCheck |-> FALSE, auth |-> FALSE, secret |-> FALSE]
  /\ reference = FALSE /\ reply = "missing" /\ word = "absent" /\ says = {}

-----------------------------------------------------------------------------
\* Administrators configure and verify; a contractor stores its credentials.
PlaceChanges ==
  /\ \E fact \in {"verified", "oauth", "statusCheck", "auth", "secret"} :
        place' = [place EXCEPT ![fact] = ~@]
  /\ UNCHANGED <<reference, reply, word, says>>
PlatformChanges ==
  /\ \E p \in Platforms : place' = [place EXCEPT !.platform = p]
  /\ says' = {}
  /\ UNCHANGED <<reference, reply, word>>
NumberChanges == reference' = ~reference /\ UNCHANGED <<place, reply, word, says>>
\* The agency moves the permit, renames a status, or cannot be reached.
AgencyAnswers ==
  /\ reply' \in Replies
  /\ word' \in IF reply' = "read" THEN {"mapped", "ours", "strange", "absent"} ELSE {"absent"}
  /\ says' = {}
  /\ UNCHANGED <<place, reference>>
\* The text of an answer, where it is read by the words in it.
AgencySays ==
  /\ reply = "read" /\ place.platform = "accela"
  /\ \E w \in Words : says' = IF w \in says THEN says \ {w} ELSE says \cup {w}
  /\ Cardinality(says') <= MaxWords
  /\ UNCHANGED <<place, reference, reply, word>>

Next == PlaceChanges \/ PlatformChanges \/ NumberChanges \/ AgencyAnswers \/ AgencySays

Spec == Init /\ [][Next]_vars

-----------------------------------------------------------------------------
\* Mutant: an inspection that is approved under conditions is approved.
LastMatch(rules) ==
  LET hits == SelectSeq(rules, LAMBDA r : r[1] \in says)
  IN IF hits = << >> THEN "unknown" ELSE Last(hits)[2]
\* The first rule with one of its words in the text; "when in doubt, 'unknown'".
FirstMatch(rules) ==
  LET hits == SelectSeq(rules, LAMBDA r : r[1] \in says)
  IN IF hits = << >> THEN "unknown" ELSE Head(hits)[2]
toDetectedStatus == FirstMatch(StatusRules)
toInspectionOutcome == FirstMatch(InspectionRules)

\* The application's secret is not handed over by resolveForMunicipality.
appSecret == FALSE
\* accelaConfigFrom: anything missing is no configuration.
AccelaConfigured == place.oauth /\ place.secret /\ appSecret
\* Mutant: a mapping is enough.
AdapterIfMapped == IF place.statusCheck THEN "configured" ELSE "portal"
\* resolveForMunicipality.
Adapter ==
  IF ~place.verified \/ place.platform = "no interface" THEN "portal"
  ELSE IF place.platform = "accela" /\ AccelaConfigured THEN "accela"
  ELSE IF place.statusCheck THEN "configured" ELSE "portal"

\* mapStatus: the jurisdiction's map, or exactly one of our own words.
mapStatus == IF word \in {"mapped", "ours"} THEN "theirs" ELSE "unknown"

Result(outcome, status) == [outcome |-> outcome, status |-> status]
\* What is made of an answer that is not a status.
Failure ==
  CASE reply = "missing" -> "not_found"
    [] reply = "refused" -> "auth_failed"
    [] reply = "limited" -> "rate_limited"
    [] reply = "timeout" -> "timeout"
    [] OTHER -> "error"
\* Mutant: a word that is not in the map is a success that found nothing.
ConfiguredOrQuiet ==
  IF reply = "read" THEN Result("success", mapStatus) ELSE Result(Failure, "unknown")
\* createConfigurableAdapter's check, and the portal's: it has no status to tell.
ConfiguredCheck ==
  IF ~reference THEN Result("skipped", "unknown")
  ELSE IF place.auth /\ ~place.secret THEN Result("auth_failed", "unknown")
  ELSE IF reply # "read" THEN Result(Failure, "unknown")
  ELSE IF mapStatus = "unknown" THEN Result("error", "unknown")
  ELSE Result("success", mapStatus)
PortalCheck == Result("skipped", "unknown")
\* createAccelaAdapter's check.
AccelaCheck ==
  IF ~reference THEN Result("skipped", "unknown")
  ELSE IF reply # "read" THEN Result(Failure, "unknown")
  ELSE Result("success", toDetectedStatus)
checkPermitStatus ==
  CASE Adapter = "portal" -> PortalCheck
    [] Adapter = "configured" -> ConfiguredCheck
    [] OTHER -> AccelaCheck

-----------------------------------------------------------------------------
\* A status is reported only of a jurisdiction somebody verified, for a permit it
\* has a number of, by credentials it asked for, in a word that is known; what was
\* asked in vain is a failure that says so.
NothingIsGuessed ==
  LET result == checkPermitStatus IN
  /\ result.status # "unknown" =>
       /\ place.verified /\ place.platform # "no interface" /\ reference
       /\ reply = "read"
       /\ Adapter = "configured" => word \in {"mapped", "ours"} /\ (place.auth => place.secret)
  /\ Adapter # "accela" => (result.outcome = "success") = (result.status # "unknown")

\* "The contractor is never told there is work to do": a text that asks for more
\* work of a live application is a correction, whatever else it says.
WorkIsNotMissed ==
  "correction" \in says /\ says \cap {"void", "expired", "finaled"} = {}
    => toDetectedStatus = "corrections_required"

\* "A partial pass is NOT rounded to a pass", nor is one that failed or never was.
PassIsClean ==
  toInspectionOutcome = "passed" =>
    says \cap {"conditional", "no show", "void", "denied", "correction"} = {}

RulesAgree == NothingIsGuessed /\ WorkIsNotMissed /\ PassIsClean
=============================================================================
