------------------------------- MODULE Roadmap -------------------------------
(***************************************************************************)
(* The connector roadmap: for each jurisdiction the channel its permits go *)
(* through today, the best one it could have, what stands in between, and  *)
(* whether clearing it is worth the effort, given our own permits there.   *)
(* It is made anew from the reference data, the jurisdiction's row and the *)
(* permits whenever it is asked for. Volumes are whole numbers here and    *)
(* shares of their total there.                                            *)
(***************************************************************************)
EXTENDS Naturals, Sequences, SequencesExt, FiniteSetsExt

CONSTANTS Places,       \* the jurisdictions of the database
          Found,        \* the set of [Places -> kinds of reference entry or "none at all"]
          MaxPermits,   \* bound on the permits in one jurisdiction
          MaxVolume     \* bound on all of them

VARIABLES
  kind,    \* kind[p]: what the reference data say of p, a key of Reference or Unmatched
  row,     \* whether the portal's address is in its row or its entry, the terms were read and
           \* noted, automation is approved, we hold credentials, checks are verified and on
  volume   \* our permits in it, but the deleted ones
vars == <<kind, row, volume>>

-----------------------------------------------------------------------------
\* The entries of the reference data differ, for this purpose, in no more than this: these
\* are all its combinations, each by the name of a platform that has it. Those on paper are
\* those of the platform "none", and the only ones whose agency has nothing to approve.
Entry(tier, publicApi, purchase, vendor, paper) ==
  [integrationTier |-> tier, publicApi |-> publicApi, agencyPurchaseRequired |-> purchase,
   vendorPartnerRequired |-> vendor, agencyApprovalRequired |-> ~paper, paperOnly |-> paper]
Reference ==
  [accela       |-> Entry("api_candidate", TRUE, FALSE, FALSE, FALSE),
   opengov      |-> Entry("api_candidate", TRUE, FALSE, FALSE, FALSE),
   oracle       |-> Entry("api_candidate", FALSE, FALSE, FALSE, FALSE),
   energov      |-> Entry("api_partner", FALSE, TRUE, TRUE, FALSE),
   citizenserve |-> Entry("rpa", FALSE, FALSE, TRUE, FALSE),
   unsold       |-> Entry("manual", FALSE, FALSE, TRUE, FALSE),
   custom       |-> Entry("rpa", FALSE, FALSE, FALSE, FALSE),
   iworq        |-> Entry("manual", FALSE, FALSE, FALSE, FALSE),
   paper        |-> Entry("manual", FALSE, FALSE, FALSE, TRUE)]
Unmatched == "unmatched"
\* The gate of a jurisdiction nothing is known of, and the tier its row has, with a platform
\* that is not "none"; without one it is "manual", of which the same is made as of "portal".
toIntegrationTier(r) == IF r.checks THEN "api" ELSE "portal"
\* Mutant: it is taken to have a portal, as the list of jurisdictions takes it.
NotOnPaper(r) == [Entry(toIntegrationTier(r), FALSE, FALSE, FALSE, TRUE)
                    EXCEPT !.paperOnly = FALSE]
UNKNOWN_GATE(r) == Entry(toIntegrationTier(r), FALSE, FALSE, FALSE, TRUE)
jurisdiction(p) == IF kind[p] = Unmatched THEN UNKNOWN_GATE(row[p]) ELSE Reference[kind[p]]

Rows == [portalUrl : BOOLEAN, tosReviewNote : BOOLEAN, automationApproved : BOOLEAN,
         hasCredentials : BOOLEAN, checks : BOOLEAN]
TypeOK ==
  /\ kind \in [Places -> DOMAIN Reference \cup {Unmatched}]
  /\ row \in [Places -> Rows] /\ volume \in [Places -> 0 .. MaxPermits]

Init ==
  /\ kind \in Found /\ volume = [p \in Places |-> 0]
  /\ \E known \in SUBSET Places :
       row = [p \in Places |-> [portalUrl |-> p \in known, tosReviewNote |-> FALSE,
                                automationApproved |-> FALSE, hasCredentials |-> FALSE,
                                checks |-> FALSE]]

\* PATCH /api/jurisdictions/:id: what is given is written, what is missing or null is left.
\* A note may be empty, which is no note, and an approval outlives it; but none is given
\* without a note of who has read the portal's terms. An address is never taken back.
Given(value, old) == IF value = {} THEN old ELSE TRUE \in value
Correct(p, url, note, approved) ==
  /\ TRUE \in approved => Given(note, row[p].tosReviewNote)
  /\ row' = [row EXCEPT ![p].portalUrl = @ \/ url,
                        ![p].tosReviewNote = Given(note, @),
                        ![p].automationApproved = Given(approved, @)]
  /\ UNCHANGED <<kind, volume>>
CredentialsSaved(p) ==
  /\ row' = [row EXCEPT ![p].hasCredentials = TRUE] /\ UNCHANGED <<kind, volume>>
\* The switch of the automated checks; nothing but an unmatched row's tier reads it.
ChecksSwitched(p, on) ==
  /\ kind[p] = Unmatched /\ row' = [row EXCEPT ![p].checks = on] /\ UNCHANGED <<kind, volume>>
PermitMade(p) ==
  /\ volume[p] < MaxPermits /\ SumFunction(volume) < MaxVolume
  /\ volume' = [volume EXCEPT ![p] = @ + 1] /\ UNCHANGED <<kind, row>>
PermitDeleted(p) ==
  /\ volume[p] > 0 /\ volume' = [volume EXCEPT ![p] = @ - 1] /\ UNCHANGED <<kind, row>>

Next == \E p \in Places :
  \/ Correct(p, TRUE, {}, {})
  \/ \E note, approved \in {{}, {FALSE}, {TRUE}} : Correct(p, FALSE, note, approved)
  \/ CredentialsSaved(p) \/ \E on \in BOOLEAN : ChecksSwitched(p, on)
  \/ PermitMade(p) \/ PermitDeleted(p)

Spec == Init /\ [][Next]_vars

-----------------------------------------------------------------------------
\* assessReadiness, of the entry j and the row r.
PATHWAY_RANK == [manual |-> 0, rpa |-> 1, api |-> 2]
pathwayForTier(tier) ==
  CASE tier = "api_live" -> "api" [] tier = "rpa" -> "rpa" [] OTHER -> "manual"
targetPathwayFor(j, r) ==
  CASE j.paperOnly -> "manual"
    [] ~j.paperOnly /\ (j.publicApi \/ j.agencyPurchaseRequired \/ j.vendorPartnerRequired) -> "api"
    [] OTHER -> IF r.portalUrl THEN "rpa" ELSE "manual"
\* What stands in the way: who has to clear it, and the weeks it takes.
Blocker(wanted, what, owner, weeks) ==
  IF wanted THEN {[kind |-> what, owner |-> owner, weeks |-> weeks]} ELSE {}
\* Mutant: the agency's approval is taken for work of our own.
ApprovedByUs(j) == Blocker(j.agencyApprovalRequired, "agency_approval", "us", 10)
AgencyApproval(j) == Blocker(j.agencyApprovalRequired, "agency_approval", "agency", 10)
ApiBlockers(j, r, accela) ==
  Blocker(~j.publicApi, "no_public_api", "vendor", 4)
    \cup Blocker(j.vendorPartnerRequired, "vendor_partner", "vendor", 6)
    \cup Blocker(j.agencyPurchaseRequired, "agency_purchase", "agency", 20)
    \cup AgencyApproval(j)
    \cup Blocker(accela, "config_mapping", "us", 2)
    \cup Blocker(~r.hasCredentials, "credentials_missing", "us", 0)
PortalBlockers(j, r) ==
  Blocker(~r.portalUrl, "portal_unverified", "us", 1)
    \cup Blocker(~r.automationApproved /\ ~j.paperOnly, "tos_unreviewed", "us", 1)
current(p) == pathwayForTier(jurisdiction(p).integrationTier)
target(p) == targetPathwayFor(jurisdiction(p), row[p])
BlockersOf(p, r) ==
  LET j == jurisdiction(p)
      to == targetPathwayFor(j, r)
  IN (IF to = "api" /\ current(p) # "api" THEN ApiBlockers(j, r, kind[p] = "accela") ELSE {})
       \cup (IF to = "rpa" \/ (to = "api" /\ current(p) = "manual")
             THEN PortalBlockers(j, r) ELSE {})
blockers(p) == BlockersOf(p, row[p])
estimatedWeeks(p) == MapThenSumSet(LAMBDA b : b.weeks, blockers(p))
lift(p) == PATHWAY_RANK[target(p)] - PATHWAY_RANK[current(p)]
totalVolume == SumFunction(volume)
\* share * 100 * lift * 3 / (1 + weeks / 12), rounded, at most 100
priorityScore(p) ==
  LET above == IF lift(p) > 0 THEN volume[p] * 3600 * lift(p) ELSE 0
      below == totalVolume * (12 + estimatedWeeks(p))
  IN IF totalVolume = 0 THEN 0 ELSE Min({100, (2 * above + below) \div (2 * below)})

-----------------------------------------------------------------------------
\* buildRoadmap
RankedBefore(p, q) ==
  \/ priorityScore(p) > priorityScore(q)
  \/ priorityScore(p) = priorityScore(q) /\ volume[p] > volume[q]
items == SetToSortSeq(Places, RankedBefore)
\* The permits that go each way, today and at the target.
Covered(S) == SumFunctionOnSet(volume, S)
coverageToday == [w \in DOMAIN PATHWAY_RANK |-> Covered({p \in Places : current(p) = w})]
coverageAtTarget == [w \in DOMAIN PATHWAY_RANK |-> Covered({p \in Places : target(p) = w})]
\* Mutant: in the order of priority.
ByPriority == items
ranked == SetToSortSeq(Places, LAMBDA p, q : volume[p] > volume[q])
jurisdictionsFor80Pct ==
  LET Count(sofar, p) ==
        IF totalVolume > 0 /\ 10 * sofar.cumulative >= 8 * totalVolume THEN sofar
        ELSE [cumulative |-> sofar.cumulative + volume[p], n |-> sofar.n + 1]
  IN FoldLeft(Count, [cumulative |-> 0, n |-> 0], ranked).n
IsQuickWin(p) ==
  volume[p] > 0 /\ blockers(p) # {} /\ \A b \in blockers(p) : b.owner = "us"
quickWins == LET wins == SelectSeq(items, IsQuickWin)
             IN ToSet(SubSeq(wins, 1, Min({10, Len(wins)})))

-----------------------------------------------------------------------------
\* Each permit is covered by one pathway, today and at the target.
CoverageAddsUp ==
  /\ SumFunction(coverageToday) = totalVolume /\ SumFunction(coverageAtTarget) = totalVolume

\* "The real build list": that many jurisdictions hold four fifths of our permits,
\* and fewer never do.
BuildListIsLeast ==
  totalVolume > 0 =>
    /\ \E S \in SUBSET Places :
         /\ Cardinality(S) = jurisdictionsFor80Pct
         /\ 10 * SumFunctionOnSet(volume, S) >= 8 * totalVolume
    /\ \A S \in SUBSET Places :
         10 * SumFunctionOnSet(volume, S) >= 8 * totalVolume
           => Cardinality(S) >= jurisdictionsFor80Pct

\* "Blocked purely on something we control": when we have done all we can for one of
\* the quick wins, nothing is left that stands in its way.
AllOurs(r) == [r EXCEPT !.portalUrl = TRUE, !.tosReviewNote = TRUE,
                        !.automationApproved = TRUE, !.hasCredentials = TRUE]
QuickWinsAreOurs == \A p \in quickWins : BlockersOf(p, AllOurs(row[p])) = {}

\* What nobody has checked is promised to nobody: nothing but manual work, whatever
\* its row says, and no work towards anything else.
UnknownsPromiseNothing ==
  \A p \in Places : kind[p] = Unmatched =>
    current(p) = "manual" /\ target(p) = "manual" /\ priorityScore(p) = 0 /\ p \notin quickWins

\* A jurisdiction is never worse off at its target, but where the portal that is
\* automated today has no address on record.
TargetsAreBetter ==
  \A p \in Places :
    lift(p) < 0 => jurisdiction(p).integrationTier = "rpa" /\ ~row[p].portalUrl

\* "Volume dominates by design": of two alike, that with more of our permits is first.
VolumeDominates ==
  \A i, k \in DOMAIN items :
    (i < k /\ kind[items[i]] = kind[items[k]] /\ row[items[i]] = row[items[k]])
      => volume[items[i]] >= volume[items[k]]

RoadmapRight ==
  /\ CoverageAddsUp /\ BuildListIsLeast /\ QuickWinsAreOurs /\ UnknownsPromiseNothing
  /\ TargetsAreBetter /\ VolumeDominates
=============================================================================
