---------------------------- MODULE MCSiteVisits ----------------------------
(* Two photographs of different kinds, one of which is required. *)
EXTENDS SiteVisits, TLC

CONSTANTS p1, p2

MCPhotos == {p1, p2}
MCTypeOf == p1 :> "site_overview" @@ p2 :> "completed_work"
MCSymmetry == Permutations(Requests)
=============================================================================
