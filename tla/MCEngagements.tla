--------------------------- MODULE MCEngagements ---------------------------
(* Two trades, one with a visit plan.  e1 needs l1 and gets the plan; the     *)
(* others share l2.  Every licence takes one engagement at a time.            *)
EXTENDS Engagements, TLC

CONSTANTS e1, l1, t1, t2

MCTradeOf == [e \in Engagements |-> IF e = e1 THEN t1 ELSE t2]
MCCovers == [l \in Licences |-> IF l = l1 THEN t1 ELSE t2]
MCTemplate == t1 :> Milestones @@ t2 :> {}
MCLimit == [l \in Licences |-> 1]
MCSymmetry == Permutations(Engagements \ {e1})
=============================================================================
