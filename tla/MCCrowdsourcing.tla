-------------------------- MODULE MCCrowdsourcing --------------------------
(* One contributor stored earlier, perhaps with a product request, and two *)
(* administrators, each with a category.  Three API requests let two of    *)
(* them compete after, or under the eyes of, a third.                      *)
EXTENDS Crowdsourcing, TLC

CONSTANTS e1, r1, r2, r3, k1, k2, a1, a2

MCRequests    == {r1, r2, r3}
MCEarlier     == {e1}
MCIdentifiers == {"edr1", "edr2"}
MCCategories  == {k1, k2}
MCAdmins      == {a1, a2}
MCAdminOf     == k1 :> a1 @@ k2 :> a2

Interchangeable == Permutations(MCRequests)
=============================================================================
