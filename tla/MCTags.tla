------------------------------- MODULE MCTags -------------------------------
(* Two tag codes and two names, that tags may compete for; a category and a*)
(* profile.  Three requests, since a rename takes two others to meet a tag *)
(* with the code, but not the _id, of the one it read.                     *)
EXTENDS Tags, TLC

CONSTANTS t1, t2, n1, n2, k1, p1, r1, r2, r3

MCCodes      == {t1, t2}
MCNames      == {n1, n2}
MCCategories == {k1}
MCProfiles   == {p1}
MCRequests   == {r1, r2, r3}

Interchangeable == Permutations(MCRequests) \cup Permutations(MCNames) \cup Permutations(MCCodes)
=============================================================================
