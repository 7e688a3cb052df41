---------------------------- MODULE MCDocuments ----------------------------
(* Two documents, one of them legacy; three requests, which is what it     *)
(* takes for a third one to trust a revision that two others fought over.  *)
EXTENDS Documents, TLC

CONSTANTS d1, d2, r1, r2, r3, j1

MCDocs     == {d1, d2}
MCLegacy   == {d2}
MCRequests == {r1, r2, r3}
MCJobs     == {j1}

Interchangeable == Permutations(MCRequests)
=============================================================================
