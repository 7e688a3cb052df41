----------------------------- MODULE MCProducts -----------------------------
(* One product, a vendor's or not, stored earlier or created by a request, *)
(* and two requests that compete for it.  A year is two ticks and the clock*)
(* has four, so that the product's date passes, the task closes it, and a  *)
(* stale write and another night still fit.                                *)
EXTENDS Products, TLC

CONSTANTS p1, v1, r1, r2

MCIds      == {p1}
MCVendors  == {v1}
MCRequests == {r1, r2}
MCTerms    == {1, 3}
=============================================================================
