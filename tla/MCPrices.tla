------------------------------ MODULE MCPrices ------------------------------
(* Four days of two dates each, and windows of three days, so that a bid   *)
(* before the last priced day is in the window.  Two products on           *)
(* pages of one.  b1 to b3 are of the first product and may come in any    *)
(* order, b1 and b3 at one of two dates, b1 with another amount then; b4 is*)
(* of the second product and is usable or not.                             *)
EXTENDS Prices, TLC

CONSTANTS b1, b2, b3, b4

Bid(p, date, amount, usable) == [product |-> p, date |-> date, amount |-> amount, usable |-> usable]

MCBids     == {b1, b2, b3, b4}
MCContents ==
  (b1 :> {Bid(1, 0, 3, TRUE), Bid(1, 3, 1, TRUE)}) @@
  (b2 :> {Bid(1, 2, 1, TRUE)}) @@
  (b3 :> {Bid(1, 3, 2, TRUE), Bid(1, 4, 2, TRUE)}) @@
  (b4 :> {Bid(2, 2, 1, TRUE), Bid(2, 2, 1, FALSE), Bid(2, 3, 1, TRUE)})
=============================================================================
