----------------------------- MODULE MCVendors -----------------------------
(* Two vendors and two requests, so that creations, activations, bans and  *)
(* uploads can compete; a ban lasts one tick, so that the clock leaves room*)
(* for a ban, its end, a night and a second ban.                           *)
EXTENDS Vendors, TLC

CONSTANTS v1, v2, r1, r2

MCIds         == {v1, v2}
MCIdentifiers == {"edr1"}
MCRequests    == {r1, r2}
MCLeapDays    == {3}
=============================================================================
