----------------------------- MODULE Moderation -----------------------------
(***************************************************************************)
(* What the moderation of product requests promises: a request is reviewed *)
(* once, and the product of an accepted request, and of no other, is put   *)
(* on the market once.                                                     *)
(***************************************************************************)
CONSTANT Submissions    \* product requests

VARIABLE stage

Init == stage \in [Submissions -> {"absent", "submitted"}]

Move(p, from, to) == stage[p] = from /\ stage' = [stage EXCEPT ![p] = to]

Submit(p)  == Move(p, "absent", "submitted")
Reject(p)  == Move(p, "submitted", "rejected")
Accept(p)  == Move(p, "submitted", "accepted")
Publish(p) == Move(p, "accepted", "published")

Next == \E p \in Submissions : Submit(p) \/ Reject(p) \/ Accept(p) \/ Publish(p)

Spec == Init /\ [][Next]_stage
=============================================================================
