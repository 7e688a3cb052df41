-------------------------- MODULE AtomicDocuments --------------------------
(***************************************************************************)
(* What the document layer of catalog/db.py promises to its callers: every *)
(* API request takes effect on one document at one instant, or has no      *)
(* effect at all.  A document is the set of requests whose changes it      *)
(* carries; nothing here knows of revisions, copies or bulk jobs.          *)
(***************************************************************************)
CONSTANTS Docs,       \* the _id's of one collection
          Requests,   \* the API requests, each handled once
          Legacy,     \* documents stored before revisions were introduced
          Nil

VARIABLES contents,   \* contents[d]: Nil, or the requests d carries
          outcome     \* what the client of each request has been answered

vars == <<contents, outcome>>

Init ==
  /\ contents \in [Docs -> {Nil, {}}]
  /\ outcome = [r \in Requests |-> "pending"]

(* A change is added to everything the document already carries.  Only a   *)
(* document without a revision may forget what it carried before.          *)
Edit(r, d) ==
  /\ outcome[r] = "pending"
  /\ contents[d] # Nil
  /\ \E kept \in SUBSET contents[d] :
       /\ d \notin Legacy => kept = contents[d]
       /\ contents' = [contents EXCEPT ![d] = kept \cup {r}]
  /\ outcome' = [outcome EXCEPT ![r] = "ok"]

Insert(r, d) ==
  /\ outcome[r] = "pending"
  /\ contents[d] = Nil
  /\ contents' = [contents EXCEPT ![d] = {r}]
  /\ outcome' = [outcome EXCEPT ![r] = "ok"]

Delete(r, d) ==
  /\ outcome[r] = "pending"
  /\ contents[d] # Nil
  /\ contents' = [contents EXCEPT ![d] = Nil]
  /\ outcome' = [outcome EXCEPT ![r] = "ok"]

Fail(r) ==
  /\ outcome[r] = "pending"
  /\ outcome' = [outcome EXCEPT ![r] = "failed"]
  /\ UNCHANGED contents

Next ==
  \E r \in Requests :
    \/ Fail(r)
    \/ \E d \in Docs : Edit(r, d) \/ Insert(r, d) \/ Delete(r, d)

Spec == Init /\ [][Next]_vars
=============================================================================
