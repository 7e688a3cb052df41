--------------------------- MODULE Crowdsourcing ---------------------------
(***************************************************************************)
(* Crowd-sourcing: contributors, the bans market administrators give them, *)
(* the product requests they submit, and the reviews that accept or reject *)
(* a request (handlers/crowd_sourcing/*.py, state/contributor.py,          *)
(* state/product_request.py).                                              *)
(*                                                                         *)
(* Contributors and product requests are changed by a read, the handler's  *)
(* body and a replace that matches on the revision (see the module         *)
(* Documents); a revision is named after the API request that wrote it.    *)
(* Accepting takes one more write: the product is inserted into its own    *)
(* collection after the replace of the product request has succeeded.      *)
(***************************************************************************)
EXTENDS Naturals

CONSTANTS Requests,      \* API requests; each one is handled once
          Earlier,       \* documents stored before the first of them
          Identifiers,   \* contributor.identifier.id
          Categories,
          Admins,        \* market administrators
          AdminOf,       \* the marketAdministrator of a category: no PATCH changes it
          MaxNow,        \* bound on the clock
          Nil

(* _id's are uuids: a document inserted by r is named r.                   *)
Ids == Earlier \cup Requests

Ban         == [by : Requests, admin : Admins, due : Nat \cup {Nil}]
Contributor == [ident : Identifiers,
                bans  : SUBSET Ban,
                rev   : Requests \cup {Nil}]
Submission  == [contributor : Ids,
                category    : Categories,
                review      : {"none", "acception", "rejection"},
                product     : Requests \cup {Nil},
                rev         : Requests \cup {Nil}]

ASSUME AdminAssumption == MaxNow \in Nat /\ AdminOf \in [Categories -> Admins]
ASSUME NilAssumption   ==
  /\ Earlier \cap Requests = {}
  /\ Nil \notin Ids /\ Nil \notin Nat /\ Nil \notin Contributor /\ Nil \notin Submission

VARIABLES now,
          contributors, \* the collections: a document or Nil for each _id
          submissions,
          products,     \* products[r]: the product request whose product r inserted, or Nil
          pc,           \* where each API request is
          target,       \* the document it works on
          draft,        \* the document it is going to write, with the rev it read
          seen          \* the bans of the contributor it has read

reqVars == <<pc, target, draft, seen>>
vars    == <<now, contributors, submissions, products, reqVars>>

(* No dueDate, or a later one.                                            *)
InForce(ban) == ban.due \notin 0..now

(* Mutant: a ban without a dueDate is not looked at.                       *)
BannedByDated(contributor, a) ==
  \E ban \in contributor.bans : ban.admin = a /\ ban.due # Nil /\ InForce(ban)

BannedBy(contributor, a) == \E ban \in contributor.bans : ban.admin = a /\ InForce(ban)

Init ==
  /\ now = 0
  /\ contributors \in [Ids -> {Nil} \cup [ident : Identifiers, bans : {{}}, rev : {Nil}]]
  /\ submissions \in [Ids -> {Nil} \cup [contributor : Earlier, category : Categories,
                                         review : {"none"}, product : {Nil}, rev : {Nil}]]
  /\ \A x \in Requests : contributors[x] = Nil /\ submissions[x] = Nil
  /\ \A x \in Earlier : contributors[x] # Nil
  /\ products = [r \in Requests |-> Nil]
  /\ pc = [r \in Requests |-> "idle"]
  /\ target = [r \in Requests |-> Nil]
  /\ draft = [r \in Requests |-> Nil]
  /\ seen = [r \in Requests |-> {}]

Tick ==
  /\ now < MaxNow
  /\ now' = now + 1
  /\ UNCHANGED <<contributors, submissions, products, reqVars>>

-----------------------------------------------------------------------------
Prepare(r, x, document, state) ==
  /\ pc' = [pc EXCEPT ![r] = state]
  /\ target' = [target EXCEPT ![r] = x]
  /\ draft' = [draft EXCEPT ![r] = document]
  /\ UNCHANGED <<now, contributors, submissions, products>>

(* A handler that keeps no contributor.                                    *)
PrepareOnly(r, x, document, state) ==
  Prepare(r, x, document, state) /\ UNCHANGED seen

Answer(r, answer) ==
  /\ pc' = [pc EXCEPT ![r] = answer]
  /\ target' = [target EXCEPT ![r] = Nil]
  /\ draft' = [draft EXCEPT ![r] = Nil]
  /\ seen' = [seen EXCEPT ![r] = {}]
  /\ UNCHANGED now

Fail(r) == Answer(r, "failed") /\ UNCHANGED <<contributors, submissions, products>>

(* POST /crowd-sourcing/contributors.                                      *)
CreateCheck(r, i) ==
  /\ pc[r] = "idle"
  /\ \A x \in Ids : contributors[x] # Nil => contributors[x].ident # i
  /\ PrepareOnly(r, r, [ident |-> i, bans |-> {}, rev |-> Nil], "new contributor")

CreateRefuse(r, i) ==
  /\ pc[r] = "idle"
  /\ \E x \in Ids : contributors[x] # Nil /\ contributors[x].ident = i
  /\ Fail(r)

CreateInsert(r) ==
  /\ pc[r] = "new contributor"
  /\ contributors' = [contributors EXCEPT ![r] = [draft[r] EXCEPT !.rev = r]]
  /\ Answer(r, "ok")
  /\ UNCHANGED <<submissions, products>>

(* POST .../bans: the administrator names itself; dueDate is in the future,*)
(* or left out for a permanent ban.                                        *)
BanRead(r, c, a, due) ==
  /\ pc[r] = "idle"
  /\ contributors[c] # Nil
  /\ due \in (now..MaxNow) \cup {Nil}
  /\ ~ BannedBy(contributors[c], a)
  /\ PrepareOnly(r, c, [contributors[c] EXCEPT
                          !.bans = @ \cup {[by |-> r, admin |-> a, due |-> due]}], "contributor")

BanRefuse(r, c, a) ==
  /\ pc[r] = "idle"
  /\ contributors[c] # Nil
  /\ BannedBy(contributors[c], a)
  /\ Fail(r)

(* POST, PUT and PATCH of a contributor's or of a ban's document.          *)
TouchRead(r, c) ==
  /\ pc[r] = "idle"
  /\ contributors[c] # Nil
  /\ PrepareOnly(r, c, contributors[c], "contributor")

(* Mutant: the filter of replace_one has only the _id.                     *)
MatchesById(stored, r) == TRUE

Matches(stored, r) == stored.rev = draft[r].rev

ContributorReplace(r) ==
  /\ pc[r] = "contributor"
  /\ Matches(contributors[target[r]], r)
  /\ contributors' = [contributors EXCEPT ![target[r]] = [draft[r] EXCEPT !.rev = r]]
  /\ Answer(r, "ok")
  /\ UNCHANGED <<submissions, products>>

ContributorConflict(r) ==
  /\ pc[r] = "contributor"
  /\ ~ Matches(contributors[target[r]], r)
  /\ Fail(r)

-----------------------------------------------------------------------------
(* POST /crowd-sourcing/contributor/{id}/requests: the contributor is read,*)
(* then the category, and the ban is looked for in the contributor read.   *)
SubmitRead(r, c) ==
  /\ pc[r] = "idle"
  /\ contributors[c] # Nil
  /\ Prepare(r, c, contributors[c], "submitting")
  /\ seen' = [seen EXCEPT ![r] = contributors[c].bans]

SubmitCheck(r, k) ==
  /\ pc[r] = "submitting"
  /\ ~ BannedBy(draft[r], AdminOf[k])
  /\ PrepareOnly(r, r, [contributor |-> target[r], category |-> k, review |-> "none",
                        product |-> Nil, rev |-> Nil], "new submission")

SubmitRefuse(r, k) ==
  /\ pc[r] = "submitting"
  /\ BannedBy(draft[r], AdminOf[k])
  /\ Fail(r)

SubmitInsert(r) ==
  /\ pc[r] = "new submission"
  /\ submissions' = [submissions EXCEPT ![r] = [draft[r] EXCEPT !.rev = r]]
  /\ Answer(r, "ok")
  /\ UNCHANGED <<contributors, products>>

(* Mutant: only a rejection is final.                                      *)
ReviewedRejected(submission) == submission.review = "rejection"

(* validate_previous_product_reviews.                                      *)
Reviewed(submission) == submission.review # "none"

(* POST /crowd-sourcing/requests/{id}/accept by the category's own market  *)
(* administrator.  on_accept names the product r, a new uuid.              *)
AcceptRead(r, p) ==
  /\ pc[r] = "idle"
  /\ submissions[p] # Nil /\ ~ Reviewed(submissions[p])
  /\ PrepareOnly(r, p, [submissions[p] EXCEPT !.review = "acception", !.product = r], "review")

(* POST /crowd-sourcing/requests/{id}/reject by that administrator.        *)
RejectRead(r, p) ==
  /\ pc[r] = "idle"
  /\ submissions[p] # Nil /\ ~ Reviewed(submissions[p])
  /\ PrepareOnly(r, p, [submissions[p] EXCEPT !.review = "rejection"], "review")

ReviewRefuse(r, p, a) ==
  /\ pc[r] = "idle"
  /\ submissions[p] # Nil
  /\ Reviewed(submissions[p]) \/ a # AdminOf[submissions[p].category]
  /\ Fail(r)

(* update_object, at the end of the with block; accept goes on after it.   *)
AcceptReplace(r) ==
  /\ pc[r] = "review" /\ draft[r].review = "acception"
  /\ Matches(submissions[target[r]], r)
  /\ submissions' = [submissions EXCEPT ![target[r]] = [draft[r] EXCEPT !.rev = r]]
  /\ pc' = [pc EXCEPT ![r] = "publish"]
  /\ UNCHANGED <<now, contributors, products, target, draft, seen>>

RejectReplace(r) ==
  /\ pc[r] = "review" /\ draft[r].review = "rejection"
  /\ Matches(submissions[target[r]], r)
  /\ submissions' = [submissions EXCEPT ![target[r]] = [draft[r] EXCEPT !.rev = r]]
  /\ Answer(r, "ok")
  /\ UNCHANGED <<contributors, products>>

ReviewConflict(r) ==
  /\ pc[r] = "review"
  /\ ~ Matches(submissions[target[r]], r)
  /\ Fail(r)

(* db.insert_product.                                                      *)
Publish(r) ==
  /\ pc[r] = "publish"
  /\ products' = [products EXCEPT ![r] = target[r]]
  /\ Answer(r, "ok")
  /\ UNCHANGED <<contributors, submissions>>

Answered == {"ok", "failed", "dead"}

(* The process dies, the client hangs up or a database call raises.        *)
Die(r) ==
  /\ pc[r] \notin Answered \cup {"idle"}
  /\ Answer(r, "dead")
  /\ UNCHANGED <<contributors, submissions, products>>

Next ==
  \/ Tick
  \/ \E r \in Requests :
       \/ CreateInsert(r) \/ ContributorReplace(r) \/ ContributorConflict(r)
       \/ SubmitInsert(r) \/ AcceptReplace(r) \/ RejectReplace(r) \/ ReviewConflict(r)
       \/ Publish(r) \/ Die(r)
  \/ \E r \in Requests, i \in Identifiers : CreateCheck(r, i) \/ CreateRefuse(r, i)
  \/ \E r \in Requests, x \in Ids :
       TouchRead(r, x) \/ SubmitRead(r, x) \/ AcceptRead(r, x) \/ RejectRead(r, x)
  \/ \E r \in Requests, k \in Categories : SubmitCheck(r, k) \/ SubmitRefuse(r, k)
  \/ \E r \in Requests, x \in Ids, a \in Admins :
       \/ BanRefuse(r, x, a) \/ ReviewRefuse(r, x, a)
       \/ \E due \in (0..MaxNow) \cup {Nil} : BanRead(r, x, a, due)

Spec == Init /\ [][Next]_vars

-----------------------------------------------------------------------------
(* Type invariant.                                                         *)
TypeOK ==
  /\ now \in 0..MaxNow
  /\ contributors \in [Ids -> Contributor \cup {Nil}]
  /\ submissions \in [Ids -> Submission \cup {Nil}]
  /\ products \in [Requests -> Ids \cup {Nil}]
  /\ pc \in [Requests -> {"idle", "new contributor", "contributor", "submitting",
                          "new submission", "review", "publish"} \cup Answered]
  /\ target \in [Requests -> Ids \cup {Nil}]
  /\ draft \in [Requests -> Contributor \cup Submission \cup {Nil}]
  /\ seen \in [Requests -> SUBSET Ban]

(* A product on the market comes from a request that was accepted, is the  *)
(* one the request names, and so is the only one: an administrator who     *)
(* rejects, or accepts again, while another accepts leaves no stray product*)
ProductsOfAccepted ==
  \A r \in Requests :
    products[r] # Nil => /\ submissions[products[r]].review = "acception"
                         /\ submissions[products[r]].product = r

(* Two requests of an administrator to ban a contributor do not both       *)
(* succeed: at most one of its bans is in force.                           *)
OneBanPerAdministrator ==
  \A c \in Ids : contributors[c] # Nil =>
    \A x, y \in contributors[c].bans : x.admin = y.admin /\ InForce(x) /\ InForce(y) => x = y

(* A ban is never lost to another administrator's ban or to an upload.     *)
BansKept ==
  [][\A c \in Ids : contributors[c] # Nil =>
       contributors'[c] # Nil /\ contributors[c].bans \subseteq contributors'[c].bans]_vars

(* A product request that a ban in force forbids is stored only when the   *)
(* ban was given while the request was being handled: a ban that was there *)
(* when the contributor was read is respected.                             *)
NoSubmissionUnderKnownBan ==
  [][\A r \in Requests : submissions[r] = Nil /\ submissions'[r] # Nil =>
       \A ban \in contributors[submissions'[r].contributor].bans :
         ban.admin = AdminOf[submissions'[r].category] /\ InForce(ban) => ban \notin seen[r]]_vars

(* The stages of a request as the module Moderation has them.              *)
Stage(p) ==
  IF submissions[p] = Nil THEN "absent"
  ELSE IF \E r \in Requests : products[r] = p THEN "published"
  ELSE CASE submissions[p].review = "none"      -> "submitted"
         [] submissions[p].review = "rejection" -> "rejected"
         [] submissions[p].review = "acception" -> "accepted"

Abstract == INSTANCE Moderation WITH Submissions <- Ids, stage <- [p \in Ids |-> Stage(p)]

(* Every write is a step of the module Moderation or changes no stage: a   *)
(* review is final and a product is put on the market once, whoever        *)
(* reviews at the same time and whichever handler dies.                    *)
ImplementsModeration == Abstract!Spec

(* The product of an accepted request is on the market, or about to be.    *)
(* Violated: the handler may die between the two writes, and a second      *)
(* review is refused.                                                      *)
AcceptedHasProduct ==
  \A p \in Ids : submissions[p] # Nil /\ submissions[p].review = "acception" =>
    LET r == submissions[p].product IN products[r] = p \/ pc[r] = "publish"
=============================================================================
