------------------------ MODULE CrowdsourcingProofs ------------------------
(***************************************************************************)
(* Theorems about crowd-sourcing, for any contributors, categories, market *)
(* administrators and API requests: types, one ban in force for each       *)
(* administrator, bans are kept and respected, products come from accepted *)
(* requests, and the moderation promised by the module Moderation.         *)
(***************************************************************************)
EXTENDS Crowdsourcing, TLAPS

(* A request that has written, or never will.                              *)
Done == Answered \cup {"publish"}

OneEach(x) == \A a, b \in x.bans : a.admin = b.admin /\ InForce(a) /\ InForce(b) => a = b

(* Revisions are written last: a request in progress has not named one.    *)
Settled(x) == x.rev # Nil => pc[x.rev] \in Done

StoredOK(x) ==
  /\ contributors[x] # Nil => OneEach(contributors[x]) /\ Settled(contributors[x])
  /\ submissions[x] # Nil => Settled(submissions[x])

PublishedOK(r) ==
  products[r] # Nil =>
    /\ submissions[products[r]] # Nil
    /\ submissions[products[r]].review = "acception"
    /\ submissions[products[r]].product = r

(* What r has not inserted yet is not there.                               *)
Unborn(r) ==
  /\ pc[r] \notin Done => contributors[r] = Nil /\ submissions[r] = Nil
  /\ pc[r] # "ok" => products[r] = Nil

(* The drafts, state by state.  A draft that matches the stored document   *)
(* holds every ban of it, or reviews it for the first time.                *)
ContributorDraft(r) ==
  /\ target[r] \in Ids /\ contributors[target[r]] # Nil
  /\ draft[r] \in Contributor /\ OneEach(draft[r]) /\ Settled(draft[r])
  /\ Matches(contributors[target[r]], r) => contributors[target[r]].bans \subseteq draft[r].bans

SubmissionDraft(r) ==
  /\ draft[r] \in Submission /\ draft[r].review = "none"
  /\ \A ban \in seen[r] : ban.admin = AdminOf[draft[r].category] => ~ InForce(ban)

ReviewDraft(r) ==
  /\ target[r] \in Ids /\ submissions[target[r]] # Nil
  /\ draft[r] \in Submission /\ Settled(draft[r])
  /\ draft[r].review = "rejection" \/ (draft[r].review = "acception" /\ draft[r].product = r)
  /\ Matches(submissions[target[r]], r) => submissions[target[r]].review = "none"

Accepted(r) ==
  /\ target[r] \in Ids /\ submissions[target[r]] # Nil
  /\ submissions[target[r]].review = "acception" /\ submissions[target[r]].product = r

DraftOK(r) ==
  /\ pc[r] = "new contributor" => draft[r] \in Contributor /\ draft[r].bans = {}
  /\ pc[r] = "contributor" => ContributorDraft(r)
  /\ pc[r] = "submitting" =>
       target[r] \in Ids /\ draft[r] \in Contributor /\ draft[r].bans = seen[r]
  /\ pc[r] = "new submission" => SubmissionDraft(r)
  /\ pc[r] = "review" => ReviewDraft(r)
  /\ pc[r] = "publish" => Accepted(r)

RequestOK(r) == PublishedOK(r) /\ Unborn(r) /\ DraftOK(r)

(* The inductive invariant.                                                *)
IInv ==
  /\ TypeOK
  /\ \A x \in Ids : StoredOK(x)
  /\ \A r \in Requests : RequestOK(r)

-----------------------------------------------------------------------------
LEMMA InitIInv == Init => IInv
<1> SUFFICES ASSUME Init PROVE IInv
  OBVIOUS
<1> USE AdminAssumption, NilAssumption
<1>1. contributors \in [Ids -> Contributor \cup {Nil}]
  BY DEF Init, Contributor
<1>2. submissions \in [Ids -> Submission \cup {Nil}]
  <2>1. Earlier \subseteq Ids
    BY DEF Ids
  <2> QED
    BY <2>1 DEF Init, Submission
<1>3. TypeOK
  BY <1>1, <1>2 DEF Init, TypeOK
<1>4. ASSUME NEW x \in Ids PROVE StoredOK(x)
  BY DEF Init, StoredOK, OneEach, Settled
<1>5. ASSUME NEW r \in Requests PROVE RequestOK(r)
  BY DEF Init, RequestOK, PublishedOK, Unborn, DraftOK
<1> QED
  BY <1>3, <1>4, <1>5 DEF IInv

(* What is in force later was in force before.                             *)
LEMMA LaterInForce ==
  ASSUME TypeOK, now' \in {now, now + 1}, NEW ban, InForce(ban)'
  PROVE  InForce(ban)
<1>1. now \in 0..MaxNow
  BY DEF TypeOK
<1>2. 0..now \subseteq 0..now'
  BY <1>1, AdminAssumption
<1> QED
  BY <1>2 DEF InForce

(* A document under the _id x that somebody other than q has just written. *)
Rewritten(q, old, new, x) ==
  /\ new[x] # Nil /\ new[x].rev \in Requests /\ pc[new[x].rev] \notin Done
  /\ old[x] = Nil => x # q

(* What others do leaves a request right: it still owns its _id, and if its*)
(* document was rewritten its draft matches no more.                       *)
LEMMA RequestKept ==
  ASSUME IInv, now' \in {now, now + 1},
         NEW q \in Requests, pc'[q] = pc[q], target'[q] = target[q], draft'[q] = draft[q],
         seen'[q] = seen[q], products'[q] = products[q],
         \A p \in Requests : pc[p] \in Done => pc'[p] \in Done,
         \A x \in Ids : \/ contributors'[x] = contributors[x]
                       \/ Rewritten(q, contributors, contributors', x),
         \A x \in Ids : \/ submissions'[x] = submissions[x]
                       \/ /\ Rewritten(q, submissions, submissions', x)
                          /\ submissions[x] # Nil => submissions[x].review = "none"
  PROVE  RequestOK(q)'
<1> USE NilAssumption
<1>1. TypeOK /\ RequestOK(q) /\ q \in Ids
  BY DEF IInv, Ids
<1>2. ASSUME NEW x \in Contributor \cup Submission, Settled(x) PROVE Settled(x)'
  BY <1>2 DEF Settled, Contributor, Submission
<1>3. ASSUME NEW x \in Contributor, OneEach(x) PROVE OneEach(x)'
  BY <1>1, <1>3, LaterInForce DEF OneEach
<1>4. PublishedOK(q)'
  <2>1. products[q] \in Ids \cup {Nil} /\ PublishedOK(q)
    BY <1>1 DEF TypeOK, RequestOK
  <2> QED
    BY <2>1 DEF PublishedOK
<1>5. Unborn(q)'
  BY <1>1 DEF RequestOK, Unborn, Rewritten
<1>6. ASSUME pc[q] = "contributor" PROVE ContributorDraft(q)'
  <2>1. /\ target[q] \in Ids /\ contributors[target[q]] # Nil
        /\ draft[q] \in Contributor /\ OneEach(draft[q]) /\ Settled(draft[q])
        /\ Matches(contributors[target[q]], q) => contributors[target[q]].bans \subseteq draft[q].bans
    BY <1>1, <1>6 DEF RequestOK, DraftOK, ContributorDraft
  <2>2. Settled(draft[q])' /\ OneEach(draft[q])'
    BY <1>2, <1>3, <2>1 DEF Settled, OneEach
  <2>3. contributors'[target[q]] # contributors[target[q]] => ~ Matches(contributors'[target[q]], q)
    BY <2>1 DEF Matches, Settled, Rewritten, Ids
  <2> QED
    BY <2>1, <2>2, <2>3 DEF ContributorDraft, Matches, Rewritten
<1>7. ASSUME pc[q] = "new submission" PROVE SubmissionDraft(q)'
  BY <1>1, <1>7, LaterInForce DEF RequestOK, DraftOK, SubmissionDraft
<1>8. ASSUME pc[q] = "review" PROVE ReviewDraft(q)'
  <2>1. /\ target[q] \in Ids /\ submissions[target[q]] # Nil
        /\ draft[q] \in Submission /\ Settled(draft[q])
        /\ Matches(submissions[target[q]], q) => submissions[target[q]].review = "none"
    BY <1>1, <1>8 DEF RequestOK, DraftOK, ReviewDraft
  <2>2. Settled(draft[q])'
    BY <1>2, <2>1 DEF Settled
  <2>3. submissions'[target[q]] # submissions[target[q]] => ~ Matches(submissions'[target[q]], q)
    BY <2>1 DEF Matches, Settled, Rewritten, Ids
  <2> QED
    BY <1>1, <1>8, <2>1, <2>2, <2>3 DEF RequestOK, DraftOK, ReviewDraft, Matches, Rewritten
<1>9. ASSUME pc[q] = "publish" PROVE Accepted(q)'
  BY <1>1, <1>9 DEF RequestOK, DraftOK, Accepted
<1> QED
  BY <1>1, <1>4, <1>5, <1>6, <1>7, <1>8, <1>9 DEF RequestOK, DraftOK

(* The clock moves on, or nothing does.                                    *)
LEMMA IdleStep ==
  ASSUME IInv, TypeOK', now' \in {now, now + 1},
         UNCHANGED <<contributors, submissions, products, reqVars>>
  PROVE  IInv'
<1>1. ASSUME NEW x \in Ids PROVE StoredOK(x)'
  BY LaterInForce DEF IInv, StoredOK, OneEach, Settled, reqVars
<1>2. ASSUME NEW q \in Requests PROVE RequestOK(q)'
  BY RequestKept DEF reqVars
<1> QED
  BY <1>1, <1>2 DEF IInv

(* r, and nobody else, wrote the document x under the _id d, which is its  *)
(* own or that of a document which was there.                              *)
WrittenBy(r, old, d, x) ==
  /\ x # Nil /\ x.rev = r /\ pc[r] \notin Done
  /\ old[d] = Nil => d = r

(* A step of the request r, which may write one document.                  *)
LEMMA RequestStep ==
  ASSUME IInv, TypeOK', now' = now, NEW r \in Requests,
         \A q \in Requests \ {r} :
           /\ pc'[q] = pc[q] /\ target'[q] = target[q] /\ draft'[q] = draft[q]
           /\ seen'[q] = seen[q] /\ products'[q] = products[q],
         pc[r] \in Done => pc'[r] \in Done,
         RequestOK(r)',
         \/ contributors' = contributors
         \/ /\ pc'[r] \in Done
            /\ \E d \in Ids, x \in Contributor :
                 /\ contributors' = [contributors EXCEPT ![d] = x]
                 /\ WrittenBy(r, contributors, d, x) /\ OneEach(x),
         \/ submissions' = submissions
         \/ /\ pc'[r] \in Done
            /\ \E d \in Ids, x \in Submission :
                 /\ submissions' = [submissions EXCEPT ![d] = x]
                 /\ WrittenBy(r, submissions, d, x)
                 /\ submissions[d] # Nil => submissions[d].review = "none"
  PROVE  IInv'
<1> USE NilAssumption
<1>1. TypeOK /\ \A p \in Requests : pc[p] \in Done => pc'[p] \in Done
  BY DEF IInv
<1>2. ASSUME NEW x \in Ids
      PROVE  \/ contributors'[x] = contributors[x]
             \/ /\ contributors'[x].rev = r /\ pc[r] \notin Done /\ pc'[r] \in Done
                /\ contributors'[x] # Nil
                /\ contributors[x] = Nil => x = r
                /\ OneEach(contributors'[x])
  BY <1>1 DEF TypeOK, WrittenBy
<1>3. ASSUME NEW x \in Ids
      PROVE  \/ submissions'[x] = submissions[x]
             \/ /\ submissions'[x].rev = r /\ pc[r] \notin Done /\ pc'[r] \in Done
                /\ submissions'[x] # Nil
                /\ submissions[x] = Nil => x = r
                /\ submissions[x] # Nil => submissions[x].review = "none"
  BY <1>1 DEF TypeOK, WrittenBy
<1>4. ASSUME NEW x \in Ids PROVE StoredOK(x)'
  <2>1. /\ contributors[x] # Nil => OneEach(contributors[x]) /\ Settled(contributors[x])
        /\ submissions[x] # Nil => Settled(submissions[x])
        /\ contributors[x] # Nil => contributors[x] \in Contributor
        /\ submissions[x] # Nil => submissions[x] \in Submission
    BY <1>1 DEF IInv, StoredOK, TypeOK
  <2>2. contributors'[x] # Nil => OneEach(contributors[x])'
    BY <1>2, <2>1 DEF OneEach, InForce
  <2>3. contributors'[x] # Nil => Settled(contributors[x])'
    BY <1>1, <1>2, <2>1 DEF Settled, Contributor
  <2>4. submissions'[x] # Nil => Settled(submissions[x])'
    BY <1>1, <1>3, <2>1 DEF Settled, Submission
  <2> QED
    BY <2>2, <2>3, <2>4 DEF StoredOK
<1>5. ASSUME NEW q \in Requests \ {r} PROVE RequestOK(q)'
  <2>1. \A x \in Ids : \/ contributors'[x] = contributors[x]
                      \/ Rewritten(q, contributors, contributors', x)
    BY <1>2 DEF Rewritten
  <2>2. \A x \in Ids : \/ submissions'[x] = submissions[x]
                      \/ /\ Rewritten(q, submissions, submissions', x)
                         /\ submissions[x] # Nil => submissions[x].review = "none"
    BY <1>3 DEF Rewritten
  <2> QED
    BY <1>1, <2>1, <2>2, RequestKept
<1> QED
  BY <1>4, <1>5 DEF IInv

-----------------------------------------------------------------------------
(* A request is answered, or the process dies, without a write.            *)
LEMMA FailStep ==
  ASSUME IInv, NEW r \in Requests, NEW a \in Answered, Answer(r, a),
         UNCHANGED <<contributors, submissions, products>>,
         pc[r] = "ok" => a = "ok"
  PROVE  IInv'
<1>1. TypeOK /\ RequestOK(r)
  BY DEF IInv
<1>2. TypeOK'
  BY <1>1, NilAssumption DEF Answer, TypeOK
<1>3. /\ now' = now /\ pc'[r] = a
      /\ \A q \in Requests \ {r} :
           /\ pc'[q] = pc[q] /\ target'[q] = target[q] /\ draft'[q] = draft[q]
           /\ seen'[q] = seen[q] /\ products'[q] = products[q]
  BY <1>1 DEF Answer, TypeOK
<1>4. RequestOK(r)'
  BY <1>1, <1>3 DEF RequestOK, PublishedOK, Unborn, DraftOK, Done, Answered
<1> QED
  BY <1>2, <1>3, <1>4, RequestStep DEF Done

(* A request in progress prepares its next write.                          *)
LEMMA PrepareStep ==
  ASSUME IInv, NEW r \in Requests, NEW x \in Ids, NEW d \in Contributor \cup Submission,
         NEW s \in {"new contributor", "contributor", "submitting", "new submission", "review"},
         NEW b \in SUBSET Ban,
         pc[r] \notin Done, Prepare(r, x, d, s), seen' = [seen EXCEPT ![r] = b],
         (pc' = [pc EXCEPT ![r] = s] /\ target'[r] = x /\ draft'[r] = d /\ seen'[r] = b)
           => DraftOK(r)'
  PROVE  IInv'
<1>1. TypeOK /\ RequestOK(r)
  BY DEF IInv
<1>2. TypeOK'
  BY <1>1 DEF Prepare, TypeOK
<1>3. /\ now' = now /\ pc'[r] = s /\ target'[r] = x /\ draft'[r] = d /\ seen'[r] = b
      /\ pc' = [pc EXCEPT ![r] = s]
      /\ UNCHANGED <<contributors, submissions, products>>
      /\ \A q \in Requests \ {r} :
           /\ pc'[q] = pc[q] /\ target'[q] = target[q] /\ draft'[q] = draft[q]
           /\ seen'[q] = seen[q]
  BY <1>1 DEF Prepare, TypeOK
<1>4. PublishedOK(r)' /\ Unborn(r)'
  BY <1>1, <1>3 DEF RequestOK, PublishedOK, Unborn, Done, Answered
<1> QED
  BY <1>2, <1>3, <1>4, RequestStep DEF RequestOK

(* The states of requests, sorted.                                         *)
LEMMA InProgress ==
  ASSUME TypeOK, NEW r \in Requests
  PROVE  pc[r] \in {"idle", "new contributor", "contributor", "submitting", "new submission",
                    "review"} <=> pc[r] \notin Done
BY DEF TypeOK, Done, Answered

(* A draft d of the stored contributor c, with all the bans of c.          *)
LEMMA DraftOfContributor ==
  ASSUME IInv, NEW r \in Requests, pc[r] \notin Done, NEW c \in Ids, contributors[c] # Nil,
         NEW d \in Contributor, d.rev = contributors[c].rev, OneEach(d),
         contributors[c].bans \subseteq d.bans,
         pc' = [pc EXCEPT ![r] = "contributor"], target'[r] = c, draft'[r] = d,
         now' = now, contributors' = contributors
  PROVE  DraftOK(r)'
<1>1. TypeOK /\ Settled(contributors[c])
  BY DEF IInv, StoredOK
<1>2. pc'[r] = "contributor" /\ \A q \in Requests : pc[q] \in Done => pc'[q] = pc[q]
  BY <1>1 DEF TypeOK
<1>3. Settled(draft[r])' /\ OneEach(draft[r])'
  BY <1>1, <1>2 DEF Settled, OneEach, InForce, Contributor
<1> QED
  BY <1>2, <1>3 DEF DraftOK, ContributorDraft, Matches

(* A step of a contributor's or its bans' handler.                         *)
LEMMA ContributorStep ==
  ASSUME IInv, NEW r \in Requests,
         \/ CreateInsert(r) \/ ContributorReplace(r)
         \/ \E i \in Identifiers : CreateCheck(r, i)
         \/ \E c \in Ids : TouchRead(r, c)
         \/ \E c \in Ids, a \in Admins, due \in (0..MaxNow) \cup {Nil} : BanRead(r, c, a, due)
  PROVE  IInv'
<1> USE AdminAssumption, NilAssumption
<1>t. /\ TypeOK /\ RequestOK(r) /\ r \in Ids
      /\ \A c \in Ids : contributors[c] # Nil =>
           /\ contributors[c] \in Contributor /\ OneEach(contributors[c]) /\ Settled(contributors[c])
  BY DEF IInv, TypeOK, StoredOK, Ids
<1>1. ASSUME NEW i \in Identifiers, CreateCheck(r, i) PROVE IInv'
  <2> DEFINE d == [ident |-> i, bans |-> {}, rev |-> Nil]
  <2>1. d \in Contributor /\ d.bans = {}
    BY DEF Contributor
  <2>2. pc[r] = "idle" /\ Prepare(r, r, d, "new contributor") /\ seen' = [seen EXCEPT ![r] = seen[r]]
        /\ seen[r] \in SUBSET Ban
    BY <1>1, <1>t DEF CreateCheck, PrepareOnly, TypeOK
  <2> HIDE DEF d
  <2>3. pc' = [pc EXCEPT ![r] = "new contributor"] /\ draft'[r] = d => DraftOK(r)'
    BY <1>t, <2>1 DEF DraftOK, TypeOK
  <2> QED
    BY <1>t, <2>1, <2>2, <2>3, InProgress, PrepareStep
<1>2. ASSUME NEW c \in Ids, TouchRead(r, c) PROVE IInv'
  <2>1. /\ pc[r] = "idle" /\ contributors[c] # Nil
        /\ Prepare(r, c, contributors[c], "contributor") /\ seen' = [seen EXCEPT ![r] = seen[r]]
        /\ seen[r] \in SUBSET Ban /\ UNCHANGED <<now, contributors>>
    BY <1>2, <1>t DEF TouchRead, PrepareOnly, Prepare, TypeOK
  <2>2. contributors[c].bans \subseteq contributors[c].bans
    OBVIOUS
  <2> QED
    BY <1>t, <2>1, <2>2, InProgress, DraftOfContributor, PrepareStep
<1>3. ASSUME NEW c \in Ids, NEW a \in Admins, NEW due \in (0..MaxNow) \cup {Nil}, BanRead(r, c, a, due)
      PROVE  IInv'
  <2> DEFINE ban == [by |-> r, admin |-> a, due |-> due]
             d   == [contributors[c] EXCEPT !.bans = @ \cup {ban}]
  <2>1. ban \in Ban /\ ban.admin = a
    BY DEF Ban
  <2>2. /\ pc[r] = "idle" /\ contributors[c] # Nil
        /\ Prepare(r, c, d, "contributor") /\ seen' = [seen EXCEPT ![r] = seen[r]]
        /\ seen[r] \in SUBSET Ban /\ UNCHANGED <<now, contributors>>
        /\ \A b \in contributors[c].bans : b.admin = a => ~ InForce(b)
    BY <1>3, <1>t DEF BanRead, PrepareOnly, Prepare, TypeOK, BannedBy
  <2> HIDE DEF ban
  <2>3. /\ d \in Contributor /\ d.rev = contributors[c].rev
        /\ d.bans = contributors[c].bans \cup {ban}
    BY <1>t, <2>1, <2>2 DEF Contributor
  <2> HIDE DEF d
  <2>4. OneEach(d)
    BY <1>t, <2>1, <2>2, <2>3 DEF OneEach
  <2>5. contributors[c].bans \subseteq d.bans
    BY <2>3
  <2> QED
    BY <1>t, <2>2, <2>3, <2>4, <2>5, InProgress, DraftOfContributor, PrepareStep
<1>4. ASSUME NEW c \in Ids, NEW d \in Contributor, pc[r] \notin Done,
             contributors' = [contributors EXCEPT ![c] = [d EXCEPT !.rev = r]],
             OneEach(d), contributors[c] = Nil => c = r,
             Answer(r, "ok"), UNCHANGED <<submissions, products>>
      PROVE  IInv'
  <2> DEFINE x == [d EXCEPT !.rev = r]
  <2>1. x \in Contributor /\ x.rev = r /\ x.bans = d.bans /\ x # Nil
    BY DEF Contributor
  <2>2. contributors' = [contributors EXCEPT ![c] = x]
    BY <1>4
  <2> HIDE DEF x
  <2>3. TypeOK'
    <3>1. contributors' \in [Ids -> Contributor \cup {Nil}]
      BY <1>t, <2>1, <2>2 DEF TypeOK
    <3> QED
      BY <1>4, <1>t, <3>1 DEF Answer, TypeOK, Answered
  <2>4. /\ now' = now /\ pc'[r] = "ok" /\ pc'[r] \in Done
        /\ \A q \in Requests \ {r} :
             /\ pc'[q] = pc[q] /\ target'[q] = target[q] /\ draft'[q] = draft[q]
             /\ seen'[q] = seen[q] /\ products'[q] = products[q]
    BY <1>4, <1>t DEF Answer, TypeOK, Done, Answered
  <2>5. RequestOK(r)'
    BY <1>4, <1>t, <2>4 DEF RequestOK, PublishedOK, Unborn, DraftOK
  <2>6. OneEach(x) /\ WrittenBy(r, contributors, c, x)
    BY <1>4, <2>1 DEF OneEach, WrittenBy
  <2> QED
    BY <1>4, <2>1, <2>2, <2>3, <2>4, <2>5, <2>6, RequestStep
<1>5. CASE CreateInsert(r)
  <2>1. pc[r] \notin Done /\ draft[r] \in Contributor /\ OneEach(draft[r])
    BY <1>5, <1>t, InProgress DEF CreateInsert, RequestOK, DraftOK, OneEach
  <2> QED
    BY <1>5, <1>t, <1>4, <2>1 DEF CreateInsert
<1>6. CASE ContributorReplace(r)
  <2>1. /\ pc[r] \notin Done /\ draft[r] \in Contributor /\ OneEach(draft[r])
        /\ target[r] \in Ids /\ contributors[target[r]] # Nil
    BY <1>6, <1>t, InProgress DEF ContributorReplace, RequestOK, DraftOK, ContributorDraft
  <2> QED
    BY <1>6, <1>4, <2>1 DEF ContributorReplace
<1> QED
  BY <1>1, <1>2, <1>3, <1>5, <1>6

(* What a request in progress leaves in place when it stores a submission. *)
LEMMA StoreSubmission ==
  ASSUME IInv, NEW r \in Requests, pc[r] \notin Done, NEW p \in Ids, NEW x \in Submission,
         submissions' = [submissions EXCEPT ![p] = x], x.rev = r,
         submissions[p] = Nil => p = r,
         submissions[p] # Nil => submissions[p].review = "none",
         UNCHANGED <<now, contributors, products>>,
         NEW s \in {"ok", "publish"}, pc' = [pc EXCEPT ![r] = s],
         target' \in [Requests -> Ids \cup {Nil}], draft' \in [Requests -> Contributor \cup Submission \cup {Nil}],
         seen' \in [Requests -> SUBSET Ban],
         \A q \in Requests \ {r} :
           target'[q] = target[q] /\ draft'[q] = draft[q] /\ seen'[q] = seen[q],
         s = "publish" => target'[r] = p /\ x.review = "acception" /\ x.product = r
  PROVE  IInv'
<1> USE NilAssumption
<1>1. TypeOK /\ RequestOK(r)
  BY DEF IInv
<1>2. TypeOK'
  <2>1. submissions' \in [Ids -> Submission \cup {Nil}]
    BY <1>1 DEF TypeOK
  <2>2. pc' \in [Requests -> {"idle", "new contributor", "contributor", "submitting",
                             "new submission", "review", "publish"} \cup Answered]
    BY <1>1 DEF TypeOK, Answered
  <2> QED
    BY <1>1, <2>1, <2>2 DEF TypeOK
<1>3. pc'[r] = s /\ s \in Done /\ \A q \in Requests \ {r} : pc'[q] = pc[q]
  BY <1>1 DEF TypeOK, Done, Answered
<1>4. RequestOK(r)'
  <2>1. products[r] = Nil
    BY <1>1 DEF RequestOK, Unborn, Done, Answered
  <2>2. submissions'[p] = x /\ x # Nil
    BY <1>1 DEF TypeOK
  <2>3. PublishedOK(r)' /\ Unborn(r)'
    BY <1>3, <2>1 DEF PublishedOK, Unborn
  <2>4. pc'[r] = "publish" => Accepted(r)'
    BY <1>3, <2>2 DEF Accepted
  <2> QED
    BY <1>3, <2>3, <2>4 DEF RequestOK, DraftOK
<1>5. /\ pc'[r] \in Done
      /\ \E d \in Ids, y \in Submission :
           /\ submissions' = [submissions EXCEPT ![d] = y]
           /\ WrittenBy(r, submissions, d, y)
           /\ submissions[d] # Nil => submissions[d].review = "none"
  BY <1>3 DEF WrittenBy
<1> QED
  BY <1>2, <1>3, <1>4, <1>5, RequestStep

(* A step of a product request's handler.                                  *)
LEMMA SubmissionStep ==
  ASSUME IInv, NEW r \in Requests,
         \/ SubmitInsert(r) \/ AcceptReplace(r) \/ RejectReplace(r) \/ Publish(r)
         \/ \E x \in Ids : SubmitRead(r, x) \/ AcceptRead(r, x) \/ RejectRead(r, x)
         \/ \E k \in Categories : SubmitCheck(r, k)
  PROVE  IInv'
<1> USE AdminAssumption, NilAssumption
<1>t. /\ TypeOK /\ RequestOK(r) /\ r \in Ids /\ seen[r] \in SUBSET Ban
      /\ \A x \in Ids : contributors[x] # Nil => contributors[x] \in Contributor
      /\ \A x \in Ids : submissions[x] # Nil =>
           submissions[x] \in Submission /\ Settled(submissions[x])
  BY DEF IInv, TypeOK, StoredOK, Ids
<1>1. ASSUME NEW c \in Ids, SubmitRead(r, c) PROVE IInv'
  <2>1. /\ pc[r] = "idle" /\ contributors[c] \in Contributor
        /\ Prepare(r, c, contributors[c], "submitting")
        /\ seen' = [seen EXCEPT ![r] = contributors[c].bans]
    BY <1>1, <1>t DEF SubmitRead
  <2>2. contributors[c].bans \in SUBSET Ban
    BY <2>1 DEF Contributor
  <2>3. pc' = [pc EXCEPT ![r] = "submitting"] /\ target'[r] = c /\ draft'[r] = contributors[c]
        /\ seen'[r] = contributors[c].bans => DraftOK(r)'
    BY <1>t, <2>1 DEF DraftOK, TypeOK
  <2> QED
    BY <1>t, <2>1, <2>2, <2>3, InProgress, PrepareStep
<1>2. ASSUME NEW k \in Categories, SubmitCheck(r, k) PROVE IInv'
  <2> DEFINE d == [contributor |-> target[r], category |-> k, review |-> "none",
                   product |-> Nil, rev |-> Nil]
  <2>1. /\ pc[r] = "submitting" /\ Prepare(r, r, d, "new submission")
        /\ seen' = [seen EXCEPT ![r] = seen[r]] /\ now' = now
        /\ target[r] \in Ids /\ draft[r].bans = seen[r] /\ ~ BannedBy(draft[r], AdminOf[k])
    BY <1>2, <1>t DEF SubmitCheck, PrepareOnly, Prepare, RequestOK, DraftOK, TypeOK
  <2>2. d \in Submission /\ d.review = "none" /\ d.category = k
    BY <2>1 DEF Submission
  <2> HIDE DEF d
  <2>3. pc' = [pc EXCEPT ![r] = "new submission"] /\ draft'[r] = d /\ seen'[r] = seen[r]
        => DraftOK(r)'
    BY <1>t, <2>1, <2>2 DEF DraftOK, SubmissionDraft, BannedBy, InForce, TypeOK
  <2> QED
    BY <1>t, <2>1, <2>2, <2>3, InProgress, PrepareStep
<1>3. ASSUME NEW p \in Ids, NEW d \in Submission, pc[r] = "idle", submissions[p] # Nil,
             d.rev = submissions[p].rev, submissions[p].review = "none",
             d.review = "rejection" \/ (d.review = "acception" /\ d.product = r),
             PrepareOnly(r, p, d, "review")
      PROVE  IInv'
  <2>1. Prepare(r, p, d, "review") /\ seen' = [seen EXCEPT ![r] = seen[r]]
        /\ submissions' = submissions
    BY <1>3, <1>t DEF PrepareOnly, Prepare, TypeOK
  <2>2. ASSUME pc' = [pc EXCEPT ![r] = "review"], target'[r] = p, draft'[r] = d
        PROVE  DraftOK(r)'
    <3>1. pc'[r] = "review" /\ \A q \in Requests : pc[q] \in Done => pc'[q] = pc[q]
      BY <1>3, <1>t, <2>2 DEF TypeOK, Done, Answered
    <3>2. Settled(draft[r])'
      BY <1>3, <1>t, <2>2, <3>1 DEF Settled, Submission
    <3> QED
      BY <1>3, <2>1, <2>2, <3>1, <3>2 DEF DraftOK, ReviewDraft, Matches
  <2> QED
    BY <1>3, <1>t, <2>1, <2>2, InProgress, PrepareStep
<1>4. ASSUME NEW p \in Ids, AcceptRead(r, p) PROVE IInv'
  <2> DEFINE d == [submissions[p] EXCEPT !.review = "acception", !.product = r]
  <2>1. /\ pc[r] = "idle" /\ submissions[p] # Nil /\ submissions[p].review = "none"
        /\ PrepareOnly(r, p, d, "review")
    BY <1>4 DEF AcceptRead, Reviewed
  <2>2. d \in Submission /\ d.rev = submissions[p].rev /\ d.review = "acception" /\ d.product = r
    BY <1>t, <2>1 DEF Submission
  <2> HIDE DEF d
  <2> QED
    BY <1>3, <2>1, <2>2
<1>5. ASSUME NEW p \in Ids, RejectRead(r, p) PROVE IInv'
  <2> DEFINE d == [submissions[p] EXCEPT !.review = "rejection"]
  <2>1. /\ pc[r] = "idle" /\ submissions[p] # Nil /\ submissions[p].review = "none"
        /\ PrepareOnly(r, p, d, "review")
    BY <1>5 DEF RejectRead, Reviewed
  <2>2. d \in Submission /\ d.rev = submissions[p].rev /\ d.review = "rejection"
    BY <1>t, <2>1 DEF Submission
  <2> HIDE DEF d
  <2> QED
    BY <1>3, <2>1, <2>2
<1>6. ASSUME draft[r] \in Submission
      PROVE  LET x == [draft[r] EXCEPT !.rev = r] IN
             x \in Submission /\ x.rev = r /\ x.review = draft[r].review /\ x.product = draft[r].product
  BY <1>6 DEF Submission
<1>7. ASSUME NEW a \in Answered, Answer(r, a)
      PROVE  /\ target' \in [Requests -> Ids \cup {Nil}]
             /\ draft' \in [Requests -> Contributor \cup Submission \cup {Nil}]
             /\ seen' \in [Requests -> SUBSET Ban]
             /\ pc' = [pc EXCEPT ![r] = a] /\ now' = now
             /\ \A q \in Requests \ {r} :
                  target'[q] = target[q] /\ draft'[q] = draft[q] /\ seen'[q] = seen[q]
  BY <1>7, <1>t DEF Answer, TypeOK
<1>8. CASE SubmitInsert(r)
  <2> DEFINE x == [draft[r] EXCEPT !.rev = r]
  <2>1. pc[r] \notin Done /\ draft[r] \in Submission /\ submissions[r] = Nil
    BY <1>8, <1>t, InProgress DEF SubmitInsert, RequestOK, DraftOK, SubmissionDraft, Unborn
  <2>2. x \in Submission /\ x.rev = r
    BY <1>6, <2>1
  <2>3. submissions' = [submissions EXCEPT ![r] = x] /\ Answer(r, "ok")
        /\ UNCHANGED <<contributors, products>> /\ "ok" \in Answered
    BY <1>8 DEF SubmitInsert, Answered
  <2> HIDE DEF x
  <2> QED
    BY <1>t, <1>7, <2>1, <2>2, <2>3, StoreSubmission
<1>9. CASE RejectReplace(r) \/ AcceptReplace(r)
  <2> DEFINE x == [draft[r] EXCEPT !.rev = r]
  <2>1. /\ pc[r] \notin Done /\ draft[r] \in Submission /\ target[r] \in Ids
        /\ submissions[target[r]] # Nil /\ submissions[target[r]].review = "none"
        /\ draft[r].review = "acception" => draft[r].product = r
    BY <1>9, <1>t, InProgress
    DEF RejectReplace, AcceptReplace, RequestOK, DraftOK, ReviewDraft
  <2>2. /\ x \in Submission /\ x.rev = r /\ x.review = draft[r].review
        /\ x.product = draft[r].product
    BY <1>6, <2>1
  <2>3. submissions' = [submissions EXCEPT ![target[r]] = x] /\ UNCHANGED <<contributors, products>>
    BY <1>9 DEF RejectReplace, AcceptReplace
  <2> HIDE DEF x
  <2>4. CASE RejectReplace(r)
    <3>1. Answer(r, "ok") /\ "ok" \in Answered
      BY <2>4 DEF RejectReplace, Answered
    <3> QED
      BY <1>7, <2>1, <2>2, <2>3, <3>1, StoreSubmission
  <2>5. CASE AcceptReplace(r)
    <3>1. /\ pc' = [pc EXCEPT ![r] = "publish"] /\ UNCHANGED <<now, target, draft, seen>>
          /\ x.review = "acception" /\ x.product = r
      BY <2>1, <2>2, <2>5 DEF AcceptReplace
    <3> QED
      BY <1>t, <2>1, <2>2, <2>3, <3>1, StoreSubmission DEF TypeOK
  <2> QED
    BY <1>9, <2>4, <2>5
<1>10. CASE Publish(r)
  <2>1. /\ pc[r] = "publish" /\ Accepted(r) /\ products' = [products EXCEPT ![r] = target[r]]
        /\ Answer(r, "ok") /\ UNCHANGED <<contributors, submissions>>
    BY <1>10, <1>t DEF Publish, RequestOK, DraftOK
  <2>2. /\ now' = now /\ pc'[r] = "ok" /\ products'[r] = target[r]
        /\ \A q \in Requests \ {r} :
             /\ pc'[q] = pc[q] /\ target'[q] = target[q] /\ draft'[q] = draft[q]
             /\ seen'[q] = seen[q] /\ products'[q] = products[q]
    BY <1>t, <2>1 DEF Answer, TypeOK
  <2>3. TypeOK'
    BY <1>t, <2>1 DEF Answer, TypeOK, Answered, Accepted
  <2>4. RequestOK(r)'
    BY <2>1, <2>2 DEF RequestOK, PublishedOK, Unborn, DraftOK, Accepted, Done, Answered
  <2> QED
    BY <2>1, <2>2, <2>3, <2>4, RequestStep DEF Done, Answered
<1> QED
  BY <1>1, <1>2, <1>4, <1>5, <1>8, <1>9, <1>10

LEMMA IInvStep == IInv /\ [Next]_vars => IInv'
<1> SUFFICES ASSUME IInv, [Next]_vars PROVE IInv'
  OBVIOUS
<1> USE AdminAssumption, NilAssumption
<1>1. ASSUME Tick PROVE IInv'
  <2>1. UNCHANGED <<contributors, submissions, products, reqVars>> /\ now' = now + 1 /\ now' \in 0..MaxNow
    <3>1. now \in 0..MaxNow
      BY DEF IInv, TypeOK
    <3> QED
      BY <1>1, <3>1 DEF Tick
  <2>2. TypeOK'
    BY <2>1 DEF IInv, TypeOK, reqVars
  <2> QED
    BY <2>1, <2>2, IdleStep
<1>2. ASSUME NEW r \in Requests, NEW a \in Answered, Answer(r, a), pc[r] \notin Answered,
             UNCHANGED <<contributors, submissions, products>>
      PROVE  IInv'
  BY <1>2, FailStep DEF Answered
<1>3. ASSUME NEW r \in Requests, Fail(r), pc[r] \notin Answered PROVE IInv'
  BY <1>2, <1>3 DEF Fail, Answered
<1>4. ASSUME NEW r \in Requests, ContributorConflict(r) \/ ReviewConflict(r) PROVE IInv'
  BY <1>3, <1>4 DEF ContributorConflict, ReviewConflict, Answered
<1>5. ASSUME NEW r \in Requests, NEW k \in Categories, SubmitRefuse(r, k) PROVE IInv'
  BY <1>3, <1>5 DEF SubmitRefuse, Answered
<1>6. ASSUME NEW r \in Requests, NEW i \in Identifiers, CreateRefuse(r, i) PROVE IInv'
  BY <1>3, <1>6 DEF CreateRefuse, Answered
<1>7. ASSUME NEW r \in Requests, NEW x \in Ids, NEW a \in Admins,
             BanRefuse(r, x, a) \/ ReviewRefuse(r, x, a)
      PROVE  IInv'
  BY <1>3, <1>7 DEF BanRefuse, ReviewRefuse, Answered
<1>8. ASSUME NEW r \in Requests, Die(r) PROVE IInv'
  BY <1>2, <1>8 DEF Die, Answered
<1>9. CASE UNCHANGED vars
  <2>1. TypeOK'
    BY <1>9 DEF IInv, TypeOK, vars, reqVars
  <2> QED
    BY <1>9, <2>1, IdleStep DEF vars
<1> QED
  BY <1>1, <1>4, <1>5, <1>6, <1>7, <1>8, <1>9, ContributorStep, SubmissionStep DEF Next

LEMMA Inductive == Spec => []IInv
  BY InitIInv, IInvStep, PTL DEF Spec

-----------------------------------------------------------------------------
(* Collections and requests in progress always have their type.            *)
THEOREM TypeCorrect == Spec => []TypeOK
<1>1. IInv => TypeOK
  BY DEF IInv
<1> QED
  BY <1>1, Inductive, PTL

(* A product on the market is the one that its accepted request names.     *)
THEOREM ProductsTheorem == Spec => []ProductsOfAccepted
<1>1. IInv => ProductsOfAccepted
  BY DEF IInv, RequestOK, PublishedOK, ProductsOfAccepted
<1> QED
  BY <1>1, Inductive, PTL

(* An administrator never has two bans of one contributor in force.        *)
THEOREM OneBanTheorem == Spec => []OneBanPerAdministrator
<1>1. IInv => OneBanPerAdministrator
  BY DEF IInv, StoredOK, OneEach, OneBanPerAdministrator
<1> QED
  BY <1>1, Inductive, PTL

(* A stored contributor is only ever replaced by one with all its bans.    *)
LEMMA ContributorKept ==
  ASSUME IInv, [Next]_vars, NEW c \in Ids, contributors[c] # Nil
  PROVE  contributors'[c] # Nil /\ contributors[c].bans \subseteq contributors'[c].bans
<1> USE NilAssumption
<1>t. contributors \in [Ids -> Contributor \cup {Nil}]
  BY DEF IInv, TypeOK
<1>1. ASSUME NEW r \in Requests, CreateInsert(r) PROVE contributors'[c] = contributors[c]
  <2>1. contributors[r] = Nil
    BY <1>1 DEF CreateInsert, IInv, RequestOK, Unborn, Done, Answered
  <2> QED
    BY <1>1, <1>t, <2>1 DEF CreateInsert
<1>2. ASSUME NEW r \in Requests, ContributorReplace(r), target[r] # c
      PROVE  contributors'[c] = contributors[c]
  BY <1>2, <1>t DEF ContributorReplace
<1>3. ASSUME NEW r \in Requests, ContributorReplace(r), target[r] = c
      PROVE  contributors'[c] # Nil /\ contributors[c].bans \subseteq contributors'[c].bans
  <2> DEFINE x == [draft[r] EXCEPT !.rev = r]
  <2>1. /\ draft[r] \in Contributor /\ contributors[c].bans \subseteq draft[r].bans
        /\ contributors'[c] = x
    BY <1>3, <1>t DEF ContributorReplace, IInv, RequestOK, DraftOK, ContributorDraft
  <2>2. x \in Contributor /\ x.bans = draft[r].bans
    BY <2>1 DEF Contributor
  <2> HIDE DEF x
  <2> QED
    BY <2>1, <2>2
<1>4. CASE contributors' = contributors
  BY <1>4
<1> QED
  BY <1>1, <1>2, <1>3, <1>4
  DEF Next, vars, Tick, ContributorConflict, SubmitInsert, AcceptReplace, RejectReplace, ReviewConflict,
      Publish, Die, CreateCheck, CreateRefuse, TouchRead, SubmitRead, AcceptRead, RejectRead, SubmitCheck,
      SubmitRefuse, BanRefuse, ReviewRefuse, BanRead, PrepareOnly, Prepare, Fail

(* No ban is lost to another administrator's ban or to an upload.          *)
THEOREM BansKeptTheorem == Spec => BansKept
<1>1. IInv /\ [Next]_vars =>
        [\A c \in Ids : contributors[c] # Nil =>
           contributors'[c] # Nil /\ contributors[c].bans \subseteq contributors'[c].bans]_vars
  BY ContributorKept
<1> QED
  BY <1>1, Inductive, PTL DEF Spec, BansKept

(* What a step does to product requests and to products.                   *)
LEMMA SubmissionsStep ==
  ASSUME [Next]_vars
  PROVE  \/ \E r \in Requests :
              SubmitInsert(r) \/ AcceptReplace(r) \/ RejectReplace(r) \/ Publish(r)
         \/ UNCHANGED <<submissions, products>>
BY DEF Next, vars, Tick, CreateInsert, ContributorReplace, ContributorConflict, ReviewConflict, Die,
       CreateCheck, CreateRefuse, TouchRead, SubmitRead, AcceptRead, RejectRead, SubmitCheck,
       SubmitRefuse, BanRefuse, ReviewRefuse, BanRead, PrepareOnly, Prepare, Fail

(* A ban that was there when the contributor was read is respected.        *)
THEOREM KnownBanTheorem == Spec => NoSubmissionUnderKnownBan
<1> USE NilAssumption
<1>1. ASSUME IInv, [Next]_vars, NEW r \in Requests, submissions[r] = Nil, submissions'[r] # Nil,
             NEW ban \in contributors[submissions'[r].contributor].bans,
             ban.admin = AdminOf[submissions'[r].category], InForce(ban)
      PROVE  ban \notin seen[r]
  <2>t. submissions \in [Ids -> Submission \cup {Nil}] /\ Requests \subseteq Ids
    BY <1>1 DEF IInv, TypeOK, Ids
  <2>1. SubmitInsert(r)
    <3>1. ASSUME NEW q \in Requests, SubmitInsert(q) PROVE q = r
      BY <1>1, <2>t, <3>1 DEF SubmitInsert
    <3>2. ASSUME NEW q \in Requests, AcceptReplace(q) \/ RejectReplace(q) PROVE FALSE
      <4>1. submissions[target[q]] # Nil
        BY <1>1, <3>2 DEF AcceptReplace, RejectReplace, IInv, RequestOK, DraftOK, ReviewDraft
      <4> QED
        BY <1>1, <2>t, <3>2, <4>1 DEF AcceptReplace, RejectReplace
    <3> QED
      BY <1>1, <3>1, <3>2, SubmissionsStep DEF Publish
  <2>2. SubmissionDraft(r)
    BY <1>1, <2>1 DEF SubmitInsert, IInv, RequestOK, DraftOK
  <2>3. submissions'[r].category = draft[r].category
    <3>1. submissions'[r] = [draft[r] EXCEPT !.rev = r]
      BY <2>1, <2>t DEF SubmitInsert, Ids
    <3> QED
      BY <2>2, <3>1 DEF SubmissionDraft, Submission
  <2> QED
    BY <1>1, <2>2, <2>3 DEF SubmissionDraft
<1>2. IInv /\ [Next]_vars =>
        [\A r \in Requests : submissions[r] = Nil /\ submissions'[r] # Nil =>
           \A ban \in contributors[submissions'[r].contributor].bans :
             ban.admin = AdminOf[submissions'[r].category] /\ InForce(ban) => ban \notin seen[r]]_vars
  BY <1>1
<1> QED
  BY <1>2, Inductive, PTL DEF Spec, NoSubmissionUnderKnownBan

-----------------------------------------------------------------------------
OnMarket(p) == \E r \in Requests : products[r] = p

(* The stage of p from its document and its product, without CASE.         *)
StageShown(p) ==
  /\ submissions[p] = Nil => Stage(p) = "absent"
  /\ submissions[p] # Nil /\ OnMarket(p) => Stage(p) = "published"
  /\ submissions[p] # Nil /\ ~ OnMarket(p) =>
       /\ submissions[p].review = "none"      => Stage(p) = "submitted"
       /\ submissions[p].review = "rejection" => Stage(p) = "rejected"
       /\ submissions[p].review = "acception" => Stage(p) = "accepted"

LEMMA StageValues ==
  ASSUME TypeOK, NEW p \in Ids
  PROVE  /\ StageShown(p) /\ StageShown(p)'
         /\ submissions'[p] = submissions[p] /\ (OnMarket(p)' <=> OnMarket(p)) => Stage(p)' = Stage(p)
<1>1. StageShown(p)
  BY DEF StageShown, Stage, OnMarket
<1>2. StageShown(p)'
  BY DEF StageShown, Stage, OnMarket
<1>3. ASSUME submissions'[p] = submissions[p], OnMarket(p)' <=> OnMarket(p)
      PROVE  Stage(p)' = Stage(p)
  <2>1. submissions[p] # Nil => submissions[p].review \in {"none", "acception", "rejection"}
    BY DEF TypeOK, Submission
  <2> QED
    BY <1>1, <1>2, <1>3, <2>1 DEF StageShown
<1> QED
  BY <1>1, <1>2, <1>3

(* A step that moves p on, and nothing else, as Moderation has it.         *)
LEMMA MoveStep ==
  ASSUME NEW p \in Ids, NEW from, NEW to, Stage(p) = from, Stage(p)' = to,
         \A q \in Ids \ {p} : Stage(q)' = Stage(q)
  PROVE  Abstract!Move(p, from, to)
BY DEF Abstract!Move

(* Each write of a product request or of a product moves one of them on.   *)
LEMMA StepModeration == IInv /\ [Next]_vars => [Abstract!Next]_([p \in Ids |-> Stage(p)])
<1> SUFFICES ASSUME IInv, [Next]_vars
             PROVE  Abstract!Next \/ \A p \in Ids : Stage(p)' = Stage(p)
  OBVIOUS
<1> USE NilAssumption
<1>t. /\ TypeOK /\ Requests \subseteq Ids
      /\ \A r \in Requests : PublishedOK(r) /\ Unborn(r) /\ DraftOK(r)
  BY DEF IInv, RequestOK, Ids
<1>1. ASSUME NEW r \in Requests, SubmitInsert(r) PROVE Abstract!Submit(r)
  <2> DEFINE x == [draft[r] EXCEPT !.rev = r]
  <2>1. /\ r \in Ids /\ submissions[r] = Nil /\ draft[r] \in Submission /\ draft[r].review = "none"
        /\ submissions' = [submissions EXCEPT ![r] = x] /\ products' = products
    BY <1>1, <1>t DEF SubmitInsert, Unborn, DraftOK, SubmissionDraft, Done, Answered
  <2>2. x \in Submission /\ x.review = "none" /\ x # Nil
    BY <2>1 DEF Submission
  <2> HIDE DEF x
  <2>3. ~ OnMarket(r) /\ \A p \in Ids : OnMarket(p)' <=> OnMarket(p)
    BY <1>t, <2>1 DEF OnMarket, PublishedOK
  <2>4. submissions'[r] = x /\ \A p \in Ids \ {r} : submissions'[p] = submissions[p]
    BY <1>t, <2>1 DEF TypeOK
  <2>5. Stage(r) = "absent" /\ Stage(r)' = "submitted"
    BY <1>t, <2>1, <2>2, <2>3, <2>4, StageValues DEF StageShown
  <2>6. \A p \in Ids \ {r} : Stage(p)' = Stage(p)
    BY <1>t, <2>3, <2>4, StageValues
  <2>7. Abstract!Move(r, "absent", "submitted")
    BY <2>1, <2>5, <2>6, MoveStep
  <2> QED
    BY <2>7 DEF Abstract!Submit
<1>2. ASSUME NEW r \in Requests, AcceptReplace(r) \/ RejectReplace(r)
      PROVE  \E p \in Ids : Abstract!Accept(p) \/ Abstract!Reject(p)
  <2>t. PICK t \in Ids : t = target[r]
    BY <1>2, <1>t DEF AcceptReplace, RejectReplace, DraftOK, ReviewDraft
  <2> DEFINE x == [draft[r] EXCEPT !.rev = r]
  <2>1. /\ submissions[t] # Nil /\ submissions[t].review = "none"
        /\ draft[r] \in Submission /\ draft[r].review \in {"acception", "rejection"}
        /\ submissions' = [submissions EXCEPT ![t] = x] /\ products' = products
    BY <1>2, <1>t, <2>t DEF AcceptReplace, RejectReplace, DraftOK, ReviewDraft
  <2>2. x \in Submission /\ x.review = draft[r].review /\ x # Nil
    BY <2>1 DEF Submission
  <2> HIDE DEF x
  <2>3. ~ OnMarket(t) /\ \A p \in Ids : OnMarket(p)' <=> OnMarket(p)
    BY <1>t, <2>1 DEF OnMarket, PublishedOK
  <2>4. submissions'[t] = x /\ \A p \in Ids \ {t} : submissions'[p] = submissions[p]
    BY <1>t, <2>1 DEF TypeOK
  <2>5. Stage(t) = "submitted"
    BY <1>t, <2>1, <2>3, StageValues DEF StageShown
  <2>6. Stage(t)' = "accepted" \/ Stage(t)' = "rejected"
    BY <1>t, <2>1, <2>2, <2>3, <2>4, StageValues DEF StageShown
  <2>7. \A p \in Ids \ {t} : Stage(p)' = Stage(p)
    BY <1>t, <2>3, <2>4, StageValues
  <2>8. Abstract!Move(t, "submitted", "accepted") \/ Abstract!Move(t, "submitted", "rejected")
    BY <2>1, <2>5, <2>6, <2>7, MoveStep
  <2> QED
    BY <2>1, <2>8 DEF Abstract!Accept, Abstract!Reject
<1>3. ASSUME NEW r \in Requests, Publish(r) PROVE \E p \in Ids : Abstract!Publish(p)
  <2>t. PICK t \in Ids : t = target[r]
    BY <1>3, <1>t DEF Publish, DraftOK, Accepted
  <2>1. /\ submissions[t] # Nil /\ submissions[t].review = "acception"
        /\ submissions[t].product = r /\ products[r] = Nil
        /\ submissions' = submissions /\ products' = [products EXCEPT ![r] = t]
    BY <1>3, <1>t, <2>t DEF Publish, DraftOK, Accepted, Unborn
  <2>2. products'[r] = t /\ \A q \in Requests \ {r} : products'[q] = products[q]
    BY <1>t, <2>1 DEF TypeOK
  <2>3. ~ OnMarket(t) /\ OnMarket(t)'
    BY <1>t, <2>1, <2>2 DEF OnMarket, PublishedOK
  <2>4. \A p \in Ids \ {t} : OnMarket(p)' <=> OnMarket(p)
    BY <1>t, <2>1, <2>2 DEF OnMarket
  <2>5. Stage(t) = "accepted" /\ Stage(t)' = "published"
    BY <1>t, <2>1, <2>3, StageValues DEF StageShown
  <2>6. \A p \in Ids \ {t} : Stage(p)' = Stage(p)
    BY <1>t, <2>1, <2>4, StageValues
  <2>7. Abstract!Move(t, "accepted", "published")
    BY <2>1, <2>5, <2>6, MoveStep
  <2> QED
    BY <2>1, <2>7 DEF Abstract!Publish
<1>4. CASE UNCHANGED <<submissions, products>>
  BY <1>4, <1>t, StageValues DEF OnMarket
<1> QED
  BY <1>1, <1>2, <1>3, <1>4, <1>t, SubmissionsStep DEF Abstract!Next

(* A review is final and a product is put on the market once, whoever      *)
(* reviews at the same time and whichever handler dies.                    *)
THEOREM ModerationTheorem == Spec => ImplementsModeration
<1>1. Init => Abstract!Init
  <2> SUFFICES ASSUME Init, NEW p \in Ids PROVE Stage(p) \in {"absent", "submitted"}
    BY DEF Abstract!Init
  <2>1. submissions[p] # Nil => submissions[p].review = "none"
    BY DEF Init
  <2>2. ~ OnMarket(p)
    BY NilAssumption DEF Init, OnMarket
  <2> QED
    BY <2>1, <2>2, InitIInv, StageValues DEF IInv, StageShown
<1> QED
  BY <1>1, Inductive, StepModeration, PTL DEF Spec, ImplementsModeration, Abstract!Spec
=============================================================================
