---------------------------- MODULE VendorsProofs ----------------------------
(***************************************************************************)
(* Theorems about vendors and their bans, for any sets of vendors,         *)
(* identifiers and requests, any clock and any number of nights: types,    *)
(* that status and activation tell one story, that one ban at most is in   *)
(* force, that bans are kept, that only the nightly task lifts a ban, and  *)
(* that a night lifts every ban that was over before it.                   *)
(***************************************************************************)
EXTENDS Vendors, TLAPS

Consistent(x) ==
  /\ x.status = "pending" <=> ~ x.activated
  /\ x.status = "banned" => x.bans # {}

AtMostOne(x) == \A a, b \in x.bans : InForce(a) /\ InForce(b) => a = b

(* PATCH {"isActivated": true}, before the identifier has been looked for. *)
Activating(x) == x.activated /\ x.status = "pending"

Working == {"new", "verify", "ready"}

(* Nobody else has the _id that r is about to insert.                      *)
Fresh(r) == vendors[target[r]] = Nil /\ \A q \in Requests : target[q] = target[r] => q = r

(* What r is about to write, against the stored document: as long as no    *)
(* request has written, there is nothing in the latter that the former     *)
(* would undo.  The task may have written its status, "active".            *)
Extends(x, y) ==
  /\ x.bans \subseteq y.bans
  /\ x.activated => y.activated
  /\ x.status = "banned" => y.status = "banned"

Follows(r) ==
  /\ vendors[target[r]] # Nil
  /\ draft[r].rev <= vendors[target[r]].rev
  /\ Matches(r) => Extends(vendors[target[r]], draft[r])

DraftOK(r) ==
  pc[r] \in Working =>
    /\ target[r] \in Ids /\ draft[r] \in Vendor
    /\ AtMostOne(draft[r])
    /\ IF pc[r] = "verify" THEN Activating(draft[r]) ELSE Consistent(draft[r])
    /\ IF pc[r] = "new" THEN Fresh(r) ELSE Follows(r)

(* The inductive invariant.  That a vendor in the queue is activated makes *)
(* the task's "active", written by _id alone, agree with isActivated.      *)
IInv ==
  /\ TypeOK
  /\ \A v \in Existing : Consistent(vendors[v]) /\ AtMostOne(vendors[v])
  /\ \A v \in queue : vendors[v].activated
  /\ \A r \in Requests : DraftOK(r)

-----------------------------------------------------------------------------
LEMMA InitIInv == Init => IInv
<1> SUFFICES ASSUME Init PROVE IInv
  OBVIOUS
<1> USE TimeAssumption, NilAssumption
<1>1. ASSUME NEW v \in Existing
      PROVE  /\ vendors[v] \in Vendor /\ vendors[v].bans = {}
             /\ vendors[v].status = "pending" <=> ~ vendors[v].activated
             /\ vendors[v].status # "banned"
  BY DEF Init, Existing, Vendor
<1>2. vendors \in [Ids -> Vendor \cup {Nil}]
  BY DEF Init, Vendor
<1>3. TypeOK
  BY <1>2 DEF Init, TypeOK
<1>4. \A v \in Existing : Consistent(vendors[v]) /\ AtMostOne(vendors[v])
  BY <1>1 DEF Consistent, AtMostOne
<1>5. \A r \in Requests : DraftOK(r)
  BY DEF Init, DraftOK, Working
<1> QED
  BY <1>3, <1>4, <1>5 DEF Init, IInv

(* What is in force later was in force before.                             *)
LEMMA LaterAtMostOne ==
  ASSUME TypeOK, now' \in {now, now + 1}, NEW x \in Vendor, AtMostOne(x)
  PROVE  AtMostOne(x)'
BY DEF TypeOK, AtMostOne, InForce, Vendor, Ban

(* A request's draft stays right while no vendor is written, whatever the  *)
(* clock does, as long as nobody else takes its new _id.                   *)
LEMMA DraftKept ==
  ASSUME IInv, vendors' = vendors, now' \in {now, now + 1},
         NEW q \in Requests, pc'[q] = pc[q], target'[q] = target[q], draft'[q] = draft[q],
         Fresh(q) => \A p \in Requests : target'[p] = target[q] => p = q
  PROVE  DraftOK(q)'
<1> SUFFICES ASSUME pc[q] \in Working PROVE DraftOK(q)'
  BY DEF DraftOK
<1>1. DraftOK(q) /\ draft[q] \in Vendor /\ AtMostOne(draft[q])
  BY DEF IInv, DraftOK
<1>2. AtMostOne(draft[q])'
  BY <1>1, LaterAtMostOne DEF IInv, AtMostOne
<1>3. Fresh(q) => Fresh(q)'
  BY DEF Fresh
<1>4. Follows(q) => Follows(q)'
  BY DEF Follows, Matches, Extends
<1> QED
  BY <1>1, <1>2, <1>3, <1>4 DEF DraftOK, Consistent, Activating

(* A step that leaves the collection and every request alone: of the clock *)
(* or of the task.                                                         *)
LEMMA IdleStep ==
  ASSUME IInv, TypeOK', UNCHANGED <<vendors, reqVars>>, now' \in {now, now + 1},
         \A v \in queue' : vendors[v].activated
  PROVE  IInv'
<1>1. \A v \in Existing' : Consistent(vendors[v])' /\ AtMostOne(vendors[v])'
  <2> SUFFICES ASSUME NEW v \in Existing PROVE Consistent(vendors[v])' /\ AtMostOne(vendors[v])'
    BY DEF Existing
  <2>1. vendors[v] \in Vendor /\ Consistent(vendors[v]) /\ AtMostOne(vendors[v])
    BY DEF IInv, TypeOK, Existing
  <2> QED
    BY <2>1, LaterAtMostOne DEF IInv, Consistent, AtMostOne
<1>2. \A q \in Requests : DraftOK(q)'
  BY DraftKept DEF reqVars, Fresh
<1> QED
  BY <1>1, <1>2 DEF IInv

(* A request that is answered without a write.                             *)
LEMMA AnswerStep ==
  ASSUME IInv, NEW r \in Requests, NEW a \in {"ok", "failed", "conflict"},
         Answer(r, a), UNCHANGED <<vendors, owed>>
  PROVE  IInv'
<1>1. TypeOK'
  BY DEF IInv, TypeOK, Answer, cronVars, Existing
<1>2. /\ pc'[r] = a /\ target' = target /\ now' = now /\ queue' = queue
      /\ \A q \in Requests \ {r} : pc'[q] = pc[q] /\ draft'[q] = draft[q]
  BY DEF IInv, TypeOK, Answer, cronVars
<1>3. \A q \in Requests \ {r} : DraftOK(q)'
  BY <1>2, DraftKept DEF Fresh
<1>4. DraftOK(r)'
  BY <1>2 DEF DraftOK, Working
<1>5. \A v \in Existing' : Consistent(vendors[v])' /\ AtMostOne(vendors[v])'
  BY <1>2 DEF IInv, Existing, Consistent, AtMostOne, InForce
<1> QED
  BY <1>1, <1>2, <1>3, <1>4, <1>5 DEF IInv

(* A request that prepares the document x for the vendor v.                *)
LEMMA PrepareStep ==
  ASSUME IInv, NEW r \in Requests, NEW v \in Ids, NEW x \in Vendor, NEW s \in Working,
         Prepare(r, v, x, s), AtMostOne(x),
         IF s = "verify" THEN Activating(x) ELSE Consistent(x),
         IF s = "new" THEN vendors[v] = Nil /\ \A q \in Requests : target[q] # v
         ELSE /\ vendors[v] # Nil /\ x.rev <= vendors[v].rev
              /\ x.rev = vendors[v].rev => Extends(vendors[v], x)
  PROVE  IInv'
<1> USE NilAssumption
<1>1. TypeOK'
  BY DEF IInv, TypeOK, Prepare, cronVars, Existing, Working
<1>2. /\ pc'[r] = s /\ target'[r] = v /\ draft'[r] = x
      /\ now' = now /\ queue' = queue /\ vendors' = vendors
      /\ \A q \in Requests \ {r} :
           pc'[q] = pc[q] /\ target'[q] = target[q] /\ draft'[q] = draft[q]
  BY DEF IInv, TypeOK, Prepare, cronVars
<1>3. ASSUME NEW q \in Requests \ {r} PROVE DraftOK(q)'
  <2>1. Fresh(q) => \A p \in Requests : target'[p] = target[q] => p = q
    BY <1>2 DEF Fresh
  <2> QED
    BY <1>2, <2>1, DraftKept
<1>4. DraftOK(r)'
  <2>1. AtMostOne(draft[r])'
    BY <1>2 DEF AtMostOne, InForce
  <2>2. IF s = "new" THEN Fresh(r)' ELSE Follows(r)'
    BY <1>2 DEF Fresh, Follows, Matches
  <2> QED
    BY <1>2, <2>1, <2>2 DEF DraftOK, Consistent, Activating
<1>5. \A w \in Existing' : Consistent(vendors[w])' /\ AtMostOne(vendors[w])'
  BY <1>2 DEF IInv, Existing, Consistent, AtMostOne, InForce
<1> QED
  BY <1>1, <1>2, <1>3, <1>4, <1>5 DEF IInv

(* A request that stores x: under an _id of its own, or under a higher     *)
(* revision than the stored one, so that no draft prepared for the document*)
(* before can match it.                                                    *)
LEMMA StoreStep ==
  ASSUME IInv, NEW r \in Requests, NEW x \in Vendor, pc[r] \in {"new", "ready"},
         vendors' = [vendors EXCEPT ![target[r]] = x], Answer(r, "ok"), owed' \subseteq owed,
         Consistent(x), AtMostOne(x), target[r] \in queue => x.activated,
         pc[r] = "ready" => x.rev > vendors[target[r]].rev
  PROVE  IInv'
<1> USE NilAssumption
<1> DEFINE t == target[r]
<1>1. t \in Ids /\ IF pc[r] = "new" THEN Fresh(r) ELSE vendors[t] # Nil
  BY DEF IInv, DraftOK, Working, Follows
<1>2. vendors'[t] = x /\ \A v \in Ids \ {t} : vendors'[v] = vendors[v]
  BY <1>1 DEF IInv, TypeOK
<1>3. /\ pc'[r] = "ok" /\ target' = target /\ now' = now /\ queue' = queue /\ left' = left
      /\ \A q \in Requests \ {r} : pc'[q] = pc[q] /\ draft'[q] = draft[q]
  BY DEF IInv, TypeOK, Answer, cronVars
<1>4. TypeOK'
  <2>1. Existing \subseteq Existing'
    BY <1>2 DEF Existing
  <2>2. vendors' \in [Ids -> Vendor \cup {Nil}]
    BY <1>1 DEF IInv, TypeOK
  <2> QED
    BY <1>3, <2>1, <2>2 DEF IInv, TypeOK, Answer, cronVars
<1>5. \A v \in Existing' : Consistent(vendors[v])' /\ AtMostOne(vendors[v])'
  BY <1>2, <1>3 DEF IInv, Existing, Consistent, AtMostOne, InForce
<1>6. \A v \in queue' : vendors'[v].activated
  BY <1>2, <1>3 DEF IInv, TypeOK, Existing
<1>7. ASSUME NEW q \in Requests \ {r}, pc[q] \in Working PROVE DraftOK(q)'
  <2>1. DraftOK(q) /\ target[q] \in Ids /\ draft[q] \in Vendor /\ AtMostOne(draft[q])
    BY <1>7 DEF IInv, DraftOK
  <2>2. AtMostOne(draft[q])'
    BY <1>3, <2>1 DEF AtMostOne, InForce
  <2>3. Fresh(q) => Fresh(q)'
    BY <1>2, <1>3, <2>1 DEF Fresh
  <2>4. ASSUME Follows(q) PROVE Follows(q)'
    <3>1. CASE target[q] = t
      <4>1. pc[r] = "ready"
        BY <1>1, <2>4, <3>1 DEF Fresh, Follows
      <4>2. x.rev > vendors[t].rev /\ draft[q].rev <= vendors[t].rev
            /\ x.rev \in Nat /\ draft[q].rev \in Nat /\ vendors[t].rev \in Nat
        BY <1>1, <2>1, <2>4, <3>1, <4>1 DEF IInv, TypeOK, Follows, Vendor
      <4>3. draft[q].rev < x.rev
        BY <4>2
      <4> QED
        BY <1>2, <1>3, <3>1, <4>2, <4>3 DEF Follows, Matches
    <3>2. CASE target[q] # t
      BY <1>2, <1>3, <2>1, <2>4, <3>2 DEF Follows, Matches, Extends
    <3> QED
      BY <3>1, <3>2
  <2> QED
    BY <1>3, <2>1, <2>2, <2>3, <2>4 DEF DraftOK, Consistent, Activating
<1>8. \A q \in Requests : DraftOK(q)'
  BY <1>3, <1>7 DEF DraftOK, Working
<1> QED
  BY <1>4, <1>5, <1>6, <1>8 DEF IInv

(* What the invariant says of the draft that a request is about to store.  *)
LEMMA ReadyDraft ==
  ASSUME IInv, NEW r \in Requests, pc[r] = "ready"
  PROVE  /\ target[r] \in Ids /\ vendors[target[r]] \in Vendor /\ target[r] \in Existing
         /\ draft[r] \in Vendor /\ Consistent(draft[r]) /\ AtMostOne(draft[r])
         /\ Matches(r) => Extends(vendors[target[r]], draft[r])
BY DEF IInv, TypeOK, Existing, DraftOK, Working, Follows

LEMMA IInvStep == IInv /\ [Next]_vars => IInv'
<1> SUFFICES ASSUME IInv, [Next]_vars PROVE IInv'
  OBVIOUS
<1> USE TimeAssumption, NilAssumption
<1>t. /\ TypeOK
      /\ \A v \in Existing : /\ v \in Ids /\ vendors[v] \in Vendor
                             /\ Consistent(vendors[v]) /\ AtMostOne(vendors[v])
  BY DEF IInv, TypeOK, Existing
<1>1. ASSUME Tick PROVE IInv'
  <2>1. TypeOK'
    BY <1>1, <1>t DEF Tick, TypeOK, Existing, reqVars, cronVars
  <2> QED
    BY <1>1, <2>1, IdleStep DEF Tick, IInv, cronVars
<1>2. ASSUME NEW r \in Requests, NEW v \in Ids, NEW i \in Identifiers, CreateCheck(r, v, i)
      PROVE  IInv'
  <2>1. NewVendor(i) \in Vendor /\ AtMostOne(NewVendor(i)) /\ Consistent(NewVendor(i))
    BY DEF NewVendor, Vendor, AtMostOne, Consistent
  <2> QED
    BY <1>2, <2>1, PrepareStep DEF CreateCheck, Working
<1>3. ASSUME NEW r \in Requests, NEW i \in Identifiers, CreateRefuse(r, i) PROVE IInv'
  BY <1>3, AnswerStep DEF CreateRefuse
<1>4. ASSUME NEW r \in Requests, CreateInsert(r) PROVE IInv'
  <2>1. /\ draft[r] \in Vendor /\ Consistent(draft[r]) /\ AtMostOne(draft[r])
        /\ vendors[target[r]] = Nil
    BY <1>4 DEF CreateInsert, IInv, DraftOK, Working, Fresh
  <2>2. target[r] \notin queue
    BY <1>t, <2>1 DEF TypeOK, Existing
  <2> QED
    BY <1>4, <2>1, <2>2, StoreStep DEF CreateInsert
<1>5. ASSUME NEW r \in Requests, NEW v \in Ids, ActivateRead(r, v) PROVE IInv'
  <2> DEFINE x == [vendors[v] EXCEPT !.activated = TRUE]
  <2>1. /\ vendors[v] \in Vendor /\ AtMostOne(vendors[v]) /\ vendors[v] # Nil
        /\ vendors[v].status = "pending"
    BY <1>5, <1>t DEF ActivateRead, Existing, Consistent
  <2>2. x \in Vendor /\ Activating(x) /\ AtMostOne(x) /\ x.rev = vendors[v].rev /\ Extends(vendors[v], x)
    BY <2>1 DEF Vendor, Activating, AtMostOne, Extends
  <2>3. Prepare(r, v, x, "verify") /\ x.rev <= vendors[v].rev
    BY <1>5, <2>1, <2>2 DEF ActivateRead, Vendor
  <2> HIDE DEF x
  <2> QED
    BY <2>1, <2>2, <2>3, PrepareStep DEF Working
<1>6. ASSUME NEW r \in Requests, ActivateVerify(r) PROVE IInv'
  <2> DEFINE x == [draft[r] EXCEPT !.status = "active"]
             v == target[r]
  <2>1. /\ pc[r] = "verify" /\ v \in Ids /\ draft[r] \in Vendor /\ AtMostOne(draft[r])
        /\ Activating(draft[r]) /\ vendors[v] # Nil /\ draft[r].rev <= vendors[v].rev
        /\ draft[r].rev = vendors[v].rev => Extends(vendors[v], draft[r])
    BY <1>6 DEF ActivateVerify, IInv, DraftOK, Working, Follows, Matches
  <2>2. x \in Vendor /\ x.rev = draft[r].rev /\ x.bans = draft[r].bans /\ x.activated
        /\ x.status = "active"
    BY <2>1 DEF Vendor, Activating
  <2>3. Prepare(r, v, x, "ready")
    BY <1>6 DEF ActivateVerify
  <2> HIDE DEF x, v
  <2>4. AtMostOne(x) /\ Consistent(x) /\ (Extends(vendors[v], draft[r]) => Extends(vendors[v], x))
    BY <2>1, <2>2 DEF Activating, AtMostOne, Consistent, Extends
  <2> QED
    BY <2>1, <2>2, <2>3, <2>4, PrepareStep DEF Working
<1>7. ASSUME NEW r \in Requests, ActivateRefuse(r) \/ Reject(r) \/ Conflict(r) PROVE IInv'
  BY <1>7, AnswerStep DEF ActivateRefuse, Reject, Conflict
<1>8. ASSUME NEW r \in Requests, NEW v \in Ids, BanRefuse(r, v) PROVE IInv'
  BY <1>8, AnswerStep DEF BanRefuse
<1>9. ASSUME NEW r \in Requests, NEW v \in Ids, TouchRead(r, v) PROVE IInv'
  <2>1. vendors[v] \in Vendor /\ vendors[v] # Nil /\ Consistent(vendors[v]) /\ AtMostOne(vendors[v])
    BY <1>9, <1>t DEF TouchRead, Existing
  <2>2. Extends(vendors[v], vendors[v]) /\ vendors[v].rev <= vendors[v].rev
    BY <2>1 DEF Extends, Vendor
  <2> QED
    BY <1>9, <2>1, <2>2, PrepareStep DEF TouchRead, Working
<1>10. ASSUME NEW r \in Requests, NEW v \in Ids, BanRead(r, v) PROVE IInv'
  <2> DEFINE ban == [by |-> r, due |-> now + BanPeriod]
             x == [vendors[v] EXCEPT !.status = "banned", !.bans = @ \cup {ban}]
  <2>1. /\ vendors[v] \in Vendor /\ vendors[v] # Nil /\ Consistent(vendors[v])
        /\ vendors[v].activated /\ \A b \in vendors[v].bans : ~ InForce(b)
    BY <1>10, <1>t DEF BanRead, MayTrade, Existing
  <2>2. ban \in Ban
    BY <1>t DEF Ban, TypeOK
  <2>3. /\ x \in Vendor /\ x.bans = vendors[v].bans \cup {ban} /\ x.status = "banned"
        /\ x.activated = vendors[v].activated /\ x.rev = vendors[v].rev
    <3> HIDE DEF ban
    <3> QED
      BY <2>1, <2>2 DEF Vendor
  <2>4. x.rev <= vendors[v].rev
    BY <2>1, <2>3 DEF Vendor
  <2>5. Prepare(r, v, x, "ready")
    BY <1>10 DEF BanRead
  <2> HIDE DEF x, ban
  <2>6. AtMostOne(x) /\ Consistent(x) /\ Extends(vendors[v], x)
    BY <2>1, <2>3 DEF AtMostOne, Consistent, Extends
  <2> QED
    BY <2>1, <2>3, <2>4, <2>5, <2>6, PrepareStep DEF Working
<1>11. ASSUME NEW r \in Requests, Replace(r) PROVE IInv'
  <2> DEFINE x == [draft[r] EXCEPT !.rev = @ + 1]
  <2>1. /\ draft[r] \in Vendor /\ Consistent(draft[r]) /\ AtMostOne(draft[r])
        /\ draft[r].rev = vendors[target[r]].rev /\ Extends(vendors[target[r]], draft[r])
    BY <1>11, ReadyDraft DEF Replace, Matches
  <2>2. /\ x \in Vendor /\ x.rev = draft[r].rev + 1 /\ x.rev > draft[r].rev
        /\ x.bans = draft[r].bans /\ x.status = draft[r].status /\ x.activated = draft[r].activated
    BY <2>1 DEF Vendor
  <2>3. /\ pc[r] = "ready" /\ vendors' = [vendors EXCEPT ![target[r]] = x] /\ Answer(r, "ok")
        /\ owed' \subseteq owed
    BY <1>11 DEF Replace
  <2> HIDE DEF x
  <2>4. Consistent(x) /\ AtMostOne(x)
    BY <2>1, <2>2 DEF Consistent, AtMostOne
  <2>5. target[r] \in queue => x.activated
    BY <2>1, <2>2 DEF IInv, Extends
  <2> QED
    BY <2>1, <2>2, <2>3, <2>4, <2>5, StoreStep
<1>12. ASSUME CronStart \/ CronEndScan \/ CronEnd \/ CronDie PROVE IInv'
  <2>1. TypeOK'
    BY <1>12, <1>t DEF CronStart, CronEndScan, CronEnd, CronDie, TypeOK, Existing, reqVars
  <2>2. UNCHANGED <<vendors, reqVars>> /\ now' = now /\ queue' \subseteq queue
    BY <1>12 DEF CronStart, CronEndScan, CronEnd, CronDie
  <2> QED
    BY <2>1, <2>2, IdleStep DEF IInv
<1>13. ASSUME NEW v \in Ids, CronVisit(v) PROVE IInv'
  <2>1. v \in Existing /\ UNCHANGED <<vendors, reqVars>> /\ now' = now
    BY <1>13, <1>t DEF CronVisit, TypeOK
  <2>2. TypeOK'
    BY <1>13, <1>t, <2>1 DEF CronVisit, TypeOK, Existing, reqVars
  <2>3. Pardonable(vendors[v]) => vendors[v].activated
    BY <1>t, <2>1 DEF Pardonable, Consistent, Vendor
  <2> QED
    BY <1>13, <2>1, <2>2, <2>3, IdleStep DEF CronVisit, IInv
<1>14. ASSUME NEW v \in Ids, CronWrite(v) PROVE IInv'
  <2> DEFINE x == [vendors[v] EXCEPT !.status = "active"]
  <2>1. v \in Existing /\ vendors[v] \in Vendor /\ vendors[v].activated /\ AtMostOne(vendors[v])
    BY <1>14, <1>t DEF CronWrite, IInv, TypeOK
  <2>2. /\ x \in Vendor /\ x.status = "active" /\ x.activated /\ x # Nil
        /\ x.bans = vendors[v].bans /\ x.rev = vendors[v].rev
    BY <2>1 DEF Vendor
  <2>3. /\ vendors' = [vendors EXCEPT ![v] = x] /\ queue' = queue \ {v}
        /\ UNCHANGED <<now, pc, target, draft, cron, left, deaths, owed>>
    BY <1>14 DEF CronWrite, reqVars
  <2> HIDE DEF x
  <2>4. vendors'[v] = x /\ \A w \in Ids \ {v} : vendors'[w] = vendors[w]
    BY <1>t, <2>3 DEF TypeOK
  <2>5. TypeOK'
    <3>1. vendors' \in [Ids -> Vendor \cup {Nil}] /\ Existing' = Existing
      BY <1>t, <2>1, <2>2, <2>3, <2>4 DEF TypeOK, Existing
    <3> QED
      BY <1>t, <2>3, <3>1 DEF TypeOK
  <2>6. \A w \in Existing' : Consistent(vendors[w])' /\ AtMostOne(vendors[w])'
    BY <1>t, <2>1, <2>2, <2>3, <2>4 DEF Existing, Consistent, AtMostOne, InForce
  <2>7. \A w \in queue' : vendors'[w].activated
    BY <1>t, <2>3, <2>4 DEF IInv, TypeOK, Existing
  <2>8. ASSUME NEW r \in Requests, pc[r] \in Working PROVE DraftOK(r)'
    <3>1. DraftOK(r) /\ target[r] \in Ids
      BY <2>8 DEF IInv, DraftOK
    <3>2. AtMostOne(draft[r]) => AtMostOne(draft[r])'
      BY <2>3 DEF AtMostOne, InForce
    <3>3. Fresh(r) => Fresh(r)'
      BY <2>1, <2>3, <2>4, <3>1 DEF Fresh, Existing
    <3>4. Follows(r) => Follows(r)'
      BY <2>1, <2>2, <2>3, <2>4, <3>1 DEF Follows, Matches, Extends
    <3> QED
      BY <2>3, <2>8, <3>1, <3>2, <3>3, <3>4 DEF DraftOK, Consistent, Activating
  <2>9. \A r \in Requests : DraftOK(r)'
    BY <2>3, <2>8 DEF DraftOK
  <2> QED
    BY <2>5, <2>6, <2>7, <2>9 DEF IInv
<1>15. CASE UNCHANGED vars
  <2>1. TypeOK'
    BY <1>15, <1>t DEF vars, reqVars, cronVars, TypeOK, Existing
  <2> QED
    BY <1>15, <2>1, IdleStep DEF vars, cronVars, IInv
<1> QED
  BY <1>1, <1>2, <1>3, <1>4, <1>5, <1>6, <1>7, <1>8, <1>9, <1>10, <1>11, <1>12, <1>13, <1>14, <1>15
  DEF Next

-----------------------------------------------------------------------------
(* Where the task is with a vendor whose bans were over when it began: it  *)
(* has lifted them, or has the vendor still to write, or still to read; and*)
(* time does not bring a ban back.                                         *)
NightOK ==
  \A v \in owed :
    /\ vendors[v].bans # {} /\ \A ban \in vendors[v].bans : ~ InForce(ban)
    /\ \/ vendors[v].status = "active"
       \/ vendors[v].status = "banned" /\ (v \in queue \/ (cron = "scan" /\ v \in left))

LEMMA InitNightOK == Init => NightOK
BY DEF Init, NightOK

(* A step of a request or of the clock.                                    *)
LEMMA OthersKeepNight ==
  ASSUME IInv, NightOK, now' \in {now, now + 1}, UNCHANGED cronVars, owed' \subseteq owed,
         \A v \in owed' : vendors'[v] = vendors[v]
  PROVE  NightOK'
<1>1. ASSUME NEW v \in owed', NEW ban \in vendors[v].bans, ban.due > now' PROVE ban.due > now
  <2>1. vendors[v] \in Vendor /\ now \in Nat
    BY NilAssumption, TimeAssumption DEF IInv, TypeOK, Existing
  <2>2. ban.due \in Nat
    BY <2>1 DEF Vendor, Ban
  <2> QED
    BY <1>1, <2>1, <2>2
<1> QED
  BY <1>1 DEF NightOK, InForce, cronVars

LEMMA NightStep == IInv /\ NightOK /\ [Next]_vars => NightOK'
<1> SUFFICES ASSUME IInv, NightOK, [Next]_vars PROVE NightOK'
  OBVIOUS
<1> USE NilAssumption
<1>1. /\ vendors \in [Ids -> Vendor \cup {Nil}] /\ owed \subseteq Existing
      /\ \A v \in Existing : v \in Ids /\ vendors[v] \in Vendor /\ vendors[v] # Nil
  BY DEF IInv, TypeOK, Existing
<1>2. CASE UNCHANGED <<vendors, owed, cronVars>> /\ now' \in {now, now + 1}
  BY <1>2, OthersKeepNight
<1>3. ASSUME NEW r \in Requests, CreateInsert(r) PROVE NightOK'
  <2>1. vendors[target[r]] = Nil
    BY <1>3 DEF CreateInsert, IInv, DraftOK, Working, Fresh
  <2>2. \A v \in owed : vendors'[v] = vendors[v]
    BY <1>1, <1>3, <2>1 DEF CreateInsert
  <2> QED
    BY <1>3, <2>2, OthersKeepNight DEF CreateInsert, Answer
<1>4. ASSUME NEW r \in Requests, Replace(r) PROVE NightOK'
  <2>1. \A v \in owed' : vendors'[v] = vendors[v]
    BY <1>1, <1>4 DEF Replace
  <2> QED
    BY <1>4, <2>1, OthersKeepNight DEF Replace, Answer
<1>5. CASE CronStart
  BY <1>5 DEF CronStart, NightOK, Pardonable, InForce
<1>6. ASSUME NEW v \in Ids, CronVisit(v) PROVE NightOK'
  BY <1>6 DEF CronVisit, NightOK, Pardonable, InForce
<1>7. CASE CronEndScan
  BY <1>7 DEF CronEndScan, NightOK, InForce
<1>8. ASSUME NEW v \in Ids, CronWrite(v) PROVE NightOK'
  <2>1. /\ cron = "write" /\ queue' = queue \ {v} /\ UNCHANGED <<now, cron, left, owed>>
        /\ vendors' = [vendors EXCEPT ![v].status = "active"]
    BY <1>8 DEF CronWrite
  <2> SUFFICES ASSUME NEW w \in owed
               PROVE  /\ vendors'[w].bans # {} /\ \A ban \in vendors'[w].bans : ~ InForce(ban)
                      /\ \/ vendors'[w].status = "active"
                         \/ vendors'[w].status = "banned" /\ w \in queue'
    BY <2>1 DEF NightOK, InForce
  <2>2. CASE w = v
    <3>1. vendors'[v].status = "active" /\ vendors'[v].bans = vendors[v].bans
      <4>1. vendors[v] \in Vendor /\ vendors'[v] = [vendors[v] EXCEPT !.status = "active"]
        BY <1>1, <2>1, <2>2
      <4> QED
        BY <4>1 DEF Vendor
    <3> QED
      BY <2>2, <3>1 DEF NightOK
  <2>3. CASE w # v
    <3>1. vendors'[w] = vendors[w]
      BY <1>1, <2>1, <2>3
    <3> QED
      BY <2>1, <2>3, <3>1 DEF NightOK
  <2> QED
    BY <2>2, <2>3
<1>9. CASE CronEnd \/ CronDie
  BY <1>9 DEF CronEnd, CronDie, NightOK
<1> QED
  BY <1>2, <1>3, <1>4, <1>5, <1>6, <1>7, <1>8, <1>9
  DEF Next, vars, Tick, ActivateVerify, ActivateRefuse, Reject, Conflict, CreateRefuse, CreateCheck,
      ActivateRead, TouchRead, BanRead, BanRefuse, Prepare, Answer

LEMMA Inductive == Spec => [](IInv /\ NightOK)
<1> QED
  BY InitIInv, InitNightOK, IInvStep, NightStep, PTL DEF Spec

-----------------------------------------------------------------------------
(* Vendors, requests and the task always have their type; drafts do because*)
(* of what the invariant says of requests in progress.                     *)
THEOREM TypeCorrect == Spec => []TypeOK
<1>1. IInv => TypeOK
  BY DEF IInv
<1> QED
  BY <1>1, Inductive, PTL

(* isActivated and status tell one story, although the task writes status  *)
(* alone and a PATCH writes both from what it read.                        *)
THEOREM StatusTheorem == Spec => []StatusMatchesActivation
<1>1. IInv => StatusMatchesActivation
  BY DEF IInv, Consistent, StatusMatchesActivation
<1> QED
  BY <1>1, Inductive, PTL

(* Two administrators never both ban a vendor: one ban at most is in force.*)
THEOREM OneBanTheorem == Spec => []OneBanInForce
<1>1. IInv => OneBanInForce
  BY DEF IInv, AtMostOne, OneBanInForce
<1> QED
  BY <1>1, Inductive, PTL

(* A night that is not cut short ends every ban that was over before it,   *)
(* of however many vendors, unless a request wrote the vendor in between.  *)
THEOREM NightLiftsTheorem == Spec => []NightLiftsBans
<1>1. NightOK => NightLiftsBans
  BY DEF NightOK, NightLiftsBans
<1> QED
  BY <1>1, Inductive, PTL

(* What a step does to a stored vendor: nothing, or a request stores what  *)
(* extends it, or the task writes its status alone.                        *)
LEMMA VendorStep ==
  ASSUME IInv, [Next]_vars, NEW v \in Existing
  PROVE  \/ vendors'[v] = vendors[v]
         \/ vendors'[v] \in Vendor /\ Extends(vendors[v], vendors'[v])
         \/ /\ cron = "write" /\ vendors'[v] \in Vendor
            /\ vendors'[v].bans = vendors[v].bans /\ vendors'[v].rev = vendors[v].rev
<1> USE NilAssumption
<1>t. vendors \in [Ids -> Vendor \cup {Nil}] /\ v \in Ids /\ vendors[v] \in Vendor
  BY DEF IInv, TypeOK, Existing
<1>1. ASSUME NEW r \in Requests, CreateInsert(r) PROVE vendors'[v] = vendors[v]
  <2>1. vendors[target[r]] = Nil
    BY <1>1 DEF CreateInsert, IInv, DraftOK, Working, Fresh
  <2> QED
    BY <1>1, <1>t, <2>1 DEF CreateInsert
<1>2. ASSUME NEW r \in Requests, Replace(r), target[r] = v
      PROVE  vendors'[v] \in Vendor /\ Extends(vendors[v], vendors'[v])
  <2> DEFINE x == [draft[r] EXCEPT !.rev = @ + 1]
  <2>1. draft[r] \in Vendor /\ Extends(vendors[v], draft[r]) /\ vendors'[v] = x
    BY <1>2, <1>t, ReadyDraft DEF Replace
  <2>2. /\ x \in Vendor /\ x.bans = draft[r].bans /\ x.status = draft[r].status
        /\ x.activated = draft[r].activated
    BY <2>1 DEF Vendor
  <2> HIDE DEF x
  <2> QED
    BY <2>1, <2>2 DEF Extends
<1>3. ASSUME NEW r \in Requests, Replace(r), target[r] # v PROVE vendors'[v] = vendors[v]
  BY <1>3, <1>t DEF Replace
<1>4. ASSUME NEW w \in Ids, CronWrite(w)
      PROVE  /\ cron = "write" /\ vendors'[v] \in Vendor
             /\ vendors'[v].bans = vendors[v].bans /\ vendors'[v].rev = vendors[v].rev
  BY <1>4, <1>t DEF CronWrite, Vendor
<1> QED
  BY <1>1, <1>2, <1>3, <1>4
  DEF Next, vars, Tick, ActivateVerify, ActivateRefuse, Reject, Conflict, CreateRefuse, CreateCheck,
      ActivateRead, TouchRead, BanRead, BanRefuse, Prepare, CronStart, CronEndScan, CronEnd, CronDie,
      CronVisit

(* No writer removes or changes a recorded ban.                            *)
THEOREM BansKeptTheorem == Spec => BansKept
<1>1. ASSUME IInv, [Next]_vars, NEW v \in Existing
      PROVE  vendors'[v] # Nil /\ vendors[v].bans \subseteq vendors'[v].bans
  BY <1>1, VendorStep, NilAssumption DEF Existing, Extends
<1>2. IInv /\ [Next]_vars =>
        [\A v \in Existing : vendors'[v] # Nil /\ vendors[v].bans \subseteq vendors'[v].bans]_vars
  BY <1>1
<1> QED
  BY <1>2, Inductive, PTL DEF Spec, BansKept

(* Only the nightly task takes a vendor out of "banned".                   *)
THEOREM OnlyCronTheorem == Spec => OnlyCronLiftsBan
<1>1. ASSUME IInv, [Next]_vars, NEW v \in Existing,
             vendors[v].status = "banned", vendors'[v].status # "banned"
      PROVE  cron = "write" /\ vendors'[v].rev = vendors[v].rev
  BY <1>1, VendorStep DEF Extends
<1>2. IInv /\ [Next]_vars =>
        [\A v \in Existing :
           vendors[v].status = "banned" /\ vendors'[v].status # "banned"
           => cron = "write" /\ vendors'[v].rev = vendors[v].rev]_vars
  BY <1>1
<1> QED
  BY <1>2, Inductive, PTL DEF Spec, OnlyCronLiftsBan
=============================================================================
