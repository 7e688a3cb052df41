------------------------------ MODULE Products ------------------------------
(***************************************************************************)
(* Products and vendor products on the market: creation, PATCH, document   *)
(* uploads, and the nightly task that ends expired products                *)
(* (handlers/product*.py, handlers/vendor_product*.py, state/product.py,   *)
(* state/vendor_product.py, cron/inactivate_products_task.py).             *)
(*                                                                         *)
(* A product leaves the market in two ways.  A PATCH closes it and stamps  *)
(* its expirationDate; or the date passes and the task, which read it some *)
(* time ago, sends {"$set": {"status": "inactive"}} by _id, leaving _rev.  *)
(*                                                                         *)
(* Time is counted in ticks; a handler reads what it is about in the tick  *)
(* it started in.  What a product says of its category is left out: when   *)
(* the category does not allow the write, the request is refused (Reject). *)
(***************************************************************************)
EXTENDS Naturals

CONSTANTS Ids,         \* _id's of products
          Vendors,     \* activated vendors
          Requests,    \* API requests; each one is handled once
          Year,        \* ticks from one 31st of March to the next
          BanPeriod,   \* how long a vendor's ban lasts, in ticks
          Terms,       \* the ticks clients may give as expirationDate
          MaxNow,      \* bound on the clock
          MaxDeaths,   \* bound on the runs of the task that die
          Nil

Product == [vendor  : Vendors \cup {Nil},
            status  : {"active", "inactive", "hidden"},
            expires : Nat \cup {Nil},
            rev     : Nat]

ASSUME TimeAssumption ==
  /\ MaxNow \in Nat /\ MaxDeaths \in Nat /\ Terms \subseteq Nat
  /\ Year \in Nat \ {0} /\ BanPeriod \in Nat \ {0}
ASSUME NilAssumption == Nil \notin Product /\ Nil \notin Ids /\ Nil \notin Vendors /\ Nil \notin Nat

VARIABLES now,
          until,      \* until[v]: the dueDate of the vendor's last ban, 0 if none
          products,   \* products[p]: the stored document, or Nil
          pc,         \* where each request is
          target,     \* the product it works on
          draft,      \* the document it is going to write, with the rev it read
          seen,       \* until[v] in the vendor it read
          cron,       \* the phase of the nightly task
          left,       \* products its cursor has not returned yet
          queue,      \* products it has an UpdateOne for
          deaths,     \* runs of the task that died
          closed,     \* history: products a request has written as not active
          overtaken,  \* history: products a request has written while queued
          owed        \* history: products that had expired when the task began,
                      \* and that no request has written since

reqVars     == <<pc, target, draft, seen>>
cronVars    == <<cron, left, queue, deaths>>
historyVars == <<closed, overtaken>>
vars        == <<now, until, products, reqVars, cronVars, historyVars, owed>>

Existing == {p \in Ids : products[p] # Nil}

Active(x) == x.status = "active"

(* What the task looks for.                                                *)
Expired(x) == Active(x) /\ x.expires # Nil /\ x.expires < now

(* Products that expire with the year, the 31st of March of the next one.  *)
EndOfSeason == (now \div Year + 1) * Year

Listing(v, expires) == [vendor |-> v, status |-> "active", expires |-> expires, rev |-> 1]

Init ==
  /\ now = 0
  /\ until = [v \in Vendors |-> 0]
  /\ products \in [Ids -> {Nil} \cup {Listing(Nil, t) : t \in Terms}
                                \cup {Listing(v, Year) : v \in Vendors}]
  /\ pc = [r \in Requests |-> "idle"]
  /\ target = [r \in Requests |-> Nil]
  /\ draft = [r \in Requests |-> Nil]
  /\ seen = [r \in Requests |-> Nil]
  /\ cron = "off" /\ left = {} /\ queue = {} /\ deaths = 0
  /\ closed = {} /\ overtaken = {} /\ owed = {}

Tick ==
  /\ now < MaxNow
  /\ now' = now + 1
  /\ UNCHANGED <<until, products, reqVars, cronVars, historyVars, owed>>

(* POST /vendors/{id}/bans, one step on the vendor (see Vendors).          *)
Ban(v) ==
  /\ until[v] <= now
  /\ until' = [until EXCEPT ![v] = now + BanPeriod]
  /\ UNCHANGED <<now, products, reqVars, cronVars, historyVars, owed>>

-----------------------------------------------------------------------------
Prepare(r, p, document, state) ==
  /\ pc' = [pc EXCEPT ![r] = state]
  /\ target' = [target EXCEPT ![r] = p]
  /\ draft' = [draft EXCEPT ![r] = document]
  /\ UNCHANGED <<now, until, products, cronVars, owed>>

Answer(r, answer) ==
  /\ pc' = [pc EXCEPT ![r] = answer]
  /\ target' = [target EXCEPT ![r] = Nil]
  /\ draft' = [draft EXCEPT ![r] = Nil]
  /\ seen' = [seen EXCEPT ![r] = Nil]
  /\ UNCHANGED <<now, until, cronVars>>

Unused(p) == products[p] = Nil /\ \A q \in Requests : target[q] # p

(* Expiration dates a client may give: not before now, or none.            *)
Dates == {Nil} \cup {t \in Terms : t >= now}

(* POST /products, and the product of a product request: the category is   *)
(* read and found to allow it; p is the new uuid.                          *)
CreateCheck(r, p, t) ==
  /\ pc[r] = "idle"
  /\ Unused(p)
  /\ t \in Dates
  /\ Prepare(r, p, Listing(Nil, t), "new")
  /\ UNCHANGED <<seen, historyVars>>

(* POST /vendors/{id}/products reads the vendor, and after that the        *)
(* category.                                                               *)
VendorRead(r, p, v) ==
  /\ pc[r] = "idle"
  /\ Unused(p)
  /\ seen' = [seen EXCEPT ![r] = until[v]]
  /\ Prepare(r, p, Listing(v, EndOfSeason), "vendor")
  /\ UNCHANGED historyVars

(* VendorProductState.on_post: the bans read earlier, against the clock.   *)
VendorCheck(r) ==
  /\ pc[r] = "vendor"
  /\ seen[r] <= now
  /\ Prepare(r, target[r], draft[r], "new")
  /\ UNCHANGED <<seen, historyVars>>

VendorRefuse(r) ==
  /\ pc[r] = "vendor"
  /\ seen[r] > now
  /\ Answer(r, "failed")
  /\ UNCHANGED <<products, historyVars, owed>>

CreateInsert(r) ==
  /\ pc[r] = "new"
  /\ products' = [products EXCEPT ![target[r]] = draft[r]]
  /\ Answer(r, "ok")
  /\ UNCHANGED <<historyVars, owed>>

(* Mutants: closing does not stamp the date; a vendor's product may get    *)
(* another date.                                                           *)
PatchedUnstamped(x) ==
  {x} \cup {[x EXCEPT !.status = s] : s \in {"inactive", "hidden"}}
PatchedAnyDate(x) ==
  {x} \cup {[x EXCEPT !.expires = t] : t \in Dates \ {Nil}}

(* What a PATCH makes of an active product: other fields change, or its    *)
(* expirationDate if it is not a vendor's, or it is closed as of now.      *)
Patched(x) ==
  {x} \cup {[x EXCEPT !.status = s, !.expires = now] : s \in {"inactive", "hidden"}}
      \cup {[x EXCEPT !.expires = t] : t \in IF x.vendor = Nil THEN Dates \ {Nil} ELSE {}}

(* PATCH /products/{id}, with ProductState.on_patch.                       *)
PatchRead(r, p) ==
  /\ pc[r] = "idle"
  /\ p \in Existing
  /\ Active(products[p])
  /\ \E x \in Patched(products[p]) : Prepare(r, p, x, "ready")
  /\ UNCHANGED <<seen, historyVars>>

(* on_patch: 403.                                                          *)
PatchRefuse(r, p) ==
  /\ pc[r] = "idle"
  /\ p \in Existing
  /\ ~ Active(products[p])
  /\ Answer(r, "failed")
  /\ UNCHANGED <<products, historyVars, owed>>

(* POST, PUT and PATCH of a document, whatever the product's status.       *)
UploadRead(r, p) ==
  /\ pc[r] = "idle"
  /\ p \in Existing
  /\ Prepare(r, p, products[p], "ready")
  /\ UNCHANGED <<seen, historyVars>>

(* A token, a document or the category forbids it.                         *)
Reject(r) ==
  /\ pc[r] \in {"vendor", "new", "ready"}
  /\ Answer(r, "failed")
  /\ UNCHANGED <<products, historyVars, owed>>

(* Mutant: the filter has only the _id.                                    *)
MatchesById(r) == products[target[r]] # Nil

Matches(r) == products[target[r]].rev = draft[r].rev

(* update_object.                                                          *)
Replace(r) ==
  LET p == target[r] IN
  /\ pc[r] = "ready"
  /\ Matches(r)
  /\ products' = [products EXCEPT ![p] = [draft[r] EXCEPT !.rev = @ + 1]]
  /\ closed' = IF Active(draft[r]) THEN closed ELSE closed \cup {p}
  /\ overtaken' = IF p \in queue THEN overtaken \cup {p} ELSE overtaken
  /\ owed' = owed \ {p}
  /\ Answer(r, "ok")

Conflict(r) ==
  /\ pc[r] = "ready"
  /\ ~ Matches(r)
  /\ Answer(r, "failed")
  /\ UNCHANGED <<products, historyVars, owed>>

-----------------------------------------------------------------------------
(* cron.inactivate_products_task.run_task.                                 *)
CronStart ==
  /\ cron = "off"
  /\ cron' = "scan" /\ left' = Existing
  /\ owed' = {p \in Existing : Expired(products[p])}
  /\ UNCHANGED <<now, until, products, reqVars, queue, deaths, historyVars>>

(* Mutant: the date is compared the other way round.                       *)
CronVisitUnexpired(p) ==
  /\ cron = "scan"
  /\ p \in left
  /\ left' = left \ {p}
  /\ queue' = IF Active(products[p]) /\ products[p].expires # Nil /\ products[p].expires > now
              THEN queue \cup {p} ELSE queue
  /\ UNCHANGED <<now, until, products, reqVars, cron, deaths, historyVars, owed>>

CronVisit(p) ==
  /\ cron = "scan"
  /\ p \in left
  /\ left' = left \ {p}
  /\ queue' = IF Expired(products[p]) THEN queue \cup {p} ELSE queue
  /\ UNCHANGED <<now, until, products, reqVars, cron, deaths, historyVars, owed>>

CronEndScan ==
  /\ cron = "scan" /\ left = {}
  /\ cron' = "write"
  /\ UNCHANGED <<now, until, products, reqVars, left, queue, deaths, historyVars, owed>>

(* One UpdateOne of the bulk_write: the filter has only the _id, _rev stays.*)
CronWrite(p) ==
  /\ cron = "write"
  /\ p \in queue
  /\ queue' = queue \ {p}
  /\ products' = [products EXCEPT ![p].status = "inactive"]
  /\ UNCHANGED <<now, until, reqVars, cron, left, deaths, historyVars, owed>>

CronEnd ==
  /\ cron = "write" /\ queue = {}
  /\ cron' = "off" /\ owed' = {}
  /\ UNCHANGED <<now, until, products, reqVars, left, queue, deaths, historyVars>>

(* The process dies, between two UpdateOne's perhaps.                      *)
CronDie ==
  /\ cron # "off"
  /\ deaths < MaxDeaths
  /\ deaths' = deaths + 1
  /\ cron' = "off" /\ left' = {} /\ queue' = {} /\ owed' = {}
  /\ UNCHANGED <<now, until, products, reqVars, historyVars>>

Next ==
  \/ Tick
  \/ \E v \in Vendors : Ban(v)
  \/ \E r \in Requests :
       \/ VendorCheck(r) \/ VendorRefuse(r) \/ CreateInsert(r)
       \/ Reject(r) \/ Replace(r) \/ Conflict(r)
  \/ \E r \in Requests, p \in Ids :
       \/ PatchRead(r, p) \/ PatchRefuse(r, p) \/ UploadRead(r, p)
       \/ \E t \in Dates : CreateCheck(r, p, t)
       \/ \E v \in Vendors : VendorRead(r, p, v)
  \/ CronStart \/ CronEndScan \/ CronEnd \/ CronDie
  \/ \E p \in Ids : CronVisit(p) \/ CronWrite(p)

(* The task is started every night and goes on unless it dies, which it    *)
(* does at most MaxDeaths times.  Nothing is assumed of the clients.       *)
Nightly ==
  /\ WF_vars(CronStart) /\ WF_vars(CronEndScan) /\ WF_vars(CronEnd)
  /\ \A p \in Ids : WF_vars(CronVisit(p)) /\ WF_vars(CronWrite(p))

Spec     == Init /\ [][Next]_vars
FairSpec == Spec /\ Nightly

-----------------------------------------------------------------------------
(* Type invariant.                                                         *)
TypeOK ==
  /\ now \in 0..MaxNow
  /\ until \in [Vendors -> Nat]
  /\ products \in [Ids -> Product \cup {Nil}]
  /\ pc \in [Requests -> {"idle", "vendor", "new", "ready", "ok", "failed"}]
  /\ target \in [Requests -> Ids \cup {Nil}]
  /\ draft \in [Requests -> Product \cup {Nil}]
  /\ seen \in [Requests -> Nat \cup {Nil}]
  /\ cron \in {"off", "scan", "write"}
  /\ left \in SUBSET Existing /\ queue \in SUBSET Existing
  /\ deaths \in 0..MaxDeaths
  /\ closed \in SUBSET Existing /\ overtaken \in SUBSET Existing
  /\ owed \in SUBSET Existing

(* A product that a request has closed is never on the market again: no    *)
(* PATCH or upload that read it while it was active, and no task, puts it  *)
(* back.  (One that only the task has closed does return when a request    *)
(* that read it before is written after; the next night ends that.)        *)
ClosedByRequestIsFinal == \A p \in closed : ~ Active(products[p])

(* A product is off the market only when its date has passed, unless a     *)
(* request gave it another date after the task had decided to close it.    *)
ClosedHasExpired ==
  \A p \in Existing \ overtaken :
    ~ Active(products[p]) => products[p].expires # Nil /\ products[p].expires <= now

(* While a vendor's product is on the market it has one term: neither      *)
(* requests nor the task give it another date, also where they put it back.*)
VendorTermKept ==
  [][\A p \in Existing :
       products[p].vendor # Nil
       => /\ products'[p] # Nil
          /\ Active(products'[p]) => products'[p].expires = products[p].expires]_vars

(* A night that is not cut short closes every product that had expired when*)
(* it began, but those that a request has written in the meantime.         *)
NightClosesExpired ==
  cron = "write" /\ queue = {} => \A p \in owed : ~ Active(products[p])

(* A product does not stay on the market past its date: the task ends it,  *)
(* and an upload or PATCH that writes back the status it read before the   *)
(* task only delays that to another night.                                 *)
ExpiredProductClosed ==
  \A p \in Ids :
    (p \in Existing /\ Expired(products[p])) ~> ~ (p \in Existing /\ Expired(products[p]))
=============================================================================
