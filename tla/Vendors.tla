------------------------------ MODULE Vendors ------------------------------
(***************************************************************************)
(* Vendors: creation, activation, bans, document uploads, and the nightly  *)
(* task that ends expired bans (handlers/vendor*.py, handlers/base_ban.py, *)
(* state/vendor*.py, cron/activate_banned_vendors.py).                     *)
(*                                                                         *)
(* Every API write is read_and_update_vendor: a read, the handler's body on*)
(* the copy, and a replace that matches on the revision read (see the      *)
(* module Documents).  The task reads vendors one by one and later sends   *)
(* {"$set": {"status": "active"}} by _id alone, whatever happened between. *)
(*                                                                         *)
(* Time is counted in ticks.  A handler reads its vendor in the tick it    *)
(* started in, so the ban's dueDate, counted from the start of the request,*)
(* and validate_active_vendor, which looks at the clock again, agree.      *)
(***************************************************************************)
EXTENDS Naturals

CONSTANTS Ids,          \* _id's of vendors
          Identifiers,  \* vendor.identifier.id
          Requests,     \* API requests; each one is handled once
          BanPeriod,    \* the year a ban lasts, in ticks
          LeapDays,     \* the ticks that are a 29th of February
          MaxNow,       \* bound on the clock
          MaxDeaths,    \* bound on the runs of the task that die
          Nil

Ban    == [by : Requests, due : Nat]
Vendor == [ident     : Identifiers,
           activated : BOOLEAN,
           status    : {"pending", "active", "banned"},
           bans      : SUBSET Ban,
           rev       : Nat]

ASSUME TimeAssumption ==
  MaxNow \in Nat /\ MaxDeaths \in Nat /\ BanPeriod \in Nat \ {0} /\ LeapDays \subseteq Nat
ASSUME NilAssumption  == Nil \notin Vendor /\ Nil \notin Ids

VARIABLES now,
          vendors,   \* vendors[v]: the stored document, or Nil
          pc,        \* where each request is
          target,    \* the vendor it works on
          draft,     \* the document it is going to write, with the rev it read
          cron,      \* the phase of the nightly task
          left,      \* vendors its cursor has not returned yet
          queue,     \* vendors it has an UpdateOne for
          deaths,    \* runs of the task that died
          owed       \* history: vendors whose bans were over when the task began,
                     \* and that no request has written since

reqVars  == <<pc, target, draft>>
cronVars == <<cron, left, queue, deaths>>
vars     == <<now, vendors, reqVars, cronVars, owed>>

Existing == {v \in Ids : vendors[v] # Nil}

InForce(ban) == ban.due > now

(* Mutant: bans are not looked at.                                         *)
MayTradeActivated(vendor) == vendor.activated

(* validate_active_vendor.                                                 *)
MayTrade(vendor) == vendor.activated /\ \A ban \in vendor.bans : ~ InForce(ban)

(* The vendors the task queues: banned, and every ban has expired.         *)
Pardonable(vendor) ==
  vendor.status = "banned" /\ vendor.bans # {} /\ \A ban \in vendor.bans : ~ InForce(ban)

NewVendor(i) ==
  [ident |-> i, activated |-> FALSE, status |-> "pending", bans |-> {}, rev |-> 1]

(* Vendors stored earlier.  Two pending ones may share an identifier: they *)
(* were created before it was validated.                                   *)
Init ==
  /\ now = 0
  /\ vendors \in [Ids -> {Nil} \cup [ident : Identifiers, activated : BOOLEAN,
                                     status : {"pending", "active"}, bans : {{}}, rev : {1}]]
  /\ \A v \in Existing : vendors[v].activated <=> vendors[v].status = "active"
  /\ \A v, w \in Existing :
       vendors[v].activated /\ vendors[w].activated /\ vendors[v].ident = vendors[w].ident
       => v = w
  /\ pc = [r \in Requests |-> "idle"]
  /\ target = [r \in Requests |-> Nil]
  /\ draft = [r \in Requests |-> Nil]
  /\ cron = "off" /\ left = {} /\ queue = {} /\ deaths = 0 /\ owed = {}

Tick ==
  /\ now < MaxNow
  /\ now' = now + 1
  /\ UNCHANGED <<vendors, reqVars, cronVars, owed>>

-----------------------------------------------------------------------------
Answer(r, answer) ==
  /\ pc' = [pc EXCEPT ![r] = answer]
  /\ draft' = [draft EXCEPT ![r] = Nil]
  /\ UNCHANGED <<now, target, cronVars>>

Prepare(r, v, document, state) ==
  /\ pc' = [pc EXCEPT ![r] = state]
  /\ target' = [target EXCEPT ![r] = v]
  /\ draft' = [draft EXCEPT ![r] = document]
  /\ UNCHANGED <<now, vendors, cronVars, owed>>

(* POST /vendors: nobody has the identifier yet, on_post fills the         *)
(* document in; v is the new uuid.                                         *)
CreateCheck(r, v, i) ==
  /\ pc[r] = "idle"
  /\ vendors[v] = Nil /\ \A q \in Requests : target[q] # v
  /\ \A w \in Existing : vendors[w].ident # i
  /\ Prepare(r, v, NewVendor(i), "new")

CreateRefuse(r, i) ==
  /\ pc[r] = "idle"
  /\ \E w \in Existing : vendors[w].ident = i
  /\ Answer(r, "failed")
  /\ UNCHANGED <<vendors, owed>>

CreateInsert(r) ==
  /\ pc[r] = "new"
  /\ vendors' = [vendors EXCEPT ![target[r]] = draft[r]]
  /\ Answer(r, "ok")
  /\ UNCHANGED owed

(* Mutant: activation is not compared with what it was before.             *)
ActivateReadAgain(r, v) ==
  /\ pc[r] = "idle"
  /\ v \in Existing
  /\ Prepare(r, v, [vendors[v] EXCEPT !.activated = TRUE], "verify")

(* PATCH {"isActivated": true} of a vendor that is not activated: on_patch *)
(* changes the copy, then asks the database about the identifier.          *)
ActivateRead(r, v) ==
  /\ pc[r] = "idle"
  /\ v \in Existing
  /\ ~ vendors[v].activated
  /\ Prepare(r, v, [vendors[v] EXCEPT !.activated = TRUE], "verify")

IdentifierTaken(v, i) ==
  \E w \in Existing \ {v} : vendors[w].activated /\ vendors[w].ident = i

(* Mutant: activation leaves the status alone.                             *)
ActivateVerifyOnly(r) ==
  /\ pc[r] = "verify"
  /\ ~ IdentifierTaken(target[r], draft[r].ident)
  /\ Prepare(r, target[r], draft[r], "ready")

ActivateVerify(r) ==
  /\ pc[r] = "verify"
  /\ ~ IdentifierTaken(target[r], draft[r].ident)
  /\ Prepare(r, target[r], [draft[r] EXCEPT !.status = "active"], "ready")

ActivateRefuse(r) ==
  /\ pc[r] = "verify"
  /\ IdentifierTaken(target[r], draft[r].ident)
  /\ Answer(r, "failed")
  /\ UNCHANGED <<vendors, owed>>

(* A write that leaves these fields as they were read: POST, PUT and PATCH *)
(* of a vendor's or a ban's document, and a PATCH that changes nothing,    *)
(* such as activating an activated vendor.                                 *)
TouchRead(r, v) ==
  /\ pc[r] = "idle"
  /\ v \in Existing
  /\ Prepare(r, v, vendors[v], "ready")

(* Mutant: the new ban takes the place of the old ones.                    *)
BanReadReplacing(r, v) ==
  /\ pc[r] = "idle"
  /\ v \in Existing
  /\ MayTrade(vendors[v])
  /\ now \notin LeapDays
  /\ Prepare(r, v, [vendors[v] EXCEPT !.status = "banned",
                      !.bans = {[by |-> r, due |-> now + BanPeriod]}], "ready")

(* POST /vendors/{id}/bans: dueDate is the same day of the next year.      *)
BanRead(r, v) ==
  /\ pc[r] = "idle"
  /\ v \in Existing
  /\ MayTrade(vendors[v])
  /\ now \notin LeapDays
  /\ Prepare(r, v, [vendors[v] EXCEPT !.status = "banned",
                      !.bans = @ \cup {[by |-> r, due |-> now + BanPeriod]}], "ready")

(* The vendor is not activated (400), already banned (403), or next year   *)
(* has no such day: replace() raises ValueError (500).                     *)
BanRefuse(r, v) ==
  /\ pc[r] = "idle"
  /\ v \in Existing
  /\ ~ MayTrade(vendors[v]) \/ now \in LeapDays
  /\ Answer(r, "failed")
  /\ UNCHANGED <<vendors, owed>>

(* The access token, the ban or the document named by the request is wrong.*)
Reject(r) ==
  /\ pc[r] = "ready"
  /\ Answer(r, "failed")
  /\ UNCHANGED <<vendors, owed>>

Matches(r) == vendors[target[r]].rev = draft[r].rev

(* update_object.                                                          *)
Replace(r) ==
  /\ pc[r] = "ready"
  /\ Matches(r)
  /\ vendors' = [vendors EXCEPT ![target[r]] = [draft[r] EXCEPT !.rev = @ + 1]]
  /\ owed' = owed \ {target[r]}
  /\ Answer(r, "ok")

Conflict(r) ==
  /\ pc[r] = "ready"
  /\ ~ Matches(r)
  /\ Answer(r, "conflict")
  /\ UNCHANGED <<vendors, owed>>

-----------------------------------------------------------------------------
(* cron.activate_banned_vendors.run_task.                                  *)
CronStart ==
  /\ cron = "off"
  /\ cron' = "scan" /\ left' = Existing
  /\ owed' = {v \in Existing : Pardonable(vendors[v])}
  /\ UNCHANGED <<now, vendors, reqVars, queue, deaths>>

(* Mutant: a vendor that is still banned ends the scan.                    *)
CronVisitBreak(v) ==
  /\ cron = "scan"
  /\ v \in left
  /\ IF Pardonable(vendors[v])
     THEN left' = left \ {v} /\ queue' = queue \cup {v}
     ELSE left' = {} /\ queue' = queue
  /\ UNCHANGED <<now, vendors, reqVars, cron, deaths, owed>>

CronVisit(v) ==
  /\ cron = "scan"
  /\ v \in left
  /\ left' = left \ {v}
  /\ queue' = IF Pardonable(vendors[v]) THEN queue \cup {v} ELSE queue
  /\ UNCHANGED <<now, vendors, reqVars, cron, deaths, owed>>

CronEndScan ==
  /\ cron = "scan" /\ left = {}
  /\ cron' = "write"
  /\ UNCHANGED <<now, vendors, reqVars, left, queue, deaths, owed>>

(* One UpdateOne of the bulk_write: the filter has only the _id, _rev stays.*)
CronWrite(v) ==
  /\ cron = "write"
  /\ v \in queue
  /\ queue' = queue \ {v}
  /\ vendors' = [vendors EXCEPT ![v].status = "active"]
  /\ UNCHANGED <<now, reqVars, cron, left, deaths, owed>>

CronEnd ==
  /\ cron = "write" /\ queue = {}
  /\ cron' = "off" /\ owed' = {}
  /\ UNCHANGED <<now, vendors, reqVars, left, queue, deaths>>

(* The process dies, between two UpdateOne's perhaps.                      *)
CronDie ==
  /\ cron # "off"
  /\ deaths < MaxDeaths
  /\ deaths' = deaths + 1
  /\ cron' = "off" /\ left' = {} /\ queue' = {} /\ owed' = {}
  /\ UNCHANGED <<now, vendors, reqVars>>

Next ==
  \/ Tick
  \/ \E r \in Requests :
       \/ CreateInsert(r) \/ ActivateVerify(r) \/ ActivateRefuse(r)
       \/ Reject(r) \/ Replace(r) \/ Conflict(r)
  \/ \E r \in Requests, i \in Identifiers : CreateRefuse(r, i)
  \/ \E r \in Requests, v \in Ids, i \in Identifiers : CreateCheck(r, v, i)
  \/ \E r \in Requests, v \in Ids :
       ActivateRead(r, v) \/ TouchRead(r, v) \/ BanRead(r, v) \/ BanRefuse(r, v)
  \/ CronStart \/ CronEndScan \/ CronEnd \/ CronDie
  \/ \E v \in Ids : CronVisit(v) \/ CronWrite(v)

(* The task is started every night and goes on unless it dies, which it    *)
(* does at most MaxDeaths times.  Nothing is assumed of the clients.       *)
Nightly ==
  /\ WF_vars(CronStart) /\ WF_vars(CronEndScan) /\ WF_vars(CronEnd)
  /\ \A v \in Ids : WF_vars(CronVisit(v)) /\ WF_vars(CronWrite(v))

Spec     == Init /\ [][Next]_vars
FairSpec == Spec /\ Nightly

-----------------------------------------------------------------------------
(* Type invariant.                                                         *)
TypeOK ==
  /\ now \in 0..MaxNow
  /\ vendors \in [Ids -> Vendor \cup {Nil}]
  /\ pc \in [Requests -> {"idle", "new", "verify", "ready", "ok", "failed", "conflict"}]
  /\ target \in [Requests -> Ids \cup {Nil}]
  /\ draft \in [Requests -> Vendor \cup {Nil}]
  /\ cron \in {"off", "scan", "write"}
  /\ left \in SUBSET Existing /\ queue \in SUBSET Existing
  /\ deaths \in 0..MaxDeaths /\ owed \in SUBSET Existing

(* isActivated and status tell one story although the API writes both and  *)
(* the task writes status alone, from what it saw earlier: a vendor is     *)
(* pending exactly while it is not activated, and banned only with a ban.  *)
StatusMatchesActivation ==
  \A v \in Existing :
    /\ vendors[v].status = "pending" <=> ~ vendors[v].activated
    /\ vendors[v].status = "banned" => vendors[v].bans # {}

(* Administrators who ban a vendor at the same moment do not both succeed: *)
(* at most one ban of a vendor is in force, even after the task has made   *)
(* its status "active" under a new ban.                                    *)
OneBanInForce ==
  \A v \in Existing : \A a, b \in vendors[v].bans : InForce(a) /\ InForce(b) => a = b

(* A recorded ban is never removed or changed, by whichever writer.        *)
BansKept ==
  [][\A v \in Existing : vendors'[v] # Nil /\ vendors[v].bans \subseteq vendors'[v].bans]_vars

(* No API write ends a ban, not even one prepared before the ban was given *)
(* or a repeated activation: status leaves "banned" only by the task, which*)
(* leaves the revision as it was.                                          *)
OnlyCronLiftsBan ==
  [][\A v \in Existing :
       vendors[v].status = "banned" /\ vendors'[v].status # "banned"
       => cron = "write" /\ vendors'[v].rev = vendors[v].rev]_vars

(* A night that is not cut short ends every ban that was over when it      *)
(* began, though the task decides long before it writes, but of vendors    *)
(* that a request has written in the meantime.                             *)
NightLiftsBans ==
  cron = "write" /\ queue = {} => \A v \in owed : vendors[v].status = "active"

(* A vendor whose bans have all expired does not stay "banned": the task   *)
(* ends it, and a document upload that writes back the status it read      *)
(* before the task only delays that to another night.                      *)
ExpiredBanLifted ==
  \A v \in Ids :
    (v \in Existing /\ Pardonable(vendors[v])) ~> ~ (v \in Existing /\ Pardonable(vendors[v]))

(* A vendor with a ban in force is "banned", as the tests of the task      *)
(* expect of it.  Violated: the task may write what it decided on before a *)
(* new ban was given.                                                      *)
BanShownWhileInForce ==
  \A v \in Existing :
    (\E ban \in vendors[v].bans : InForce(ban)) => vendors[v].status = "banned"
=============================================================================
