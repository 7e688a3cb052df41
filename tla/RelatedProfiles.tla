-------------------------- MODULE RelatedProfiles --------------------------
(***************************************************************************)
(* The nightly task that finds the profiles of each product, among         *)
(* requests that create and PATCH products and edit profiles               *)
(* (cron/related_profiles_task.py, handlers/product.py).                   *)
(*                                                                         *)
(* The task goes through the categories.  It reads the profiles of one     *)
(* into a list, then its products one by one, and queues an UpdateOne for  *)
(* each whose relatedProfiles differ from what it finds; all are sent when *)
(* the last category is done, by _id, in the order they were queued.       *)
(* Meanwhile products change their answers or their category, profiles     *)
(* their requirements, and a PATCH writes back relatedProfiles as read.    *)
(*                                                                         *)
(* relatedProfiles is a list in the code; which order it is in is left out.*)
(***************************************************************************)
EXTENDS Sequences, Naturals

CONSTANTS Ids,         \* _id's of products
          Categories,
          Profiles,
          Home,        \* Home[f]: the relatedCategory of profile f, never changed
          Answers,     \* requirementResponses
          Demands,     \* criteria of a profile
          Fit,         \* <<a, d>> in Fit: answers a meet demands d
          Requests,    \* API requests; each one is handled once
          MaxDeaths,   \* bound on the runs of the task that die
          Nil

Product == [category : Categories,
            answers  : Answers \cup {Nil},
            active   : BOOLEAN,
            related  : SUBSET Profiles,
            rev      : Nat]
Profile == [demand : Demands, active : BOOLEAN]
Update  == [id : Ids, related : SUBSET Profiles]

ASSUME ConstantsAssumption ==
  /\ Home \in [Profiles -> Categories]
  /\ Fit \subseteq Answers \X Demands
  /\ MaxDeaths \in Nat
ASSUME NilAssumption ==
  Nil \notin Product /\ Nil \notin Ids /\ Nil \notin Answers /\ Nil \notin Profile
  /\ Nil \notin Categories

VARIABLES products,   \* products[p]: the stored document, or Nil
          profiles,   \* the stored profiles
          pc,         \* where each request is
          target,     \* the product it works on
          draft,      \* the document it is going to write, with the rev it read
          cron,       \* the phase of the task
          todo,       \* categories its cursor has not returned yet
          at,         \* the category it is in
          known,      \* the profiles of that category, as read
          left,       \* products its cursor has not returned yet
          queue,      \* the UpdateOne's collected
          deaths,     \* runs of the task that died
          untouched   \* history: products that no request has written since the
                      \* task began, nor a profile of their category

reqVars  == <<pc, target, draft>>
cronVars == <<cron, todo, at, known, left, queue, deaths>>
vars     == <<products, profiles, reqVars, cronVars, untouched>>

Existing == {p \in Ids : products[p] # Nil}

NewProduct(c, a) ==
  [category |-> c, answers |-> a, active |-> TRUE, related |-> {}, rev |-> 1]

NewProducts == {NewProduct(c, a) : c \in Categories, a \in Answers}

Init ==
  /\ products \in [Ids -> {Nil} \cup NewProducts]
  /\ profiles \in [Profiles -> [demand : Demands, active : {TRUE}]]
  /\ pc = [r \in Requests |-> "idle"]
  /\ target = [r \in Requests |-> Nil]
  /\ draft = [r \in Requests |-> Nil]
  /\ cron = "off" /\ todo = {} /\ at = Nil /\ known = [f \in Profiles |-> Nil]
  /\ left = {} /\ queue = <<>> /\ deaths = 0
  /\ untouched = {}

-----------------------------------------------------------------------------
Answer(r, answer) ==
  /\ pc' = [pc EXCEPT ![r] = answer]
  /\ target' = [target EXCEPT ![r] = Nil]
  /\ draft' = [draft EXCEPT ![r] = Nil]
  /\ UNCHANGED cronVars

(* POST /products: without relatedProfiles.  Nothing another request does  *)
(* concerns the new uuid, so that this is one step.                        *)
Create(r, p, c, a) ==
  /\ pc[r] = "idle"
  /\ products[p] = Nil
  /\ products' = [products EXCEPT ![p] = NewProduct(c, a)]
  /\ Answer(r, "ok")
  /\ UNCHANGED <<profiles, untouched>>

(* PATCH of a profile, or of its criteria, groups and requirements.  The   *)
(* task reads profiles and never writes them, so that the request is one   *)
(* step (see AtomicDocuments).                                             *)
EditProfile(r, f, x) ==
  /\ pc[r] = "idle"
  /\ profiles' = [profiles EXCEPT ![f] = x]
  /\ untouched' = {p \in untouched : products[p].category # Home[f]}
  /\ Answer(r, "ok")
  /\ UNCHANGED products

(* PATCH /products/{id}: another category, other answers, or off the       *)
(* market.  Answers can be given, not taken away.                          *)
PatchRead(r, p, c, a, active) ==
  /\ pc[r] = "idle"
  /\ p \in Existing
  /\ products[p].active
  /\ a = Nil => products[p].answers = Nil
  /\ pc' = [pc EXCEPT ![r] = "ready"]
  /\ target' = [target EXCEPT ![r] = p]
  /\ draft' = [draft EXCEPT ![r] =
       [products[p] EXCEPT !.category = c, !.answers = a, !.active = active]]
  /\ UNCHANGED <<products, profiles, cronVars, untouched>>

Matches(r) == products[target[r]].rev = draft[r].rev

(* update_object.                                                          *)
Replace(r) ==
  /\ pc[r] = "ready"
  /\ Matches(r)
  /\ products' = [products EXCEPT ![target[r]] = [draft[r] EXCEPT !.rev = @ + 1]]
  /\ untouched' = untouched \ {target[r]}
  /\ Answer(r, "ok")
  /\ UNCHANGED profiles

(* The category forbids it, or update_object finds nothing (409).          *)
Fail(r) ==
  /\ pc[r] = "ready"
  /\ Answer(r, "failed")
  /\ UNCHANGED <<products, profiles, untouched>>

-----------------------------------------------------------------------------
(* cron.related_profiles_task.run_task.                                    *)
CronStart ==
  /\ cron = "off"
  /\ cron' = "next" /\ todo' = Categories
  /\ untouched' = Existing
  /\ UNCHANGED <<products, profiles, reqVars, at, known, left, queue, deaths>>

(* The profiles of category c, of which those that are not active are not  *)
(* read.                                                                   *)
Listed(c) ==
  [f \in Profiles |-> IF Home[f] = c /\ profiles[f].active THEN profiles[f].demand ELSE Nil]

(* Mutant: a category without profiles is passed over.                     *)
CronCategoryWithProfiles(c) ==
  /\ cron = "next"
  /\ c \in todo
  /\ cron' = "scan" /\ at' = c /\ todo' = todo \ {c}
  /\ known' = Listed(c)
  /\ left' = IF \A f \in Profiles : Listed(c)[f] = Nil THEN {} ELSE Existing
  /\ UNCHANGED <<products, profiles, reqVars, queue, deaths, untouched>>

CronCategory(c) ==
  /\ cron = "next"
  /\ c \in todo
  /\ cron' = "scan" /\ at' = c /\ todo' = todo \ {c}
  /\ known' = Listed(c)
  /\ left' = Existing
  /\ UNCHANGED <<products, profiles, reqVars, queue, deaths, untouched>>

(* get_product_relatedProfiles.                                            *)
Fitting(answers, demands) ==
  {f \in Profiles : demands[f] # Nil /\ <<answers, demands[f]>> \in Fit}

(* The products the cursor of the task is about.                           *)
Due(x, c) == x.category = c /\ x.active /\ x.answers # Nil

(* Mutant: an UpdateOne is queued whether or not anything differs.         *)
CronVisitAlways(p) ==
  LET x == products[p]
      fitting == Fitting(x.answers, known) IN
  /\ cron = "scan"
  /\ p \in left
  /\ left' = left \ {p}
  /\ queue' = IF Due(x, at) THEN Append(queue, [id |-> p, related |-> fitting]) ELSE queue
  /\ UNCHANGED <<products, profiles, reqVars, cron, todo, at, known, deaths, untouched>>

CronVisit(p) ==
  LET x == products[p]
      fitting == Fitting(x.answers, known) IN
  /\ cron = "scan"
  /\ p \in left
  /\ left' = left \ {p}
  /\ queue' = IF Due(x, at) /\ x.related # fitting
              THEN Append(queue, [id |-> p, related |-> fitting]) ELSE queue
  /\ UNCHANGED <<products, profiles, reqVars, cron, todo, at, known, deaths, untouched>>

CronNext ==
  /\ cron = "scan" /\ left = {}
  /\ cron' = "next" /\ at' = Nil /\ known' = [f \in Profiles |-> Nil]
  /\ UNCHANGED <<products, profiles, reqVars, todo, left, queue, deaths, untouched>>

CronEndScan ==
  /\ cron = "next" /\ todo = {}
  /\ cron' = "write"
  /\ UNCHANGED <<products, profiles, reqVars, todo, at, known, left, queue, deaths, untouched>>

(* The next UpdateOne of the bulk_write, which is ordered.                 *)
CronWrite ==
  /\ cron = "write" /\ queue # <<>>
  /\ queue' = Tail(queue)
  /\ products' = [products EXCEPT ![Head(queue).id].related = Head(queue).related]
  /\ UNCHANGED <<profiles, reqVars, cron, todo, at, known, left, deaths, untouched>>

CronEnd ==
  /\ cron = "write" /\ queue = <<>>
  /\ cron' = "off" /\ untouched' = {}
  /\ UNCHANGED <<products, profiles, reqVars, todo, at, known, left, queue, deaths>>

CronDie ==
  /\ cron # "off"
  /\ deaths < MaxDeaths
  /\ deaths' = deaths + 1
  /\ cron' = "off" /\ todo' = {} /\ at' = Nil /\ known' = [f \in Profiles |-> Nil]
  /\ left' = {} /\ queue' = <<>> /\ untouched' = {}
  /\ UNCHANGED <<products, profiles, reqVars>>

CronStep ==
  \/ CronStart \/ CronNext \/ CronEndScan \/ CronWrite \/ CronEnd
  \/ \E c \in Categories : CronCategory(c)
  \/ \E p \in Ids : CronVisit(p)

Next ==
  \/ \E r \in Requests : Replace(r) \/ Fail(r)
  \/ \E r \in Requests, p \in Ids, c \in Categories, a \in Answers \cup {Nil} :
       \/ Create(r, p, c, a)
       \/ \E active \in BOOLEAN : PatchRead(r, p, c, a, active)
  \/ \E r \in Requests, f \in Profiles, x \in Profile : EditProfile(r, f, x)
  \/ CronStep
  \/ CronDie

(* The task is started every night and goes on unless it dies, which it    *)
(* does at most MaxDeaths times.  Nothing is assumed of the clients.       *)
Spec     == Init /\ [][Next]_vars
FairSpec == Spec /\ WF_vars(CronStep)

-----------------------------------------------------------------------------
(* Type invariant.                                                         *)
TypeOK ==
  /\ products \in [Ids -> Product \cup {Nil}]
  /\ profiles \in [Profiles -> Profile]
  /\ pc \in [Requests -> {"idle", "ready", "ok", "failed"}]
  /\ target \in [Requests -> Ids \cup {Nil}]
  /\ draft \in [Requests -> Product \cup {Nil}]
  /\ cron \in {"off", "next", "scan", "write"}
  /\ todo \in SUBSET Categories
  /\ at \in Categories \cup {Nil}
  /\ known \in [Profiles -> Demands \cup {Nil}]
  /\ left \in SUBSET Existing
  /\ queue \in Seq(Update)
  /\ deaths \in 0..MaxDeaths
  /\ untouched \in SUBSET Existing

Settled(x) == x.active /\ x.answers # Nil => x.related = Fitting(x.answers, Listed(x.category))

(* A night that is not cut short leaves every product on the market naming *)
(* exactly the active profiles of its category that it meets, whatever was *)
(* stale before: but those that a request wrote, or whose category's       *)
(* profiles were edited, while the task was at work.                       *)
NightSettles ==
  cron = "write" /\ queue = <<>> => \A p \in untouched : Settled(products[p])

(* Nothing is written for nothing: an UpdateOne, though it is sent long    *)
(* after it was queued and others of the same product may be before it, is *)
(* of a product that does not name the profiles it should, unless requests *)
(* have come between.                                                      *)
NothingForNothing ==
  \A i \in DOMAIN queue : queue[i].id \in untouched => ~ Settled(products[queue[i].id])

(* Once products and profiles are left alone, every product on the market  *)
(* comes to name exactly the active profiles of its category that it meets,*)
(* whatever the task had read before, in how many pieces, and whichever    *)
(* stale list a PATCH had written back.                                    *)
RelatedProfilesConverge == <>[](\A p \in Existing : Settled(products[p]))

(* And from then on the nights are quiet: no product gets a new            *)
(* dateModified, and with it a place in the feed, for nothing.             *)
QuietNights == <>[](queue = <<>>)
=============================================================================
