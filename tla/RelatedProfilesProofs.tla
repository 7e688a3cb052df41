------------------------ MODULE RelatedProfilesProofs ------------------------
(***************************************************************************)
(* Theorems about the task that fills in relatedProfiles, for any products,*)
(* categories, profiles and answers: types, which rest on the fact that    *)
(* all that the task has queued and all that a request holds is about      *)
(* products that are still there; and what a night does for the products   *)
(* that nobody else touches in it, which rests on where the task is with   *)
(* each of them.                                                           *)
(***************************************************************************)
EXTENDS RelatedProfiles, TLAPS

(* Every queued UpdateOne, and every prepared PATCH, is of a product that  *)
(* is stored.                                                              *)
QueueOK == \A i \in DOMAIN queue : queue[i].id \in Existing
DraftOK == \A r \in Requests : pc[r] = "ready" => target[r] \in Existing /\ draft[r] \in Product

IInv == TypeOK /\ QueueOK /\ DraftOK

LEMMA NewProductType ==
  ASSUME NEW c \in Categories, NEW a \in Answers \cup {Nil}
  PROVE  NewProduct(c, a) \in Product
BY DEF NewProduct, Product

LEMMA InitIInv == Init => IInv
<1> SUFFICES ASSUME Init PROVE IInv
  OBVIOUS
<1>1. products \in [Ids -> Product \cup {Nil}]
  <2>1. NewProducts \subseteq Product
    BY NewProductType DEF NewProducts
  <2> QED
    BY <2>1 DEF Init
<1>2. profiles \in [Profiles -> Profile]
  BY DEF Init, Profile
<1> QED
  BY <1>1, <1>2, ConstantsAssumption DEF Init, IInv, TypeOK, QueueOK, DraftOK

(* A product, once stored, stays.                                          *)
LEMMA Stays ==
  ASSUME IInv, products' \in [Ids -> Product \cup {Nil}], Existing \subseteq Existing',
         queue' = queue, UNCHANGED <<pc, target, draft>>
  PROVE  QueueOK' /\ DraftOK'
BY DEF IInv, QueueOK, DraftOK

LEMMA ListedType ==
  ASSUME TypeOK, NEW c PROVE Listed(c) \in [Profiles -> Demands \cup {Nil}]
BY DEF TypeOK, Listed, Profile

LEMMA FittingType ==
  ASSUME NEW answers, NEW demands PROVE Fitting(answers, demands) \in SUBSET Profiles
BY DEF Fitting

LEMMA IInvStep == IInv /\ [Next]_vars => IInv'
<1> SUFFICES ASSUME IInv, [Next]_vars PROVE IInv'
  OBVIOUS
<1> USE NilAssumption
<1>t. /\ products \in [Ids -> Product \cup {Nil}]
      /\ profiles \in [Profiles -> Profile]
      /\ pc \in [Requests -> {"idle", "ready", "ok", "failed"}]
      /\ target \in [Requests -> Ids \cup {Nil}]
      /\ draft \in [Requests -> Product \cup {Nil}]
      /\ queue \in Seq(Update) /\ deaths \in 0..MaxDeaths /\ MaxDeaths \in Nat
  BY ConstantsAssumption DEF IInv, TypeOK
(* A request stores x as p, and is answered.                               *)
<1>1. ASSUME NEW r \in Requests, NEW p \in Ids, NEW x \in Product,
             products' = [products EXCEPT ![p] = x], profiles' = profiles, Answer(r, "ok"),
             untouched' \subseteq untouched
      PROVE  IInv'
  <2>1. products' \in [Ids -> Product \cup {Nil}] /\ Existing \subseteq Existing'
    BY <1>t, <1>1 DEF Existing
  <2>2. TypeOK'
    BY <1>1, <2>1 DEF IInv, TypeOK, Answer, cronVars, Existing
  <2>3. QueueOK' /\ DraftOK'
    BY <1>t, <1>1, <2>1 DEF IInv, QueueOK, DraftOK, Answer, cronVars
  <2> QED
    BY <2>2, <2>3 DEF IInv
<1>2. ASSUME NEW r \in Requests, Replace(r) PROVE IInv'
  <2>1. target[r] \in Ids /\ draft[r] \in Product
    BY <1>2 DEF IInv, DraftOK, Replace, Existing
  <2>2. PICK x : x = [draft[r] EXCEPT !.rev = @ + 1]
    OBVIOUS
  <2>3. x \in Product
    BY <2>1, <2>2 DEF Product
  <2> QED
    BY <1>1, <1>2, <2>1, <2>2, <2>3 DEF Replace
<1>3. ASSUME NEW r \in Requests, NEW p \in Ids, NEW c \in Categories, NEW a \in Answers \cup {Nil},
             Create(r, p, c, a)
      PROVE  IInv'
  <2>1. PICK x : x = NewProduct(c, a)
    OBVIOUS
  <2> QED
    BY <1>1, <1>3, <2>1, NewProductType DEF Create
<1>4. ASSUME NEW r \in Requests, Fail(r) PROVE IInv'
  <2>1. TypeOK'
    BY <1>4 DEF IInv, TypeOK, Fail, Answer, cronVars, Existing
  <2>2. QueueOK' /\ DraftOK'
    BY <1>t, <1>4 DEF IInv, QueueOK, DraftOK, Fail, Answer, cronVars, Existing
  <2> QED
    BY <2>1, <2>2 DEF IInv
<1>5. ASSUME NEW r \in Requests, NEW f \in Profiles, NEW x \in Profile, EditProfile(r, f, x) PROVE IInv'
  <2>1. TypeOK'
    BY <1>5 DEF IInv, TypeOK, EditProfile, Answer, cronVars, Existing
  <2>2. QueueOK' /\ DraftOK'
    BY <1>t, <1>5 DEF IInv, QueueOK, DraftOK, EditProfile, Answer, cronVars, Existing
  <2> QED
    BY <2>1, <2>2 DEF IInv
<1>6. ASSUME NEW r \in Requests, NEW p \in Ids, NEW c \in Categories, NEW a \in Answers \cup {Nil},
             NEW active \in BOOLEAN, PatchRead(r, p, c, a, active)
      PROVE  IInv'
  <2>1. PICK x : x = [products[p] EXCEPT !.category = c, !.answers = a, !.active = active]
    OBVIOUS
  <2>2. x \in Product
    <3>1. products[p] \in Product
      BY <1>t, <1>6 DEF PatchRead, Existing
    <3> QED
      BY <2>1, <3>1 DEF Product
  <2>3. /\ pc' = [pc EXCEPT ![r] = "ready"] /\ target' = [target EXCEPT ![r] = p]
        /\ draft' = [draft EXCEPT ![r] = x] /\ p \in Existing
        /\ UNCHANGED <<products, profiles, cronVars, untouched>>
    BY <1>6, <2>1 DEF PatchRead
  <2>4. TypeOK'
    BY <2>2, <2>3 DEF IInv, TypeOK, cronVars, Existing
  <2>5. QueueOK' /\ DraftOK'
    BY <1>t, <2>2, <2>3 DEF IInv, QueueOK, DraftOK, cronVars, Existing
  <2> QED
    BY <2>4, <2>5 DEF IInv
<1>7. CASE CronStart \/ CronNext \/ CronEndScan \/ CronEnd \/ UNCHANGED vars
  <2>1. TypeOK'
    BY <1>7 DEF IInv, TypeOK, CronStart, CronNext, CronEndScan, CronEnd, vars, reqVars, cronVars, Existing
  <2>2. QueueOK' /\ DraftOK'
    BY <1>7 DEF IInv, QueueOK, DraftOK, CronStart, CronNext, CronEndScan, CronEnd, vars, reqVars,
       cronVars, Existing
  <2> QED
    BY <2>1, <2>2 DEF IInv
<1>8. ASSUME NEW c \in Categories, CronCategory(c) PROVE IInv'
  <2>1. Listed(c) \in [Profiles -> Demands \cup {Nil}]
    BY ListedType DEF IInv
  <2>2. TypeOK'
    BY <1>8, <2>1 DEF IInv, TypeOK, CronCategory, reqVars, Existing
  <2>3. QueueOK' /\ DraftOK'
    BY <1>8 DEF IInv, QueueOK, DraftOK, CronCategory, reqVars, Existing
  <2> QED
    BY <2>2, <2>3 DEF IInv
<1>9. ASSUME NEW p \in Ids, CronVisit(p) PROVE IInv'
  <2>1. PICK u : u = [id |-> p, related |-> Fitting(products[p].answers, known)]
    OBVIOUS
  <2>2. u \in Update /\ u.id = p /\ p \in Existing
    BY <1>9, <2>1, FittingType DEF Update, CronVisit, IInv, TypeOK
  <2>3. queue' = queue \/ queue' = Append(queue, u)
    BY <1>9, <2>1 DEF CronVisit
  <2>4. queue' \in Seq(Update)
    BY <1>t, <2>2, <2>3
  <2>5. TypeOK'
    BY <1>9, <2>4 DEF IInv, TypeOK, CronVisit, reqVars, Existing
  <2>6. QueueOK'
    <3> SUFFICES ASSUME NEW i \in DOMAIN queue' PROVE queue'[i].id \in Existing
      BY <1>9 DEF QueueOK, CronVisit, Existing
    <3>1. CASE queue' = queue
      BY <3>1 DEF IInv, QueueOK
    <3>2. CASE queue' = Append(queue, u)
      <4>1. i \in 1..Len(queue) + 1
        BY <1>t, <2>2, <3>2
      <4>2. CASE i = Len(queue) + 1
        BY <1>t, <2>2, <3>2, <4>2
      <4>3. CASE i \in 1..Len(queue)
        <5>1. i \in DOMAIN queue /\ queue'[i] = queue[i]
          BY <1>t, <2>2, <3>2, <4>3
        <5> QED
          BY <5>1 DEF IInv, QueueOK
      <4> QED
        BY <1>t, <4>1, <4>2, <4>3
    <3> QED
      BY <2>3, <3>1, <3>2
  <2>7. DraftOK'
    BY <1>9 DEF IInv, DraftOK, CronVisit, reqVars, Existing
  <2> QED
    BY <2>5, <2>6, <2>7 DEF IInv
<1>10. ASSUME CronWrite PROVE IInv'
  <2>1. PICK u : u = Head(queue)
    OBVIOUS
  <2>2. u \in Update /\ u.id \in Existing /\ u.id \in Ids /\ products[u.id] \in Product
    <3>1. queue # <<>> /\ 1 \in DOMAIN queue /\ u = queue[1]
      BY <1>t, <1>10, <2>1 DEF CronWrite
    <3>2. u \in Update
      BY <1>t, <3>1
    <3>3. u.id \in Existing
      BY <3>1 DEF IInv, QueueOK
    <3> QED
      BY <1>t, <3>2, <3>3 DEF Existing, Update
  <2>3. products' = [products EXCEPT ![u.id].related = u.related]
    BY <1>10, <2>1 DEF CronWrite
  <2>4. products' \in [Ids -> Product \cup {Nil}] /\ Existing \subseteq Existing'
    <3>1. [products[u.id] EXCEPT !.related = u.related] \in Product
      BY <2>2 DEF Product, Update
    <3> QED
      BY <1>t, <2>2, <2>3, <3>1 DEF Existing
  <2>5. /\ queue' \in Seq(Update)
        /\ \A i \in DOMAIN queue' : i + 1 \in DOMAIN queue /\ queue'[i] = queue[i + 1]
    BY <1>t, <1>10 DEF CronWrite
  <2>6. TypeOK'
    BY <1>10, <2>4, <2>5 DEF IInv, TypeOK, CronWrite, reqVars, Existing
  <2>7. QueueOK' /\ DraftOK'
    BY <1>10, <2>4, <2>5 DEF IInv, QueueOK, DraftOK, CronWrite, reqVars
  <2> QED
    BY <2>6, <2>7 DEF IInv
<1>11. ASSUME CronDie PROVE IInv'
  <2>1. TypeOK'
    BY <1>t, <1>11 DEF IInv, TypeOK, CronDie, reqVars, Existing
  <2>2. QueueOK' /\ DraftOK'
    BY <1>11 DEF IInv, QueueOK, DraftOK, CronDie, reqVars, Existing
  <2> QED
    BY <2>1, <2>2 DEF IInv
<1> QED
  BY <1>2, <1>3, <1>4, <1>5, <1>6, <1>7, <1>8, <1>9, <1>10, <1>11 DEF Next, CronStep

-----------------------------------------------------------------------------
(* The profiles p should name; the task has still to come to it.           *)
Found(p)   == Fitting(products[p].answers, Listed(products[p].category))
Awaited(p) ==
  \/ products[p].category \in todo
  \/ cron = "scan" /\ products[p].category = at /\ p \in left

(* Where the task is: nothing is queued before it begins, every category   *)
(* is done when it writes, and what it has read of the category it is in   *)
(* is still so.                                                            *)
PhaseOK ==
  /\ cron = "off" => queue = <<>>
  /\ cron = "write" => todo = {}
  /\ cron = "scan" => at \notin todo
ReadOK ==
  cron = "scan" => \A p \in untouched : products[p].category = at => known = Listed(at)

(* An untouched product is as it should be, or the task will come to it, or*)
(* it is in the queue; there it is once, for a reason, with the profiles   *)
(* that it should name, and the task will not come to it again.            *)
OwedOK ==
  \A p \in untouched : Settled(products[p]) \/ Awaited(p) \/ \E i \in DOMAIN queue : queue[i].id = p
EntryOK(i, p) ==
  /\ ~ Awaited(p) /\ ~ Settled(products[p])
  /\ queue[i].related = Found(p)
  /\ \A j \in DOMAIN queue : queue[j].id = p => j = i
QueuedOK == \A i \in DOMAIN queue : queue[i].id \in untouched => EntryOK(i, queue[i].id)

NightOK == PhaseOK /\ ReadOK /\ OwedOK /\ QueuedOK

LEMMA InitNightOK == Init => NightOK
BY DEF Init, NightOK, PhaseOK, ReadOK, OwedOK, QueuedOK

(* A step of a request: it may make the task's knowledge of some products  *)
(* stale, but those are untouched no more.                                 *)
LEMMA RequestKeepsNight ==
  ASSUME IInv, NightOK, UNCHANGED cronVars, untouched' \subseteq untouched,
         \A p \in untouched' : /\ products'[p] = products[p]
                               /\ Listed(products[p].category)' = Listed(products[p].category)
  PROVE  NightOK'
<1>1. PhaseOK'
  BY DEF NightOK, PhaseOK, cronVars
<1>2. \A p \in untouched' : /\ Awaited(p)' = Awaited(p) /\ Found(p)' = Found(p)
                            /\ Settled(products[p])' = Settled(products[p])
  BY DEF Awaited, Found, Settled, cronVars, Fitting
<1>3. ReadOK'
  BY DEF NightOK, ReadOK, cronVars
<1>4. OwedOK'
  BY <1>2 DEF NightOK, OwedOK, cronVars
<1>5. QueuedOK'
  BY <1>2 DEF NightOK, QueuedOK, EntryOK, cronVars
<1> QED
  BY <1>1, <1>3, <1>4, <1>5 DEF NightOK

(* An edit of profile f is not seen in other categories than its own.      *)
LEMMA EditElsewhere ==
  ASSUME NEW f \in Profiles, NEW x, NEW c, c # Home[f], TypeOK,
         profiles' = [profiles EXCEPT ![f] = x]
  PROVE  Listed(c)' = Listed(c)
<1>1. \A g \in Profiles : g # f => profiles'[g] = profiles[g]
  BY DEF TypeOK
<1> QED
  BY <1>1 DEF Listed

LEMMA NightStep == IInv /\ NightOK /\ [Next]_vars => NightOK'
<1> SUFFICES ASSUME IInv, NightOK, [Next]_vars PROVE NightOK'
  OBVIOUS
<1> USE NilAssumption
<1>t. /\ products \in [Ids -> Product \cup {Nil}] /\ queue \in Seq(Update)
      /\ untouched \in SUBSET Existing
  BY DEF IInv, TypeOK
<1>p. \A p \in untouched : p \in Ids /\ products[p] # Nil /\ products[p] \in Product
  BY <1>t DEF Existing
<1>1. ASSUME NEW r \in Requests, Replace(r) PROVE NightOK'
  <2>1. UNCHANGED cronVars /\ profiles' = profiles /\ untouched' = untouched \ {target[r]}
        /\ products' = [products EXCEPT ![target[r]] = [draft[r] EXCEPT !.rev = @ + 1]]
    BY <1>1 DEF Replace, Answer
  <2>2. \A p \in untouched' : products'[p] = products[p]
    BY <1>t, <2>1 DEF Existing
  <2>3. \A c : Listed(c)' = Listed(c)
    BY <2>1 DEF Listed
  <2> QED
    BY <2>1, <2>2, <2>3, RequestKeepsNight
<1>2. ASSUME NEW r \in Requests, NEW p \in Ids, NEW c \in Categories, NEW a \in Answers \cup {Nil},
             Create(r, p, c, a)
      PROVE  NightOK'
  <2>1. UNCHANGED cronVars /\ profiles' = profiles /\ untouched' = untouched
        /\ products' = [products EXCEPT ![p] = NewProduct(c, a)] /\ products[p] = Nil
    BY <1>2 DEF Create, Answer
  <2>2. \A q \in untouched' : products'[q] = products[q]
    BY <1>t, <2>1 DEF Existing
  <2>3. \A d : Listed(d)' = Listed(d)
    BY <2>1 DEF Listed
  <2> QED
    BY <2>1, <2>2, <2>3, RequestKeepsNight
<1>3. CASE (\E r \in Requests : Fail(r)) \/ UNCHANGED vars
  <2>1. UNCHANGED <<cronVars, products, profiles, untouched>>
    BY <1>3 DEF Fail, Answer, vars
  <2>2. \A d : Listed(d)' = Listed(d)
    BY <2>1 DEF Listed
  <2> QED
    BY <2>1, <2>2, RequestKeepsNight
<1>4. ASSUME NEW r \in Requests, NEW f \in Profiles, NEW x \in Profile, EditProfile(r, f, x)
      PROVE  NightOK'
  <2>1. UNCHANGED cronVars /\ products' = products
        /\ untouched' = {p \in untouched : products[p].category # Home[f]}
        /\ profiles' = [profiles EXCEPT ![f] = x]
    BY <1>4 DEF EditProfile, Answer
  <2>2. \A p \in untouched' : Listed(products[p].category)' = Listed(products[p].category)
    BY <2>1, EditElsewhere DEF IInv
  <2> QED
    BY <2>1, <2>2, RequestKeepsNight
<1>5. ASSUME NEW r \in Requests, NEW p \in Ids, NEW c \in Categories, NEW a \in Answers \cup {Nil},
             NEW active \in BOOLEAN, PatchRead(r, p, c, a, active)
      PROVE  NightOK'
  <2>1. UNCHANGED <<cronVars, products, profiles, untouched>>
    BY <1>5 DEF PatchRead
  <2>2. \A d : Listed(d)' = Listed(d)
    BY <2>1 DEF Listed
  <2> QED
    BY <2>1, <2>2, RequestKeepsNight
<1>6. CASE CronStart
  <2>1. cron = "off" /\ cron' = "next" /\ todo' = Categories /\ untouched' = Existing
        /\ UNCHANGED <<products, queue>> /\ queue = <<>>
    BY <1>6 DEF CronStart, NightOK, PhaseOK
  <2>2. PhaseOK' /\ ReadOK'
    BY <2>1 DEF PhaseOK, ReadOK
  <2>3. OwedOK'
    <3>1. \A p \in Existing : products'[p].category \in todo'
      BY <1>t, <2>1 DEF Existing, Product
    <3> QED
      BY <2>1, <3>1 DEF OwedOK, Awaited
  <2>4. QueuedOK'
    BY <2>1 DEF QueuedOK
  <2> QED
    BY <2>2, <2>3, <2>4 DEF NightOK
(* The task goes on, and no product has been passed over by that.          *)
<1>7. ASSUME UNCHANGED <<products, profiles, queue, untouched>>,
             \A p \in untouched : Awaited(p)' = Awaited(p), PhaseOK', ReadOK'
      PROVE  NightOK'
  <2>1. \A p : /\ Found(p)' = Found(p) /\ Settled(products[p])' = Settled(products[p])
    BY <1>7 DEF Found, Settled, Fitting, Listed
  <2>2. OwedOK'
    BY <1>7, <2>1 DEF NightOK, OwedOK
  <2>3. QueuedOK'
    BY <1>7, <2>1 DEF NightOK, QueuedOK, EntryOK
  <2> QED
    BY <1>7, <2>2, <2>3 DEF NightOK
<1>8. ASSUME NEW c \in Categories, CronCategory(c) PROVE NightOK'
  <2>1. /\ cron = "next" /\ c \in todo /\ cron' = "scan" /\ at' = c /\ todo' = todo \ {c}
        /\ known' = Listed(c) /\ left' = Existing
        /\ UNCHANGED <<products, profiles, queue, untouched>>
    BY <1>8 DEF CronCategory
  <2>2. \A p \in untouched : Awaited(p)' = Awaited(p)
    BY <1>t, <2>1 DEF Awaited
  <2>3. PhaseOK' /\ ReadOK'
    BY <2>1 DEF PhaseOK, ReadOK, Listed
  <2> QED
    BY <1>7, <2>1, <2>2, <2>3
<1>9. CASE CronNext \/ CronEndScan
  <2>1. UNCHANGED <<products, profiles, queue, untouched, todo>> /\ cron' # "scan"
    BY <1>9 DEF CronNext, CronEndScan
  <2>2. \A p \in untouched : Awaited(p)' = Awaited(p)
    BY <1>9 DEF CronNext, CronEndScan, Awaited
  <2>3. PhaseOK' /\ ReadOK'
    BY <1>9 DEF CronNext, CronEndScan, NightOK, PhaseOK, ReadOK
  <2> QED
    BY <1>7, <2>1, <2>2, <2>3
<1>10. CASE CronEnd \/ CronDie
  <2>1. untouched' = {} /\ queue' = <<>> /\ cron' = "off"
    BY <1>10 DEF CronEnd, CronDie
  <2> QED
    BY <2>1 DEF NightOK, PhaseOK, ReadOK, OwedOK, QueuedOK
<1>11. ASSUME NEW p \in Ids, CronVisit(p) PROVE NightOK'
  <2>1. PICK u : u = [id |-> p, related |-> Fitting(products[p].answers, known)]
    OBVIOUS
  <2>2. u \in Update /\ u.id = p /\ p \in Existing /\ products[p] \in Product
    BY <1>11, <1>t, <2>1, FittingType DEF Update, CronVisit, IInv, TypeOK, Existing
  <2>3. /\ cron = "scan" /\ p \in left /\ left' = left \ {p}
        /\ UNCHANGED <<products, profiles, untouched, cron, todo, at, known>>
        /\ queue' = IF Due(products[p], at) /\ products[p].related # u.related
                    THEN Append(queue, u) ELSE queue
    BY <1>11, <2>1 DEF CronVisit
  <2>4. \A q : /\ Found(q)' = Found(q) /\ Settled(products[q])' = Settled(products[q])
    BY <2>3 DEF Found, Settled, Fitting, Listed
  <2>5. \A q \in untouched : /\ Awaited(q)' => Awaited(q)
                             /\ Awaited(q) => Awaited(q)' \/ (q = p /\ products[p].category = at)
    BY <2>3 DEF Awaited
  <2>6. PhaseOK' /\ ReadOK'
    BY <2>3 DEF NightOK, PhaseOK, ReadOK, Listed
(* The product is awaited no more, since its category is done but for it.  *)
  <2>7. p \in untouched /\ products[p].category = at =>
          /\ Awaited(p) /\ ~ Awaited(p)'
          /\ u.related = Found(p)
          /\ \A i \in DOMAIN queue : queue[i].id # p
    <3> SUFFICES ASSUME p \in untouched, products[p].category = at
                 PROVE  /\ Awaited(p) /\ ~ Awaited(p)'
                        /\ u.related = Found(p)
                        /\ \A i \in DOMAIN queue : queue[i].id # p
      OBVIOUS
    <3>1. Awaited(p) /\ ~ Awaited(p)'
      BY <2>3 DEF Awaited, NightOK, PhaseOK
    <3>2. u.related = Found(p)
      BY <2>1, <2>3 DEF Found, NightOK, ReadOK
    <3>3. \A i \in DOMAIN queue : queue[i].id # p
      BY <3>1 DEF NightOK, QueuedOK, EntryOK
    <3> QED
      BY <3>1, <3>2, <3>3
  <2>8. CASE queue' = queue /\ (p \in untouched /\ products[p].category = at => Settled(products[p]))
    <3>1. OwedOK'
      BY <2>3, <2>4, <2>5, <2>8 DEF NightOK, OwedOK
    <3>2. QueuedOK'
      BY <2>3, <2>4, <2>5, <2>8 DEF NightOK, QueuedOK, EntryOK
    <3> QED
      BY <2>6, <3>1, <3>2 DEF NightOK
  <2>9. CASE /\ queue' = Append(queue, u)
             /\ p \in untouched => products[p].category = at /\ ~ Settled(products[p])
    <3>1. /\ DOMAIN queue = 1..Len(queue) /\ Len(queue) \in Nat
          /\ DOMAIN queue' = 1..(Len(queue) + 1)
          /\ queue'[Len(queue) + 1] = u
          /\ \A i \in DOMAIN queue : queue'[i] = queue[i] /\ i \in DOMAIN queue'
      BY <1>t, <2>2, <2>9
    <3>2. \A i \in DOMAIN queue' : i \in DOMAIN queue \/ i = Len(queue) + 1
      BY <3>1
    <3>3. OwedOK'
      <4> SUFFICES ASSUME NEW q \in untouched
                   PROVE  Settled(products[q])' \/ Awaited(q)' \/ \E i \in DOMAIN queue' : queue'[i].id = q
        BY <2>3 DEF OwedOK
      <4>1. CASE q = p
        <5>1. Len(queue) + 1 \in DOMAIN queue' /\ queue'[Len(queue) + 1].id = p
          BY <2>2, <3>1
        <5> QED
          BY <4>1, <5>1
      <4>2. CASE q # p
        BY <2>4, <2>5, <3>1, <4>2 DEF NightOK, OwedOK
      <4> QED
        BY <4>1, <4>2
    <3>4. QueuedOK'
      <4> SUFFICES ASSUME NEW i \in DOMAIN queue', NEW q \in untouched, queue'[i].id = q
                   PROVE  EntryOK(i, q)'
        BY <2>3 DEF QueuedOK
      <4>1. CASE i \in DOMAIN queue
        <5>1. EntryOK(i, q) /\ queue'[i] = queue[i]
          BY <3>1, <4>1 DEF NightOK, QueuedOK
        <5>2. q # p
          BY <2>7, <2>9, <4>1, <5>1
        <5>3. ~ Awaited(q)' /\ ~ Settled(products[q])' /\ queue'[i].related = Found(q)'
          BY <2>4, <2>5, <5>1 DEF EntryOK
        <5>4. \A j \in DOMAIN queue' : queue'[j].id = q => j = i
          BY <2>2, <3>1, <3>2, <5>1, <5>2 DEF EntryOK
        <5> QED
          BY <5>3, <5>4 DEF EntryOK
      <4>2. CASE i = Len(queue) + 1
        <5>1. queue'[i] = u /\ p \in untouched /\ q = p
          BY <2>2, <3>1, <4>2
        <5>2. ~ Awaited(p)' /\ ~ Settled(products[p])' /\ u.related = Found(p)'
          BY <2>4, <2>7, <2>9, <5>1
        <5>3. \A j \in DOMAIN queue' : queue'[j].id = p => j = i
          BY <2>7, <2>9, <3>1, <3>2, <4>2, <5>1
        <5> QED
          BY <2>2, <5>1, <5>2, <5>3 DEF EntryOK
      <4> QED
        BY <3>2, <4>1, <4>2
    <3> QED
      BY <2>6, <3>3, <3>4 DEF NightOK
  <2> QED
    <3>1. CASE Due(products[p], at) /\ products[p].related # u.related
      BY <2>3, <2>7, <2>9, <3>1 DEF Due, Settled, Found
    <3>2. CASE ~ (Due(products[p], at) /\ products[p].related # u.related)
      BY <2>3, <2>7, <2>8, <3>2 DEF Due, Settled, Found
    <3> QED
      BY <3>1, <3>2
<1>12. ASSUME CronWrite PROVE NightOK'
  <2>1. PICK u : u = Head(queue)
    OBVIOUS
  <2>2. 1 \in DOMAIN queue /\ u = queue[1] /\ u.id \in Existing /\ u.id \in Ids
    <3>1. 1 \in DOMAIN queue /\ u = queue[1]
      BY <1>t, <1>12, <2>1 DEF CronWrite
    <3> QED
      BY <3>1 DEF IInv, QueueOK, Existing
  <2>3. /\ cron = "write" /\ products' = [products EXCEPT ![u.id].related = u.related]
        /\ UNCHANGED <<profiles, untouched, cron, todo, at, left>>
    BY <1>12, <2>1 DEF CronWrite
  <2>4. /\ \A i \in DOMAIN queue' : i + 1 \in DOMAIN queue /\ queue'[i] = queue[i + 1] /\ i + 1 # 1
        /\ \A i \in DOMAIN queue : i = 1 \/ (i - 1 \in DOMAIN queue' /\ queue'[i - 1] = queue[i])
        /\ \A i, j \in DOMAIN queue' : i + 1 = j + 1 => i = j
    <3>1. queue' = Tail(queue) /\ queue # <<>>
      BY <1>12 DEF CronWrite
    <3>2. DOMAIN queue = 1..Len(queue) /\ Len(queue) \in Nat \ {0} /\ DOMAIN queue' = 1..(Len(queue) - 1)
      BY <1>t, <3>1
    <3>3. \A i \in 1..(Len(queue) - 1) : queue'[i] = queue[i + 1]
      BY <1>t, <3>1
    <3> QED
      BY <3>2, <3>3
  <2>5. PhaseOK' /\ ReadOK'
    BY <2>3 DEF NightOK, PhaseOK, ReadOK
  <2>6. \A q \in untouched : q # u.id =>
          /\ Awaited(q)' = Awaited(q) /\ Found(q)' = Found(q)
          /\ Settled(products[q])' = Settled(products[q])
    <3>1. \A q \in untouched : q # u.id => products'[q] = products[q]
      BY <1>t, <2>3 DEF Existing
    <3>2. \A c : Listed(c)' = Listed(c)
      BY <2>3 DEF Listed
    <3> QED
      BY <2>3, <3>1, <3>2 DEF Awaited, Found, Settled, Fitting
(* The product it writes has what it should have, and is out of the queue. *)
  <2>7. u.id \in untouched =>
          /\ Settled(products[u.id])'
          /\ \A i \in DOMAIN queue' : queue'[i].id # u.id
    <3> SUFFICES ASSUME u.id \in untouched
                 PROVE  /\ Settled(products[u.id])'
                        /\ \A i \in DOMAIN queue' : queue'[i].id # u.id
      OBVIOUS
    <3>1. EntryOK(1, u.id)
      BY <2>2 DEF NightOK, QueuedOK
    <3>2. /\ products'[u.id].related = u.related
          /\ products'[u.id].category = products[u.id].category
          /\ products'[u.id].answers = products[u.id].answers
      BY <1>t, <1>p, <2>2, <2>3 DEF Product
    <3>3. \A c : Listed(c)' = Listed(c)
      BY <2>3 DEF Listed
    <3>4. Settled(products[u.id])'
      BY <2>2, <3>1, <3>2, <3>3 DEF EntryOK, Found, Settled, Fitting
    <3>5. \A i \in DOMAIN queue' : queue'[i].id # u.id
      BY <2>4, <3>1 DEF EntryOK
    <3> QED
      BY <3>4, <3>5
  <2>8. OwedOK'
    <3> SUFFICES ASSUME NEW q \in untouched, q # u.id
                 PROVE  Settled(products[q])' \/ Awaited(q)' \/ \E i \in DOMAIN queue' : queue'[i].id = q
      BY <2>3, <2>7 DEF OwedOK
    <3>1. CASE Settled(products[q]) \/ Awaited(q)
      BY <2>6, <3>1
    <3>2. ASSUME NEW i \in DOMAIN queue, queue[i].id = q PROVE \E j \in DOMAIN queue' : queue'[j].id = q
      BY <2>2, <2>4, <3>2
    <3> QED
      BY <3>1, <3>2 DEF NightOK, OwedOK
  <2>9. QueuedOK'
    <3> SUFFICES ASSUME NEW i \in DOMAIN queue', NEW q \in untouched, queue'[i].id = q
                 PROVE  EntryOK(i, q)'
      BY <2>3 DEF QueuedOK
    <3>1. EntryOK(i + 1, q) /\ queue'[i] = queue[i + 1]
      BY <2>4 DEF NightOK, QueuedOK
    <3>2. q # u.id
      BY <2>7
    <3>3. \A j \in DOMAIN queue' : queue'[j].id = q => j = i
      BY <2>4, <3>1 DEF EntryOK
    <3> QED
      BY <2>6, <3>1, <3>2, <3>3 DEF EntryOK
  <2> QED
    BY <2>5, <2>8, <2>9 DEF NightOK
<1> QED
  BY <1>1, <1>2, <1>3, <1>4, <1>5, <1>6, <1>8, <1>9, <1>10, <1>11, <1>12 DEF Next, CronStep

LEMMA Inductive == Spec => [](IInv /\ NightOK)
<1> QED
  BY InitIInv, InitNightOK, IInvStep, NightStep, PTL DEF Spec

-----------------------------------------------------------------------------
(* Products, requests and what the task has collected keep their types,    *)
(* however it dies and whatever is edited under it.                        *)
THEOREM TypeCorrect == Spec => []TypeOK
<1>1. IInv => TypeOK
  BY DEF IInv
<1> QED
  BY <1>1, Inductive, PTL

(* After a night that is not cut short the products that no request has    *)
(* disturbed in it name the profiles that they should, however stale they  *)
(* were and however many categories, profiles and products there are.      *)
THEOREM NightsSettle == Spec => []NightSettles
<1>1. NightOK => NightSettles
  <2> SUFFICES ASSUME NightOK, cron = "write", queue = <<>>, NEW p \in untouched
               PROVE  Settled(products[p])
    BY DEF NightSettles
  <2>1. ~ Awaited(p) /\ DOMAIN queue = {}
    BY DEF NightOK, PhaseOK, Awaited
  <2> QED
    BY <2>1 DEF NightOK, OwedOK
<1> QED
  BY <1>1, Inductive, PTL

(* The task writes an undisturbed product only when that changes it, and   *)
(* once.                                                                   *)
THEOREM NothingWrittenForNothing == Spec => []NothingForNothing
<1>1. NightOK => NothingForNothing
  BY DEF NightOK, QueuedOK, EntryOK, NothingForNothing
<1> QED
  BY <1>1, Inductive, PTL
=============================================================================
