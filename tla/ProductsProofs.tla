--------------------------- MODULE ProductsProofs ---------------------------
(***************************************************************************)
(* Theorems about products on the market, for any products, vendors and    *)
(* requests, any clock, year and ban: types, that what a request closes    *)
(* stays closed, that only an expired product is off the market, that a    *)
(* vendor's product has one term, and that a night closes every product    *)
(* that had expired before it.                                             *)
(***************************************************************************)
EXTENDS Products, TLAPS

Ended(x) == x.expires # Nil /\ x.expires <= now

Working == {"vendor", "new", "ready"}

(* Nobody else has the _id that r is about to insert.                      *)
Fresh(r) == products[target[r]] = Nil /\ \A q \in Requests : target[q] = target[r] => q = r

(* A draft that matches does not reopen what a request has closed, nor give*)
(* a vendor's product another date while it is on the market.              *)
Continues(r) ==
  /\ target[r] \in closed => ~ Active(draft[r])
  /\ products[target[r]].vendor # Nil /\ Active(draft[r])
       => draft[r].expires = products[target[r]].expires

Follows(r) ==
  /\ products[target[r]] # Nil
  /\ draft[r].rev <= products[target[r]].rev
  /\ ~ Active(draft[r]) => Ended(draft[r]) \/ target[r] \in overtaken
  /\ Matches(r) => Continues(r)

DraftOK(r) ==
  pc[r] \in Working =>
    /\ target[r] \in Ids /\ draft[r] \in Product
    /\ IF pc[r] = "ready" THEN Follows(r) ELSE Fresh(r) /\ Active(draft[r])

(* The task's UpdateOne's: of products that have expired, unless a request *)
(* has given them another date since they were queued.                     *)
QueueOK == \A p \in queue \ overtaken : Ended(products[p])

(* The inductive invariant.                                                *)
IInv ==
  /\ TypeOK
  /\ ClosedByRequestIsFinal
  /\ ClosedHasExpired
  /\ QueueOK
  /\ \A r \in Requests : DraftOK(r)

-----------------------------------------------------------------------------
LEMMA ListingType ==
  ASSUME NEW v \in Vendors \cup {Nil}, NEW t \in Nat \cup {Nil}
  PROVE  Listing(v, t) \in Product /\ Active(Listing(v, t))
BY DEF Listing, Product, Active

LEMMA InitIInv == Init => IInv
<1> SUFFICES ASSUME Init PROVE IInv
  OBVIOUS
<1> USE TimeAssumption, NilAssumption
<1>1. ASSUME NEW p \in Existing PROVE products[p] \in Product /\ Active(products[p])
  <2>1. products[p] \in {Listing(Nil, t) : t \in Terms} \cup {Listing(v, Year) : v \in Vendors}
    BY DEF Init, Existing
  <2> QED
    BY <2>1, ListingType
<1>2. products \in [Ids -> Product \cup {Nil}]
  <2>1. products = [p \in Ids |-> products[p]]
    BY DEF Init
  <2> QED
    BY <1>1, <2>1 DEF Existing
<1>3. TypeOK
  BY <1>2 DEF Init, TypeOK
<1>4. ClosedByRequestIsFinal /\ ClosedHasExpired /\ QueueOK
  BY <1>1 DEF Init, ClosedByRequestIsFinal, ClosedHasExpired, QueueOK
<1>5. \A r \in Requests : DraftOK(r)
  BY DEF Init, DraftOK, Working
<1> QED
  BY <1>3, <1>4, <1>5 DEF IInv

(* What the invariant says of a stored product.                            *)
LEMMA StoredProduct ==
  ASSUME IInv, NEW p \in Existing
  PROVE  /\ p \in Ids /\ products[p] \in Product /\ products[p] # Nil
         /\ p \in closed => ~ Active(products[p])
         /\ ~ Active(products[p]) => Ended(products[p]) \/ p \in overtaken
         /\ p \in queue => Ended(products[p]) \/ p \in overtaken
BY NilAssumption DEF IInv, TypeOK, Existing, ClosedByRequestIsFinal, ClosedHasExpired, QueueOK, Ended

(* A date that has passed stays passed.                                    *)
LEMMA LaterEnded ==
  ASSUME TypeOK, now' \in {now, now + 1}, NEW x \in Product, Ended(x)
  PROVE  Ended(x)'
<1>1. now \in 0..MaxNow
  BY DEF TypeOK
<1>2. x.expires \in Nat /\ x.expires <= now
  BY DEF Ended, Product
<1>3. x.expires <= now'
  BY <1>1, <1>2, TimeAssumption
<1> QED
  BY <1>3 DEF Ended

(* A request's draft stays right while no product is written, whatever the *)
(* clock does, as long as nobody else takes its new _id.                   *)
LEMMA DraftKept ==
  ASSUME IInv, now' \in {now, now + 1}, UNCHANGED <<products, historyVars>>,
         NEW q \in Requests, pc'[q] = pc[q], target'[q] = target[q], draft'[q] = draft[q],
         Fresh(q) => \A p \in Requests : target'[p] = target[q] => p = q
  PROVE  DraftOK(q)'
<1> SUFFICES ASSUME pc[q] \in Working PROVE DraftOK(q)'
  BY DEF DraftOK
<1>1. DraftOK(q) /\ draft[q] \in Product /\ TypeOK
  BY DEF IInv, DraftOK
<1>2. Ended(draft[q]) => Ended(draft[q])'
  BY <1>1, LaterEnded DEF Ended
<1>3. Fresh(q) => Fresh(q)'
  BY DEF Fresh
<1>4. Follows(q) => Follows(q)'
  BY <1>2 DEF Follows, Matches, Continues, Active, historyVars
<1> QED
  BY <1>1, <1>3, <1>4 DEF DraftOK, Active

(* What is said of products and of the queue holds on as time goes by.     *)
LEMMA CollectionKept ==
  ASSUME IInv, TypeOK', now' \in {now, now + 1}, UNCHANGED <<products, historyVars>>,
         \A p \in queue' \ queue : p \in Existing /\ Ended(products[p])
  PROVE  ClosedByRequestIsFinal' /\ ClosedHasExpired' /\ QueueOK'
<1>1. ClosedByRequestIsFinal'
  BY DEF IInv, ClosedByRequestIsFinal, Active, historyVars
<1>2. ClosedHasExpired'
  <2> SUFFICES ASSUME NEW p \in Existing, p \notin overtaken, ~ Active(products[p])
               PROVE  Ended(products[p])'
    BY DEF ClosedHasExpired, Existing, Active, Ended, historyVars
  <2> QED
    BY StoredProduct, LaterEnded DEF IInv, Ended
<1>3. QueueOK'
  <2> SUFFICES ASSUME NEW p \in queue', p \notin overtaken PROVE Ended(products[p])'
    BY DEF QueueOK, historyVars
  <2>1. p \in Existing /\ Ended(products[p])
    BY DEF IInv, TypeOK, QueueOK
  <2> QED
    BY <2>1, StoredProduct, LaterEnded DEF IInv, Ended
<1> QED
  BY <1>1, <1>2, <1>3

(* A step that leaves products and requests alone: of the clock, a vendor  *)
(* or the task.                                                            *)
LEMMA IdleStep ==
  ASSUME IInv, TypeOK', now' \in {now, now + 1}, UNCHANGED <<products, historyVars, reqVars>>,
         \A p \in queue' \ queue : p \in Existing /\ Ended(products[p])
  PROVE  IInv'
<1>1. \A q \in Requests : DraftOK(q)'
  BY DraftKept DEF reqVars, Fresh
<1> QED
  BY <1>1, CollectionKept DEF IInv

(* A request that is answered without a write.                             *)
LEMMA AnswerStep ==
  ASSUME IInv, NEW r \in Requests, Answer(r, "failed"), UNCHANGED <<products, historyVars, owed>>
  PROVE  IInv'
<1> USE NilAssumption
<1>1. TypeOK'
  BY DEF IInv, TypeOK, Answer, cronVars, historyVars, Existing
<1>2. /\ pc'[r] = "failed" /\ target'[r] = Nil /\ now' = now /\ queue' = queue
      /\ \A q \in Requests \ {r} :
           pc'[q] = pc[q] /\ target'[q] = target[q] /\ draft'[q] = draft[q]
  BY DEF IInv, TypeOK, Answer, cronVars
<1>3. ASSUME NEW q \in Requests \ {r} PROVE DraftOK(q)'
  <2>1. pc[q] \in Working => target[q] # Nil
    BY DEF IInv, DraftOK
  <2>2. CASE pc[q] \in Working
    BY <1>2, <2>1, <2>2, DraftKept DEF Fresh
  <2>3. CASE pc[q] \notin Working
    BY <1>2, <2>3 DEF DraftOK
  <2> QED
    BY <2>2, <2>3
<1>4. DraftOK(r)'
  BY <1>2 DEF DraftOK, Working
<1> QED
  BY <1>1, <1>2, <1>3, <1>4, CollectionKept DEF IInv

(* A request that prepares the document x for the product p.               *)
LEMMA PrepareStep ==
  ASSUME IInv, NEW r \in Requests, NEW p \in Ids, NEW x \in Product, NEW s \in Working,
         Prepare(r, p, x, s), UNCHANGED historyVars, seen' \in [Requests -> Nat \cup {Nil}],
         IF s = "ready"
         THEN /\ products[p] # Nil /\ x.rev <= products[p].rev
              /\ ~ Active(x) => Ended(x) \/ p \in overtaken
              /\ x.rev = products[p].rev =>
                   /\ p \in closed => ~ Active(x)
                   /\ products[p].vendor # Nil /\ Active(x) => x.expires = products[p].expires
         ELSE Active(x) /\ products[p] = Nil /\ \A q \in Requests \ {r} : target[q] # p
  PROVE  IInv'
<1> USE NilAssumption
<1>1. TypeOK'
  BY DEF IInv, TypeOK, Prepare, cronVars, historyVars, Existing, Working
<1>2. /\ pc'[r] = s /\ target'[r] = p /\ draft'[r] = x
      /\ now' = now /\ queue' = queue /\ products' = products
      /\ \A q \in Requests \ {r} :
           pc'[q] = pc[q] /\ target'[q] = target[q] /\ draft'[q] = draft[q]
  BY DEF IInv, TypeOK, Prepare, cronVars
<1>3. ASSUME NEW q \in Requests \ {r} PROVE DraftOK(q)'
  <2>1. Fresh(q) => \A u \in Requests : target'[u] = target[q] => u = q
    BY <1>2 DEF Fresh
  <2> QED
    BY <1>2, <2>1, DraftKept
<1>4. DraftOK(r)'
  <2>1. CASE s = "ready"
    <3>1. Follows(r)'
      BY <1>2, <2>1 DEF Follows, Matches, Continues, Active, Ended, historyVars
    <3> QED
      BY <1>2, <2>1, <3>1 DEF DraftOK
  <2>2. CASE s # "ready"
    <3>1. Fresh(r)' /\ Active(draft[r])'
      BY <1>2, <2>2 DEF Fresh, Active
    <3> QED
      BY <1>2, <2>2, <3>1 DEF DraftOK
  <2> QED
    BY <2>1, <2>2
<1> QED
  BY <1>1, <1>2, <1>3, <1>4, CollectionKept DEF IInv

(* A request that stores x under t: an _id of its own, or a higher revision*)
(* than the stored one, which no draft prepared before can match.          *)
LEMMA StoreStep ==
  ASSUME IInv, NEW r \in Requests, NEW t \in Ids, t = target[r], NEW x \in Product,
         products' = [products EXCEPT ![t] = x], Answer(r, "ok"), owed' \subseteq owed,
         closed' = IF Active(x) THEN closed ELSE closed \cup {t},
         overtaken' = IF t \in queue THEN overtaken \cup {t} ELSE overtaken,
         ~ Active(x) => Ended(x) \/ t \in overtaken, Active(x) => t \notin closed,
         \/ pc[r] = "new" /\ Fresh(r)
         \/ pc[r] = "ready" /\ products[t] # Nil /\ x.rev > products[t].rev
  PROVE  IInv'
<1> USE NilAssumption
<1>1. TypeOK /\ products'[t] = x /\ x # Nil /\ \A p \in Ids \ {t} : products'[p] = products[p]
  BY DEF IInv, TypeOK
<1>2. /\ pc'[r] = "ok" /\ target'[r] = Nil /\ now' = now /\ queue' = queue
      /\ \A q \in Requests \ {r} :
           pc'[q] = pc[q] /\ target'[q] = target[q] /\ draft'[q] = draft[q]
  BY <1>1 DEF TypeOK, Answer, cronVars
<1>3. Existing \cup {t} = Existing'
  BY <1>1 DEF Existing
<1>4. TypeOK'
  <2>1. products' \in [Ids -> Product \cup {Nil}]
    BY <1>1 DEF TypeOK
  <2>2. closed' \in SUBSET Existing' /\ overtaken' \in SUBSET Existing'
    BY <1>1, <1>3 DEF TypeOK
  <2>3. left' \in SUBSET Existing' /\ queue' \in SUBSET Existing' /\ owed' \in SUBSET Existing'
    BY <1>1, <1>3 DEF TypeOK, Answer, cronVars
  <2> QED
    BY <1>1, <2>1, <2>2, <2>3 DEF TypeOK, Answer, cronVars
<1>5. ASSUME NEW p \in Existing'
      PROVE  /\ p \in closed' => ~ Active(products'[p])
             /\ ~ Active(products'[p]) => Ended(products'[p]) \/ p \in overtaken'
             /\ p \in queue' => Ended(products'[p]) \/ p \in overtaken'
  <2>1. CASE p = t
    BY <1>1, <1>2, <2>1
  <2>2. CASE p # t
    <3>1. p \in Existing /\ products'[p] = products[p]
      BY <1>1, <1>3, <2>2 DEF Existing
    <3> QED
      BY <1>2, <2>2, <3>1, StoredProduct
  <2> QED
    BY <2>1, <2>2
<1>6. ClosedByRequestIsFinal' /\ ClosedHasExpired' /\ QueueOK'
  <2>1. closed' \subseteq Existing' /\ queue' \subseteq Existing'
    BY <1>4 DEF TypeOK
  <2> QED
    BY <1>2, <1>5, <2>1 DEF ClosedByRequestIsFinal, ClosedHasExpired, QueueOK, Active, Ended
<1>7. ASSUME NEW q \in Requests \ {r}, pc[q] \in Working PROVE DraftOK(q)'
  <2>1. /\ target[q] \in Ids /\ draft[q] \in Product
        /\ IF pc[q] = "ready" THEN Follows(q) ELSE Fresh(q) /\ Active(draft[q])
    BY <1>7 DEF IInv, DraftOK
  <2>2. Fresh(q) => Fresh(q)'
    BY <1>1, <1>2, <2>1 DEF Fresh
  <2>3. ASSUME Follows(q) PROVE Follows(q)'
    <3>1. ~ Active(draft[q]) => Ended(draft[q])' \/ target[q] \in overtaken'
      BY <1>2, <2>3 DEF Follows, Ended
    <3>2. CASE target[q] = t
      <4>1. products[t] # Nil /\ x.rev > products[t].rev
        BY <2>3, <3>2 DEF Follows, Fresh
      <4>2. draft[q].rev < x.rev /\ draft[q].rev <= x.rev
        <5>1. products[t].rev \in Nat /\ x.rev \in Nat /\ draft[q].rev \in Nat
          BY <1>1, <2>1, <4>1 DEF TypeOK, Product
        <5> QED
          BY <2>3, <3>2, <4>1, <5>1 DEF Follows
      <4>3. ~ Matches(q)'
        <5>1. x.rev \in Nat /\ draft[q].rev \in Nat
          BY <2>1 DEF Product
        <5>2. products'[target'[q]].rev = x.rev /\ draft'[q].rev = draft[q].rev
          BY <1>1, <1>2, <3>2
        <5>3. x.rev # draft[q].rev
          BY <4>2, <5>1
        <5> QED
          BY <5>2, <5>3 DEF Matches
      <4>4. products'[target'[q]] = x /\ target'[q] = target[q] /\ draft'[q] = draft[q]
        BY <1>1, <1>2, <3>2
      <4> QED
        BY <1>1, <3>1, <4>2, <4>3, <4>4 DEF Follows, Active
    <3>3. CASE target[q] # t
      <4>1. products'[target[q]] = products[target[q]] /\ (target[q] \in closed' <=> target[q] \in closed)
        BY <1>1, <2>1, <3>3
      <4> QED
        BY <1>2, <2>3, <3>1, <3>3, <4>1 DEF Follows, Matches, Continues, Active, Ended
    <3> QED
      BY <3>2, <3>3
  <2> QED
    BY <1>2, <2>1, <2>2, <2>3 DEF DraftOK, Active
<1>8. \A q \in Requests : DraftOK(q)'
  BY <1>2, <1>7 DEF DraftOK, Working
<1> QED
  BY <1>4, <1>6, <1>8 DEF IInv

(* The 31st of March of next year is a date.                               *)
LEMMA EndOfSeasonNat == ASSUME TypeOK PROVE EndOfSeason \in Nat
<1>1. now \in Nat /\ Year \in Nat \ {0}
  BY TimeAssumption DEF TypeOK
<1>2. now \div Year \in Nat
  BY <1>1
<1>3. \A a, b \in Nat : a * b \in Nat
  OBVIOUS
<1>4. now \div Year + 1 \in Nat
  BY <1>2
<1> QED
  BY <1>1, <1>3, <1>4 DEF EndOfSeason

(* A PATCH that read the active product p keeps its revision, closes it as *)
(* of now, and does not move the term of a vendor's product.               *)
LEMMA PatchedType ==
  ASSUME TypeOK, NEW y \in Product, Active(y), NEW x \in Patched(y)
  PROVE  /\ x \in Product /\ x.rev = y.rev /\ x.vendor = y.vendor
         /\ ~ Active(x) => Ended(x)
         /\ y.vendor # Nil /\ Active(x) => x.expires = y.expires
<1>1. now \in Nat /\ now <= now /\ now # Nil /\ Dates \ {Nil} \subseteq Nat
  <2>1. now \in 0..MaxNow
    BY DEF TypeOK
  <2>2. now \in Nat /\ now <= now
    BY <2>1, TimeAssumption
  <2>3. Dates \ {Nil} \subseteq Nat
    BY TimeAssumption DEF Dates
  <2> QED
    BY <2>2, <2>3, NilAssumption
<1>2. \/ x = y
      \/ \E s \in {"inactive", "hidden"} : x = [y EXCEPT !.status = s, !.expires = now]
      \/ y.vendor = Nil /\ \E t \in Dates \ {Nil} : x = [y EXCEPT !.expires = t]
  BY DEF Patched
<1>3. CASE \E s \in {"inactive", "hidden"} : x = [y EXCEPT !.status = s, !.expires = now]
  <2>1. PICK s \in {"inactive", "hidden"} : x = [y EXCEPT !.status = s, !.expires = now]
    BY <1>3
  <2>2. /\ x \in Product /\ x.rev = y.rev /\ x.vendor = y.vendor
        /\ x.status = s /\ x.expires = now
    BY <1>1, <2>1 DEF Product
  <2> QED
    BY <1>1, <2>2 DEF Active, Ended
<1>4. CASE y.vendor = Nil /\ \E t \in Dates \ {Nil} : x = [y EXCEPT !.expires = t]
  <2>1. PICK t \in Dates \ {Nil} : x = [y EXCEPT !.expires = t]
    BY <1>4
  <2>2. /\ x \in Product /\ x.rev = y.rev /\ x.vendor = y.vendor /\ x.status = y.status
    BY <1>1, <2>1 DEF Product
  <2> QED
    BY <1>4, <2>2 DEF Active
<1> QED
  BY <1>2, <1>3, <1>4

(* The task's UpdateOne changes nothing but a status, of a product that has*)
(* expired or that a request has written since.                            *)
LEMMA CronWriteStep ==
  ASSUME IInv, NEW p \in Ids, CronWrite(p)
  PROVE  IInv'
<1> USE NilAssumption
<1> DEFINE x == [products[p] EXCEPT !.status = "inactive"]
<1>1. /\ p \in Existing /\ p \in queue /\ TypeOK
      /\ products[p] \in Product /\ products[p] # Nil
      /\ Ended(products[p]) \/ p \in overtaken
  BY StoredProduct DEF IInv, TypeOK, CronWrite
<1>2. /\ x \in Product /\ x # Nil /\ ~ Active(x) /\ x.vendor = products[p].vendor
      /\ x.expires = products[p].expires /\ x.rev = products[p].rev
  BY <1>1 DEF Product, Active
<1>3. products' = [products EXCEPT ![p] = x]
  BY DEF CronWrite
<1> HIDE DEF x
<1>4. /\ products'[p] = x
      /\ \A q \in Ids \ {p} : products'[q] = products[q]
      /\ products' \in [Ids -> Product \cup {Nil}]
  BY <1>1, <1>2, <1>3 DEF TypeOK
<1>5. Existing' = Existing
  BY <1>1, <1>2, <1>4 DEF Existing
<1>6. /\ queue' = queue \ {p} /\ now' = now /\ closed' = closed /\ overtaken' = overtaken
      /\ pc' = pc /\ target' = target /\ draft' = draft
  BY DEF CronWrite, reqVars, historyVars
<1>7. TypeOK'
  BY <1>1, <1>4, <1>5 DEF TypeOK, CronWrite, reqVars, historyVars
<1>8. ClosedByRequestIsFinal' /\ ClosedHasExpired' /\ QueueOK'
  <2>1. ASSUME NEW q \in Existing
        PROVE  /\ q \in closed => ~ Active(products'[q])
               /\ ~ Active(products'[q]) => Ended(products'[q]) \/ q \in overtaken
               /\ q \in queue => Ended(products'[q]) \/ q \in overtaken
    <3>1. CASE q = p
      BY <1>1, <1>2, <1>4, <3>1 DEF Ended
    <3>2. CASE q # p
      <4>1. products'[q] = products[q]
        BY <1>4, <3>2 DEF Existing
      <4> QED
        BY <4>1, StoredProduct
    <3> QED
      BY <3>1, <3>2
  <2>2. closed \subseteq Existing /\ queue \subseteq Existing
    BY <1>1 DEF TypeOK
  <2> QED
    BY <1>5, <1>6, <2>1, <2>2 DEF ClosedByRequestIsFinal, ClosedHasExpired, QueueOK, Active, Ended
<1>9. ASSUME NEW q \in Requests, pc[q] \in Working PROVE DraftOK(q)'
  <2>1. /\ target[q] \in Ids /\ draft[q] \in Product
        /\ IF pc[q] = "ready" THEN Follows(q) ELSE Fresh(q) /\ Active(draft[q])
    BY <1>9 DEF IInv, DraftOK
  <2>2. Fresh(q) => Fresh(q)'
    BY <1>1, <1>4, <1>6, <2>1 DEF Fresh
  <2>3. Follows(q) => Follows(q)'
    <3>1. CASE target[q] = p
      <4>1. products'[target'[q]] = x /\ target'[q] = p /\ draft'[q] = draft[q]
        BY <1>4, <1>6, <3>1
      <4> QED
        BY <1>1, <1>2, <1>6, <3>1, <4>1 DEF Follows, Matches, Continues, Active, Ended
    <3>2. CASE target[q] # p
      <4>1. products'[target'[q]] = products[target[q]] /\ target'[q] = target[q] /\ draft'[q] = draft[q]
        BY <1>4, <1>6, <2>1, <3>2
      <4> QED
        BY <1>6, <4>1 DEF Follows, Matches, Continues, Active, Ended
    <3> QED
      BY <3>1, <3>2
  <2> QED
    BY <1>6, <2>1, <2>2, <2>3 DEF DraftOK, Active
<1>10. \A q \in Requests : DraftOK(q)'
  BY <1>6, <1>9 DEF DraftOK
<1> QED
  BY <1>7, <1>8, <1>10 DEF IInv

LEMMA IInvStep == IInv /\ [Next]_vars => IInv'
<1> SUFFICES ASSUME IInv, [Next]_vars PROVE IInv'
  OBVIOUS
<1> USE NilAssumption
<1>1. /\ TypeOK
      /\ products \in [Ids -> Product \cup {Nil}]
      /\ left \subseteq Existing /\ queue \subseteq Existing /\ now \in 0..MaxNow
  BY DEF IInv, TypeOK
<1>2. CASE Tick
  <2>1. now + 1 \in 0..MaxNow
    BY <1>1, <1>2, TimeAssumption DEF Tick
  <2>2. TypeOK'
    BY <1>1, <1>2, <2>1 DEF TypeOK, Tick, reqVars, cronVars, historyVars, Existing
  <2> QED
    BY <1>2, <2>2, IdleStep DEF Tick, cronVars
<1>3. ASSUME NEW v \in Vendors, Ban(v) PROVE IInv'
  <2>1. now + BanPeriod \in Nat
    BY <1>1, TimeAssumption
  <2>2. TypeOK'
    BY <1>1, <1>3, <2>1 DEF TypeOK, Ban, reqVars, cronVars, historyVars, Existing
  <2> QED
    BY <1>3, <2>2, IdleStep DEF Ban, cronVars
<1>4. ASSUME NEW r \in Requests, VendorCheck(r) PROVE IInv'
  <2>1. /\ target[r] \in Ids /\ draft[r] \in Product /\ Active(draft[r])
        /\ products[target[r]] = Nil /\ \A q \in Requests \ {r} : target[q] # target[r]
    BY <1>4 DEF IInv, DraftOK, Working, VendorCheck, Fresh
  <2>2. PICK t \in Ids, x \in Product : t = target[r] /\ x = draft[r]
    BY <2>1
  <2>3. Prepare(r, t, x, "new") /\ seen' = seen /\ UNCHANGED historyVars
    BY <1>4, <2>2 DEF VendorCheck
  <2> QED
    BY <1>1, <2>1, <2>2, <2>3, PrepareStep DEF Working, TypeOK
<1>5. ASSUME NEW r \in Requests, VendorRefuse(r) \/ Reject(r) \/ Conflict(r) PROVE IInv'
  BY <1>5, AnswerStep DEF VendorRefuse, Reject, Conflict
<1>6. ASSUME NEW r \in Requests, CreateInsert(r) PROVE IInv'
  <2>1. target[r] \in Ids /\ draft[r] \in Product /\ Active(draft[r]) /\ Fresh(r)
    BY <1>6 DEF IInv, DraftOK, Working, CreateInsert
  <2>2. PICK t \in Ids, x \in Product : t = target[r] /\ x = draft[r]
    BY <2>1
  <2>3. t \notin queue /\ t \notin closed
    BY <1>1, <2>1, <2>2 DEF Fresh, Existing, TypeOK
  <2>4. /\ products' = [products EXCEPT ![t] = x] /\ Answer(r, "ok") /\ pc[r] = "new"
        /\ closed' = closed /\ overtaken' = overtaken /\ owed' \subseteq owed
    BY <1>6, <2>2 DEF CreateInsert, historyVars
  <2> QED
    BY <2>1, <2>2, <2>3, <2>4, StoreStep
<1>7. ASSUME NEW r \in Requests, Replace(r) PROVE IInv'
  <2>1. target[r] \in Ids /\ draft[r] \in Product /\ Follows(r) /\ Continues(r)
    BY <1>7 DEF IInv, DraftOK, Working, Replace, Follows
  <2>2. PICK t \in Ids : t = target[r]
    BY <2>1
  <2> DEFINE x == [draft[r] EXCEPT !.rev = @ + 1]
  <2>3. /\ x \in Product /\ x.rev = draft[r].rev + 1 /\ x.rev > draft[r].rev
        /\ x.status = draft[r].status /\ x.expires = draft[r].expires
    BY <2>1 DEF Product
  <2>4. /\ products' = [products EXCEPT ![t] = x] /\ Answer(r, "ok") /\ pc[r] = "ready"
        /\ closed' = IF Active(draft[r]) THEN closed ELSE closed \cup {t}
        /\ overtaken' = IF t \in queue THEN overtaken \cup {t} ELSE overtaken
        /\ products[t].rev = draft[r].rev /\ owed' \subseteq owed
    BY <1>7, <2>2 DEF Replace, Matches
  <2> HIDE DEF x
  <2>5. /\ closed' = IF Active(x) THEN closed ELSE closed \cup {t}
        /\ ~ Active(x) => Ended(x) \/ t \in overtaken
        /\ Active(x) => t \notin closed
        /\ products[t] # Nil /\ x.rev > products[t].rev
    BY <2>1, <2>2, <2>3, <2>4 DEF Follows, Continues, Active, Ended
  <2> QED
    BY <2>2, <2>3, <2>4, <2>5, StoreStep
<1>8. ASSUME NEW r \in Requests, NEW p \in Ids, PatchRead(r, p) PROVE IInv'
  <2>1. PICK x \in Patched(products[p]) : Prepare(r, p, x, "ready")
    BY <1>8 DEF PatchRead
  <2>2. /\ p \in Existing /\ Active(products[p]) /\ products[p] \in Product
        /\ products[p] # Nil /\ p \notin closed
    BY <1>8, StoredProduct DEF PatchRead
  <2>3. /\ x \in Product /\ x.rev = products[p].rev
        /\ ~ Active(x) => Ended(x)
        /\ products[p].vendor # Nil /\ Active(x) => x.expires = products[p].expires
    BY <1>1, <2>2, PatchedType
  <2>4. x.rev <= products[p].rev
    BY <2>2, <2>3 DEF Product
  <2>5. seen' \in [Requests -> Nat \cup {Nil}] /\ UNCHANGED historyVars
    BY <1>1, <1>8 DEF PatchRead, TypeOK
  <2> QED
    BY <2>1, <2>2, <2>3, <2>4, <2>5, PrepareStep DEF Working
<1>9. ASSUME NEW r \in Requests, NEW p \in Ids, PatchRefuse(r, p) PROVE IInv'
  BY <1>9, AnswerStep DEF PatchRefuse
<1>10. ASSUME NEW r \in Requests, NEW p \in Ids, UploadRead(r, p) PROVE IInv'
  <2>1. p \in Existing
    BY <1>10 DEF UploadRead
  <2>2. PICK x \in Product : x = products[p]
    BY <2>1, StoredProduct
  <2>3. /\ products[p] # Nil /\ x.rev <= products[p].rev
        /\ p \in closed => ~ Active(x)
        /\ ~ Active(x) => Ended(x) \/ p \in overtaken
    BY <2>1, <2>2, StoredProduct DEF Product
  <2>4. Prepare(r, p, x, "ready") /\ seen' \in [Requests -> Nat \cup {Nil}] /\ UNCHANGED historyVars
    BY <1>1, <1>10, <2>2 DEF UploadRead, TypeOK
  <2> QED
    BY <2>2, <2>3, <2>4, PrepareStep DEF Working
<1>11. ASSUME NEW r \in Requests, NEW p \in Ids, NEW t \in Dates, CreateCheck(r, p, t) PROVE IInv'
  <2>1. PICK x \in Product : x = Listing(Nil, t) /\ Active(x)
    BY TimeAssumption, ListingType DEF Dates
  <2>2. /\ Prepare(r, p, x, "new") /\ UNCHANGED historyVars
        /\ seen' \in [Requests -> Nat \cup {Nil}]
        /\ products[p] = Nil /\ \A q \in Requests \ {r} : target[q] # p
    BY <1>1, <1>11, <2>1 DEF CreateCheck, Unused, TypeOK
  <2> QED
    BY <2>1, <2>2, PrepareStep DEF Working
<1>12. ASSUME NEW r \in Requests, NEW p \in Ids, NEW v \in Vendors, VendorRead(r, p, v) PROVE IInv'
  <2>1. PICK x \in Product : x = Listing(v, EndOfSeason) /\ Active(x)
    BY <1>1, EndOfSeasonNat, ListingType
  <2>2. /\ Prepare(r, p, x, "vendor") /\ UNCHANGED historyVars
        /\ seen' \in [Requests -> Nat \cup {Nil}]
        /\ products[p] = Nil /\ \A q \in Requests \ {r} : target[q] # p
    BY <1>1, <1>12, <2>1 DEF VendorRead, Unused, TypeOK
  <2> QED
    BY <2>1, <2>2, PrepareStep DEF Working
<1>13. CASE CronStart \/ CronEndScan \/ CronEnd \/ CronDie
  <2>1. TypeOK'
    BY <1>1, <1>13, TimeAssumption
       DEF TypeOK, CronStart, CronEndScan, CronEnd, CronDie, reqVars, historyVars, Existing
  <2> QED
    BY <1>13, <2>1, IdleStep DEF CronStart, CronEndScan, CronEnd, CronDie
<1>14. ASSUME NEW p \in Ids, CronVisit(p) PROVE IInv'
  <2>1. TypeOK'
    BY <1>1, <1>14 DEF TypeOK, CronVisit, reqVars, historyVars, Existing
  <2>2. p \in Existing /\ products[p] \in Product
    BY <1>1, <1>14, StoredProduct DEF CronVisit
  <2>3. Expired(products[p]) => Ended(products[p])
    BY <1>1, <2>2, TimeAssumption DEF Expired, Ended, Product
  <2> QED
    BY <1>14, <2>1, <2>2, <2>3, IdleStep DEF CronVisit
<1>15. ASSUME NEW p \in Ids, CronWrite(p) PROVE IInv'
  BY <1>15, CronWriteStep
<1>16. CASE UNCHANGED vars
  <2>1. TypeOK'
    BY <1>1, <1>16 DEF TypeOK, vars, reqVars, cronVars, historyVars, Existing
  <2> QED
    BY <1>16, <2>1, IdleStep DEF vars, cronVars
<1> QED
  BY <1>2, <1>3, <1>4, <1>5, <1>6, <1>7, <1>8, <1>9, <1>10, <1>11, <1>12, <1>13, <1>14, <1>15,
     <1>16 DEF Next

-----------------------------------------------------------------------------
(* Where the task is with a product that had expired when it began: it has *)
(* been closed, or is still to be written, or still to be read; and it has *)
(* still expired.                                                          *)
NightOK ==
  \A p \in owed :
    \/ ~ Active(products[p])
    \/ Expired(products[p]) /\ (p \in queue \/ (cron = "scan" /\ p \in left))

LEMMA InitNightOK == Init => NightOK
BY DEF Init, NightOK

(* A step of a request, of a vendor or of the clock.                       *)
LEMMA OthersKeepNight ==
  ASSUME IInv, NightOK, now' \in {now, now + 1}, UNCHANGED cronVars, owed' \subseteq owed,
         \A p \in owed' : products'[p] = products[p]
  PROVE  NightOK'
<1>1. ASSUME NEW p \in owed', Expired(products[p]) PROVE products[p].expires < now'
  <2>1. products[p] \in Product /\ now \in Nat
    BY NilAssumption, TimeAssumption DEF IInv, TypeOK, Existing
  <2>2. products[p].expires \in Nat /\ products[p].expires < now
    BY <1>1, <2>1 DEF Expired, Product
  <2> QED
    BY <2>1, <2>2
<1> QED
  BY <1>1 DEF NightOK, Expired, Active, cronVars

LEMMA NightStep == IInv /\ NightOK /\ [Next]_vars => NightOK'
<1> SUFFICES ASSUME IInv, NightOK, [Next]_vars PROVE NightOK'
  OBVIOUS
<1> USE NilAssumption
<1>1. /\ products \in [Ids -> Product \cup {Nil}] /\ owed \subseteq Existing
      /\ \A p \in Existing : p \in Ids /\ products[p] \in Product /\ products[p] # Nil
  BY DEF IInv, TypeOK, Existing
<1>2. CASE UNCHANGED <<products, owed, cronVars>> /\ now' \in {now, now + 1}
  BY <1>2, OthersKeepNight
<1>3. ASSUME NEW r \in Requests, CreateInsert(r) PROVE NightOK'
  <2>1. products[target[r]] = Nil
    BY <1>3 DEF CreateInsert, IInv, DraftOK, Working, Fresh
  <2>2. \A p \in owed : products'[p] = products[p]
    BY <1>1, <1>3, <2>1 DEF CreateInsert
  <2> QED
    BY <1>3, <2>2, OthersKeepNight DEF CreateInsert, Answer
<1>4. ASSUME NEW r \in Requests, Replace(r) PROVE NightOK'
  <2>1. \A p \in owed' : products'[p] = products[p]
    BY <1>1, <1>4 DEF Replace
  <2> QED
    BY <1>4, <2>1, OthersKeepNight DEF Replace, Answer
<1>5. CASE CronStart
  BY <1>5 DEF CronStart, NightOK, Expired, Active
<1>6. ASSUME NEW p \in Ids, CronVisit(p) PROVE NightOK'
  BY <1>6 DEF CronVisit, NightOK, Expired, Active
<1>7. CASE CronEndScan
  BY <1>7 DEF CronEndScan, NightOK, Expired, Active
<1>8. ASSUME NEW p \in Ids, CronWrite(p) PROVE NightOK'
  <2>1. /\ cron = "write" /\ queue' = queue \ {p} /\ UNCHANGED <<now, cron, left, owed>>
        /\ products' = [products EXCEPT ![p].status = "inactive"]
    BY <1>8 DEF CronWrite
  <2> SUFFICES ASSUME NEW q \in owed
               PROVE  ~ Active(products'[q]) \/ (Expired(products[q])' /\ q \in queue')
    BY <2>1 DEF NightOK, Active, Expired
  <2>2. CASE q = p
    <3>1. products'[p].status = "inactive"
      BY <1>1, <2>1, <2>2 DEF Product
    <3> QED
      BY <2>2, <3>1 DEF Active
  <2>3. CASE q # p
    <3>1. products'[q] = products[q]
      BY <1>1, <2>1, <2>3
    <3> QED
      BY <2>1, <2>3, <3>1 DEF NightOK, Expired, Active
  <2> QED
    BY <2>2, <2>3
<1>9. CASE CronEnd \/ CronDie
  BY <1>9 DEF CronEnd, CronDie, NightOK
<1> QED
  BY <1>2, <1>3, <1>4, <1>5, <1>6, <1>7, <1>8, <1>9
  DEF Next, vars, Tick, Ban, VendorCheck, VendorRefuse, Reject, Conflict, PatchRead, PatchRefuse,
      UploadRead, CreateCheck, VendorRead, Prepare, Answer

LEMMA Inductive == Spec => [](IInv /\ NightOK)
<1> QED
  BY InitIInv, InitNightOK, IInvStep, NightStep, PTL DEF Spec

-----------------------------------------------------------------------------
(* Type correctness.                                                       *)
THEOREM TypeCorrect == Spec => []TypeOK
<1>1. IInv => TypeOK
  BY DEF IInv
<1> QED
  BY <1>1, Inductive, PTL

(* A product closed by a request does not return to the market.            *)
THEOREM ClosedFinalTheorem == Spec => []ClosedByRequestIsFinal
<1>1. IInv => ClosedByRequestIsFinal
  BY DEF IInv
<1> QED
  BY <1>1, Inductive, PTL

(* A product off the market has expired, unless a request gave it another  *)
(* date after the nightly task had queued it.                              *)
THEOREM ClosedHasExpiredTheorem == Spec => []ClosedHasExpired
<1>1. IInv => ClosedHasExpired
  BY DEF IInv
<1> QED
  BY <1>1, Inductive, PTL

(* A night that is not cut short closes every product that had expired     *)
(* before it, of however many, unless a request wrote it in between.       *)
THEOREM NightClosesTheorem == Spec => []NightClosesExpired
<1>1. NightOK => NightClosesExpired
  BY DEF NightOK, NightClosesExpired
<1> QED
  BY <1>1, Inductive, PTL

(* Only Replace and the task write a stored product, and neither gives a   *)
(* vendor's product another date while it is on the market.                *)
LEMMA ProductStep ==
  ASSUME IInv, [Next]_vars, NEW p \in Existing, products[p].vendor # Nil
  PROVE  /\ products'[p] # Nil
         /\ Active(products'[p]) => products'[p].expires = products[p].expires
<1> USE NilAssumption
<1>1. products \in [Ids -> Product \cup {Nil}] /\ p \in Ids /\ products[p] # Nil
  BY DEF IInv, TypeOK, Existing
<1>2. CASE products'[p] = products[p]
  BY <1>1, <1>2
<1>3. ASSUME NEW r \in Requests, CreateInsert(r) PROVE products'[p] = products[p]
  <2>1. target[r] # p
    BY <1>1, <1>3 DEF IInv, DraftOK, Working, CreateInsert, Fresh
  <2> QED
    BY <1>1, <1>3, <2>1 DEF CreateInsert
<1>4. ASSUME NEW r \in Requests, Replace(r), target[r] = p
      PROVE  /\ products'[p] # Nil
             /\ Active(products'[p]) => products'[p].expires = products[p].expires
  <2>1. draft[r] \in Product /\ Continues(r)
    BY <1>4 DEF IInv, DraftOK, Working, Replace, Follows
  <2>2. products'[p] = [draft[r] EXCEPT !.rev = @ + 1]
    BY <1>1, <1>4 DEF Replace
  <2>3. products'[p] \in Product /\ products'[p].status = draft[r].status
        /\ products'[p].expires = draft[r].expires
    BY <2>1, <2>2 DEF Product
  <2> QED
    BY <1>4, <2>1, <2>3 DEF Continues, Active
<1>5. ASSUME NEW r \in Requests, Replace(r), target[r] # p PROVE products'[p] = products[p]
  BY <1>1, <1>5 DEF Replace
<1>6. ASSUME NEW q \in Ids, CronWrite(q)
      PROVE  products'[p] = products[p] \/ (products'[p] # Nil /\ ~ Active(products'[p]))
  <2>1. CASE q = p
    <3>1. products'[p] = [products[p] EXCEPT !.status = "inactive"]
      BY <1>1, <1>6, <2>1 DEF CronWrite
    <3>2. products'[p] \in Product /\ products'[p].status = "inactive"
      BY <1>1, <3>1 DEF Product
    <3> QED
      BY <3>2 DEF Active
  <2>2. CASE q # p
    <3>1. products' = [products EXCEPT ![q].status = "inactive"]
      BY <1>6 DEF CronWrite
    <3>2. products'[p] = products[p]
      BY <1>1, <2>2, <3>1
    <3> QED
      BY <3>2
  <2> QED
    BY <2>1, <2>2
<1>7. \/ products' = products
      \/ \E r \in Requests : CreateInsert(r) \/ Replace(r)
      \/ \E q \in Ids : CronWrite(q)
  BY DEF Next, vars, Tick, Ban, VendorCheck, VendorRefuse, Reject, Conflict, PatchRead, PatchRefuse,
         UploadRead, CreateCheck, VendorRead, Prepare, CronStart, CronEndScan, CronEnd, CronDie,
         CronVisit
<1> QED
  BY <1>2, <1>3, <1>4, <1>5, <1>6, <1>7

(* A vendor's product has one term while it is on the market.              *)
THEOREM VendorTermTheorem == Spec => VendorTermKept
<1>1. IInv /\ [Next]_vars =>
        [\A p \in Existing :
           products[p].vendor # Nil
           => /\ products'[p] # Nil
              /\ Active(products'[p]) => products'[p].expires = products[p].expires]_vars
  BY ProductStep
<1> QED
  BY <1>1, Inductive, PTL DEF Spec, VendorTermKept
=============================================================================
