--------------------------- MODULE CatalogueProofs ---------------------------
(***************************************************************************)
(* Theorems about a category, its profiles and its products, for any       *)
(* criteria, requests and agreements: types, that documents' criteria are  *)
(* well formed, that what a profile asks its category accepts, that an     *)
(* archived requirement gets no new answers, and that profiles follow the  *)
(* agreement of their category.                                            *)
(***************************************************************************)
EXTENDS Catalogue, TLAPS

-----------------------------------------------------------------------------
(* Trees of criteria.                                                      *)

Place(tree, c, g, q) ==
  /\ c \in DOMAIN tree
  /\ g \in DOMAIN tree[c].groups
  /\ q \in DOMAIN tree[c].groups[g]

LEMMA SlotsAre ==
  ASSUME NEW tree
  PROVE  /\ \A s \in Slots(tree) : \E c, g, q : Place(tree, c, g, q) /\ s = <<c, g, q>>
         /\ \A c, g, q : Place(tree, c, g, q) => <<c, g, q>> \in Slots(tree)
         /\ \A c, g, q : At(tree, <<c, g, q>>) = tree[c].groups[g][q]
<1>1. ASSUME NEW s \in Slots(tree) PROVE \E c, g, q : Place(tree, c, g, q) /\ s = <<c, g, q>>
  BY DEF Slots, Place
<1>2. ASSUME NEW c, NEW g, NEW q, Place(tree, c, g, q) PROVE <<c, g, q>> \in Slots(tree)
  BY <1>2 DEF Slots, Place
<1>3. \A c, g, q : At(tree, <<c, g, q>>) = tree[c].groups[g][q]
  BY DEF At
<1> QED
  BY <1>1, <1>2, <1>3

(* Every requirement of new is at the same place in tree, or is one of     *)
(* more.                                                                   *)
Adds(tree, new, more) ==
  \A s \in Slots(new) : (s \in Slots(tree) /\ At(new, s) = At(tree, s)) \/ At(new, s) \in more

AddsInPlaces(tree, new, more) ==
  \A c, g, q : Place(new, c, g, q) =>
    \/ Place(tree, c, g, q) /\ new[c].groups[g][q] = tree[c].groups[g][q]
    \/ new[c].groups[g][q] \in more

LEMMA AddsIf ==
  ASSUME NEW tree, NEW new, NEW more, AddsInPlaces(tree, new, more)
  PROVE  Adds(tree, new, more)
<1> SUFFICES ASSUME NEW s \in Slots(new)
             PROVE  (s \in Slots(tree) /\ At(new, s) = At(tree, s)) \/ At(new, s) \in more
  BY DEF Adds
<1>1. PICK c, g, q : Place(new, c, g, q) /\ s = <<c, g, q>>
  BY SlotsAre
<1> QED
  BY <1>1, SlotsAre DEF AddsInPlaces

(* Criteria as a list of them is stored.                                   *)
Classified(tree) ==
  \A c \in DOMAIN tree : {"class", "groups"} \subseteq DOMAIN tree[c] /\ tree[c].class \in Classes

LEMMA StaysWellFormed ==
  ASSUME NEW d, NEW tree, WellFormed(d, tree), NEW new, NEW more, Adds(tree, new, more),
         Classified(new), validate_criteria_classification_uniq(new),
         \A x \in more : Accepts(d, x),
         more = {} \/ validate_requirement_title_uniq(new)
  PROVE  WellFormed(d, new)
<1>1. \A s \in Slots(new) : Accepts(d, At(new, s))
  BY DEF WellFormed, Adds
<1>2. validate_requirement_title_uniq(new)
  BY DEF WellFormed, Adds, validate_requirement_title_uniq
<1> QED
  BY <1>1, <1>2 DEF WellFormed, Classified

(* The groups of the criterion c are replaced by G.                        *)
Regroups(d, tree, c, G, more, new) ==
  /\ WellFormed(d, tree) /\ c \in DOMAIN tree
  /\ new = [tree EXCEPT ![c].groups = G]
  /\ \A g \in DOMAIN G : \A q \in DOMAIN G[g] :
       \/ /\ g \in DOMAIN tree[c].groups /\ q \in DOMAIN tree[c].groups[g]
          /\ G[g][q] = tree[c].groups[g][q]
       \/ G[g][q] \in more
  /\ \A x \in more : Accepts(d, x)
  /\ more = {} \/ validate_requirement_title_uniq(new)

LEMMA Regrouped ==
  ASSUME NEW d, NEW tree, NEW c, NEW G, NEW more, NEW new, Regroups(d, tree, c, G, more, new)
  PROVE  WellFormed(d, new) /\ Adds(tree, new, more)
<1> USE DEF Regroups
<1>1. {"class", "groups"} \subseteq DOMAIN tree[c]
  BY DEF WellFormed
<1>2. /\ DOMAIN new = DOMAIN tree
      /\ \A b \in DOMAIN tree \ {c} : new[b] = tree[b]
      /\ new[c].groups = G /\ new[c].class = tree[c].class /\ DOMAIN new[c] = DOMAIN tree[c]
  BY <1>1
<1>3. Adds(tree, new, more)
  <2> SUFFICES ASSUME NEW b, NEW g, NEW q, Place(new, b, g, q)
               PROVE  \/ Place(tree, b, g, q) /\ new[b].groups[g][q] = tree[b].groups[g][q]
                      \/ new[b].groups[g][q] \in more
    BY AddsIf DEF AddsInPlaces
  <2>1. CASE b = c
    BY <1>2, <2>1 DEF Place
  <2>2. CASE b # c
    BY <1>2, <2>2 DEF Place
  <2> QED
    BY <2>1, <2>2
<1>4. Classified(new)
  BY <1>2 DEF WellFormed, Classified
<1>5. validate_criteria_classification_uniq(new)
  BY <1>2 DEF WellFormed, validate_criteria_classification_uniq
<1> QED
  BY <1>3, <1>4, <1>5, StaysWellFormed

-----------------------------------------------------------------------------
(* The inductive invariant.                                                *)

(* A document that is stored as d, or was when it was read.                *)
DocOK(d, x) ==
  /\ x.rev \in Nat \ {0}
  /\ d \in Trees =>
       /\ {"rev", "agreement", "criteria"} \subseteq DOMAIN x
       /\ x.agreement \in Agreements
       /\ WellFormed(d, x.criteria)
  /\ d \in Answering =>
       /\ {"rev", "responses", "status"} \subseteq DOMAIN x
       /\ x.responses \in Responses /\ x.status \in Statuses

DocsOK ==
  /\ DOMAIN docs = Ids
  /\ Exists(Category)
  /\ \A d \in Ids : docs[d].rev \in Nat /\ (Exists(d) => DocOK(d, docs[d]))

Working == {"read", "ready", "moving"}

(* Equal revisions mean equal documents, but for profiles, to which        *)
(* propagations write.                                                     *)
ReaderOK(r) ==
  pc[r] \in Working =>
    /\ doc[r] \in Ids /\ Exists(doc[r]) /\ DocOK(doc[r], copy[r])
    /\ copy[r].rev <= docs[doc[r]].rev
    /\ doc[r] \notin Profiles /\ Matches(r) => copy[r] = docs[doc[r]]
    /\ pc[r] = "ready" => doc[r] \in Profiles \cup Products /\ DocOK(Category, category[r])
    /\ pc[r] = "moving" => doc[r] = Category /\ to[r] \in Agreements

(* What a request has read that is not late is still so, and nobody has    *)
(* begun to propagate since.                                               *)
FreshOK(r) ==
  pc[r] \in {"read", "ready"} /\ r \notin late =>
    /\ Moving = {}
    /\ doc[r] = Category \/ doc[r] \in Profiles \ (own \cup excused) =>
         copy[r].agreement = docs[Category].agreement

Followers == {f \in Profiles \ (own \cup excused) : Exists(f)}

(* A propagation that is alone, and that will succeed if it gets to its    *)
(* end, has moved the profiles that are no longer in its queue.            *)
MoverOK(r) ==
  Moving = {r} /\ Matches(r) =>
    \A f \in Followers : docs[f].agreement = IF f \in queue[r] THEN copy[r].agreement ELSE to[r]

VarsOK ==
  /\ pc \in [Requests -> {"idle", "read", "ready", "moving", "ok", "failed"}]
  /\ doc \in [Requests -> Ids \cup {Nil}]
  /\ DOMAIN copy = Requests /\ DOMAIN category = Requests
  /\ to \in [Requests -> Agreements \cup {Nil}]
  /\ queue \in [Requests -> SUBSET Profiles]
  /\ own \in SUBSET Profiles /\ excused \in SUBSET Profiles /\ late \in SUBSET Requests

IInv ==
  /\ VarsOK
  /\ DocsOK
  /\ FollowersAgree
  /\ \A r \in Requests : ReaderOK(r) /\ FreshOK(r) /\ MoverOK(r)

LEMMA InitIInv == Init => IInv
<1> SUFFICES ASSUME Init PROVE IInv
  OBVIOUS
<1>1. PICK tree \in FirstCriteria, agreement \in Agreements,
           trees \in [Profiles -> FirstProfiles \cup {Nil}],
           answers \in [Answering -> Responses \cup {Nil}] :
        docs = [d \in Ids |->
          IF d = Category THEN [rev |-> 1, agreement |-> agreement, criteria |-> tree]
          ELSE IF d \in Profiles
          THEN IF trees[d] = Nil THEN Absent
               ELSE [rev |-> 1, agreement |-> agreement, criteria |-> trees[d]]
          ELSE IF answers[d] = Nil THEN Absent
               ELSE [rev |-> 1, responses |-> answers[d], status |-> "active"]]
  BY DEF Init
<1>2. DOMAIN docs = Ids /\ Category \in Ids
  BY <1>1 DEF Ids
<1>3. docs[Category] = [rev |-> 1, agreement |-> agreement, criteria |-> tree]
  BY <1>1, <1>2
<1>4. DocOK(Category, docs[Category]) /\ docs[Category].rev = 1
  BY <1>3, DistinctAssumption, FirstAssumption DEF DocOK, Trees
<1>5. ASSUME NEW f \in Profiles
      PROVE  /\ docs[f].rev \in Nat
             /\ Exists(f) => DocOK(f, docs[f]) /\ docs[f].agreement = agreement
  <2>1. f # Category /\ f \in Ids /\ f \notin Answering
    BY DistinctAssumption DEF Ids
  <2>2. CASE trees[f] = Nil
    <3>1. docs[f] = [rev |-> 0]
      BY <1>1, <2>1, <2>2 DEF Absent
    <3> QED
      BY <3>1 DEF Exists
  <2>3. CASE trees[f] # Nil
    <3>1. docs[f] = [rev |-> 1, agreement |-> agreement, criteria |-> trees[f]]
      BY <1>1, <2>1, <2>3
    <3>2. trees[f] \in FirstProfiles
      BY <2>3
    <3> QED
      BY <2>1, <3>1, <3>2, FirstAssumption DEF DocOK
  <2> QED
    BY <2>2, <2>3
<1>6. ASSUME NEW p \in Answering
      PROVE  docs[p].rev \in Nat /\ (Exists(p) => DocOK(p, docs[p]))
  <2>1. p # Category /\ p \in Ids /\ p \notin Profiles
    BY DistinctAssumption DEF Ids
  <2>2. CASE answers[p] = Nil
    <3>1. docs[p] = [rev |-> 0]
      BY <1>1, <2>1, <2>2 DEF Absent
    <3> QED
      BY <3>1 DEF Exists
  <2>3. CASE answers[p] # Nil
    <3>1. docs[p] = [rev |-> 1, responses |-> answers[p], status |-> "active"]
      BY <1>1, <2>1, <2>3
    <3>2. answers[p] \in Responses
      BY <2>3
    <3> QED
      BY <2>1, <3>1, <3>2 DEF DocOK, Trees, Statuses
  <2> QED
    BY <2>2, <2>3
<1>7. DocsOK
  BY <1>2, <1>4, <1>5, <1>6 DEF DocsOK, Ids, Exists
<1>8. FollowersAgree
  BY <1>3, <1>5 DEF FollowersAgree
<1>9. VarsOK
  BY DEF Init, VarsOK
<1>10. ASSUME NEW r \in Requests PROVE ReaderOK(r) /\ FreshOK(r) /\ MoverOK(r)
  BY DEF Init, ReaderOK, FreshOK, MoverOK, Working, Moving
<1> QED
  BY <1>7, <1>8, <1>9, <1>10 DEF IInv

(* What every step below uses of the invariant.                            *)
LEMMA ReaderFacts ==
  ASSUME IInv, NEW r \in Requests, pc[r] \in Working
  PROVE  /\ doc[r] \in Ids /\ Exists(doc[r]) /\ DocOK(doc[r], copy[r])
         /\ copy[r].rev \in Nat \ {0} /\ docs[doc[r]].rev \in Nat
         /\ copy[r].rev <= docs[doc[r]].rev
         /\ DocOK(doc[r], docs[doc[r]])
BY DEF IInv, ReaderOK, DocsOK, DocOK

(* A step by which r's place is the only one that changes, but for the     *)
(* histories, and no document does.                                        *)
LEMMA Unread ==
  ASSUME IInv, docs' = docs, NEW q \in Requests,
         pc'[q] = pc[q], doc'[q] = doc[q], copy'[q] = copy[q], category'[q] = category[q],
         to'[q] = to[q]
  PROVE  ReaderOK(q)'
BY DEF IInv, ReaderOK, Exists, Matches

(* r stores x as d: a new document, or the next revision of one that it    *)
(* has read.                                                               *)
LEMMA StoreStep ==
  ASSUME IInv, VarsOK', NEW r \in Requests, NEW d \in Ids, NEW x, DocOK(d, x),
         docs' = [docs EXCEPT ![d] = x],
         Exists(d) => x.rev > docs[d].rev,
         Answer(r, "ok")
  PROVE  DocsOK' /\ \A q \in Requests : ReaderOK(q)'
<1>1. /\ DOMAIN docs = Ids
      /\ docs'[d] = x /\ \A e \in Ids \ {d} : docs'[e] = docs[e]
      /\ DOMAIN docs' = Ids
  BY DEF IInv, DocsOK
<1>2. x.rev \in Nat \ {0}
  BY DEF DocOK
<1>3. \A e \in Ids : docs[e].rev \in Nat /\ (Exists(e) => Exists(e)')
  BY <1>1, <1>2 DEF IInv, DocsOK, Exists
<1>4. DocsOK'
  <2>1. Exists(Category)'
    BY <1>3 DEF IInv, DocsOK, Ids
  <2>2. ASSUME NEW e \in Ids PROVE docs'[e].rev \in Nat /\ (Exists(e)' => DocOK(e, docs'[e]))
    <3>1. CASE e = d
      BY <1>1, <1>2, <3>1
    <3>2. CASE e # d
      <4>1. docs'[e] = docs[e] /\ (Exists(e)' <=> Exists(e))
        BY <1>1, <3>2 DEF Exists
      <4> QED
        BY <4>1 DEF IInv, DocsOK
    <3> QED
      BY <3>1, <3>2
  <2> QED
    BY <1>1, <2>1, <2>2 DEF DocsOK, DocOK
<1>5. pc'[r] = "ok"
  BY DEF IInv, VarsOK, Answer
<1>6. ASSUME NEW q \in Requests \ {r}, pc[q] \in Working PROVE ReaderOK(q)'
  <2>1. /\ pc'[q] = pc[q] /\ doc'[q] = doc[q] /\ copy'[q] = copy[q]
        /\ category'[q] = category[q] /\ to'[q] = to[q]
    BY DEF IInv, VarsOK, Answer
  <2>2. /\ doc[q] \in Ids /\ Exists(doc[q])
        /\ copy[q].rev \in Nat /\ docs[doc[q]].rev \in Nat /\ copy[q].rev <= docs[doc[q]].rev
    BY <1>6, ReaderFacts
  <2>3. CASE doc[q] = d
    <3>1. copy[q].rev < docs'[doc[q]].rev
      <4>1. docs[d].rev < x.rev
        BY <2>2, <2>3
      <4> QED
        BY <1>1, <1>2, <2>2, <2>3, <4>1
    <3>2. copy[q].rev # docs'[doc[q]].rev /\ copy[q].rev <= docs'[doc[q]].rev
      BY <1>1, <1>2, <2>2, <2>3, <3>1
    <3> QED
      BY <1>3, <1>6, <2>1, <2>2, <3>2 DEF IInv, ReaderOK, Matches, DocOK
  <2>4. CASE doc[q] # d
    <3>1. docs'[doc[q]] = docs[doc[q]]
      BY <1>1, <2>2, <2>4
    <3> QED
      BY <1>3, <1>6, <2>1, <2>2, <3>1 DEF IInv, ReaderOK, Matches, DocOK
  <2> QED
    BY <2>3, <2>4
<1>7. ASSUME NEW q \in Requests \ {r}, pc[q] \notin Working PROVE ReaderOK(q)'
  <2>1. pc'[q] = pc[q]
    BY DEF IInv, VarsOK, Answer
  <2> QED
    BY <1>7, <2>1 DEF ReaderOK
<1>8. ReaderOK(r)'
  BY <1>5 DEF ReaderOK, Working
<1> QED
  BY <1>4, <1>6, <1>7, <1>8

(* A request that hands on no agreement stores x as d: the category with   *)
(* its agreement, a product, or a profile that is excepted from following  *)
(* the category or has its agreement.                                      *)
LEMMA PutStep ==
  ASSUME IInv, VarsOK', NEW r \in Requests, pc[r] \in {"read", "ready"},
         NEW d \in Ids, NEW x, DocOK(d, x),
         docs' = [docs EXCEPT ![d] = x],
         Exists(d) => x.rev > docs[d].rev,
         Answer(r, "ok"), own \subseteq own', excused \subseteq excused',
         d = Category => x.agreement = docs[Category].agreement,
         d \in Profiles => \/ d \in own' \cup excused'
                           \/ Moving = {} /\ x.agreement = docs[Category].agreement
  PROVE  IInv'
<1>1. DocsOK' /\ \A q \in Requests : ReaderOK(q)'
  BY StoreStep
<1>2. /\ DOMAIN docs = Ids
      /\ docs'[d] = x /\ \A e \in Ids \ {d} : docs'[e] = docs[e]
      /\ Category \in Ids /\ Profiles \subseteq Ids /\ Category \notin Profiles
  BY DistinctAssumption DEF IInv, DocsOK, Ids
<1>3. docs'[Category].agreement = docs[Category].agreement
  BY <1>2
<1>4. /\ pc'[r] = "ok" /\ late' = late \ {r}
      /\ \A q \in Requests \ {r} : /\ pc'[q] = pc[q] /\ doc'[q] = doc[q] /\ copy'[q] = copy[q]
                                   /\ to'[q] = to[q] /\ queue'[q] = queue[q]
  BY DEF IInv, VarsOK, Answer
<1>5. Moving' = Moving /\ r \notin Moving
  BY <1>4 DEF Moving
<1>6. ASSUME NEW f \in Followers'
      PROVE  \/ f # d /\ f \in Followers /\ docs'[f] = docs[f]
             \/ f = d /\ Moving = {} /\ docs'[f].agreement = docs[Category].agreement
  BY <1>2, <1>6 DEF Followers, Exists
<1>7. FollowersAgree'
  <2> SUFFICES ASSUME Moving = {}, NEW f \in Followers'
               PROVE  docs'[f].agreement = docs'[Category].agreement
    BY <1>5 DEF FollowersAgree, Followers
  <2> QED
    BY <1>3, <1>6 DEF IInv, FollowersAgree, Followers
<1>8. ASSUME NEW q \in Requests PROVE FreshOK(q)'
  <2>1. CASE q = r
    BY <1>4, <2>1 DEF FreshOK
  <2>2. CASE q # r
    <3>1. FreshOK(q)
      BY DEF IInv
    <3> QED
      BY <1>3, <1>4, <1>5, <2>2, <3>1 DEF FreshOK
  <2> QED
    BY <2>1, <2>2
<1>9. ASSUME NEW q \in Requests PROVE MoverOK(q)'
  <2> SUFFICES ASSUME Moving = {q}, Matches(q)', NEW f \in Followers'
               PROVE  docs'[f].agreement = IF f \in queue'[q] THEN copy'[q].agreement ELSE to'[q]
    BY <1>5 DEF MoverOK
  <2>1. q # r /\ pc[q] = "moving"
    BY <1>5 DEF Moving
  <2>2. doc[q] = Category /\ copy[q].rev \in Nat /\ copy[q].rev <= docs[Category].rev
    BY <2>1, ReaderFacts DEF IInv, ReaderOK, Working
  <2>3. d # Category
    <3> SUFFICES ASSUME d = Category PROVE FALSE
      OBVIOUS
    <3>1. copy[q].rev = x.rev
      BY <1>2, <1>4, <2>1, <2>2 DEF Matches
    <3>2. x.rev > docs[Category].rev /\ x.rev \in Nat /\ docs[Category].rev \in Nat
      BY DEF IInv, DocsOK, DocOK
    <3> QED
      BY <2>2, <3>1, <3>2
  <2>4. Matches(q)
    BY <1>2, <1>4, <2>1, <2>2, <2>3 DEF Matches
  <2>5. f \in Followers /\ docs'[f] = docs[f]
    BY <1>6
  <2> QED
    BY <1>4, <2>1, <2>4, <2>5 DEF IInv, MoverOK
<1> QED
  BY <1>1, <1>7, <1>8, <1>9 DEF IInv

(* The end of a propagation.  If it was alone, all followers have its      *)
(* agreement; a propagation beside it has lost.                            *)
LEMMA MoveEndStep ==
  ASSUME IInv, VarsOK', NEW r \in Requests, MoveEnd(r)
  PROVE  IInv'
<1> DEFINE x == [[copy[r] EXCEPT !.agreement = to[r]] EXCEPT !.rev = @ + 1]
<1>1. /\ pc[r] = "moving" /\ queue[r] = {} /\ Matches(r) /\ Answer(r, "ok")
      /\ docs' = [docs EXCEPT ![doc[r]] = x] /\ UNCHANGED own
  BY DEF MoveEnd, Save, Replace
<1>2. /\ doc[r] = Category /\ Category \in Ids /\ Category \notin Profiles \cup Answering
      /\ Profiles \subseteq Ids /\ to[r] \in Agreements
  BY <1>1, DistinctAssumption DEF IInv, ReaderOK, Working, Ids
<1>3. DocOK(Category, copy[r]) /\ copy[r].rev \in Nat /\ docs[Category].rev = copy[r].rev
  BY <1>1, <1>2, ReaderFacts DEF Working, Matches
<1>4. DocOK(Category, x) /\ x.agreement = to[r] /\ x.rev = docs[Category].rev + 1
  <2>1. {"rev", "agreement", "criteria"} \subseteq DOMAIN copy[r] /\ WellFormed(Category, copy[r].criteria)
    BY <1>2, <1>3 DEF DocOK, Trees
  <2>2. /\ x.rev = copy[r].rev + 1 /\ x.agreement = to[r] /\ x.criteria = copy[r].criteria
        /\ DOMAIN x = DOMAIN copy[r]
    BY <2>1
  <2>3. x.rev \in Nat \ {0}
    BY <1>3, <2>2
  <2> QED
    BY <1>2, <1>3, <2>1, <2>2, <2>3 DEF DocOK
<1> HIDE DEF x
<1>5. UNCHANGED excused
  BY <1>2 DEF MoveEnd, Save
<1>6. x.rev > docs[Category].rev
  BY <1>3, <1>4
<1>7. DocsOK' /\ \A q \in Requests : ReaderOK(q)'
  BY <1>1, <1>2, <1>4, <1>6, StoreStep
<1>8. docs'[Category] = x /\ \A e \in Ids \ {Category} : docs'[e] = docs[e]
  BY <1>1, <1>2 DEF IInv, DocsOK
<1>9. /\ pc'[r] = "ok" /\ late' = late \ {r}
      /\ \A q \in Requests \ {r} : pc'[q] = pc[q] /\ doc'[q] = doc[q] /\ copy'[q] = copy[q]
  BY <1>1 DEF IInv, VarsOK, Answer
<1>10. Moving' = Moving \ {r} /\ r \in Moving
  BY <1>1, <1>9 DEF Moving
<1>11. FollowersAgree'
  <2> SUFFICES ASSUME Moving' = {}, NEW f \in Followers'
               PROVE  docs'[f].agreement = docs'[Category].agreement
    BY DEF FollowersAgree, Followers
  <2>1. Moving = {r}
    BY <1>10
  <2>2. f \in Followers /\ docs'[f] = docs[f]
    BY <1>1, <1>2, <1>5, <1>8 DEF Followers, Exists
  <2>3. docs[f].agreement = to[r]
    BY <1>1, <2>1, <2>2 DEF IInv, MoverOK
  <2> QED
    BY <1>4, <1>8, <2>2, <2>3
<1>12. ASSUME NEW q \in Requests PROVE FreshOK(q)'
  BY <1>9, <1>10 DEF IInv, FreshOK
<1>13. ASSUME NEW q \in Requests PROVE MoverOK(q)'
  <2> SUFFICES ASSUME Moving' = {q} PROVE ~ Matches(q)'
    BY DEF MoverOK
  <2>1. q # r /\ pc[q] = "moving"
    BY <1>10 DEF Moving
  <2>2. doc[q] = Category /\ copy[q].rev \in Nat /\ copy[q].rev <= docs[Category].rev
    BY <2>1, ReaderFacts DEF IInv, ReaderOK, Working
  <2>3. copy[q].rev # x.rev
    BY <1>3, <1>6, <2>2
  <2> QED
    BY <1>8, <1>9, <2>1, <2>2, <2>3 DEF Matches
<1> QED
  BY <1>7, <1>11, <1>12, <1>13 DEF IInv

LEMMA ReadStep ==
  ASSUME IInv, VarsOK', NEW r \in Requests, NEW d \in Ids, Read(r, d)
  PROVE  IInv'
<1>1. /\ pc[r] = "idle" /\ Exists(d) /\ pc'[r] = "read" /\ doc'[r] = d /\ copy'[r] = docs[d]
      /\ docs' = docs /\ own' = own /\ excused' = excused
      /\ late' = IF Moving = {} THEN late ELSE late \cup {r}
      /\ \A q \in Requests : category'[q] = category[q] /\ to'[q] = to[q] /\ queue'[q] = queue[q]
      /\ \A q \in Requests \ {r} : pc'[q] = pc[q] /\ doc'[q] = doc[q] /\ copy'[q] = copy[q]
  BY DEF IInv, VarsOK, Read
<1>2. Moving' = Moving /\ r \notin Moving
  BY <1>1 DEF Moving
<1>3. Followers' = Followers
  BY <1>1 DEF Followers, Exists
<1>4. DocsOK' /\ FollowersAgree'
  BY <1>1, <1>2 DEF IInv, DocsOK, DocOK, FollowersAgree, Exists
<1>5. ASSUME NEW q \in Requests PROVE ReaderOK(q)'
  <2>1. CASE q = r
    <3>1. DocOK(d, docs[d]) /\ docs[d].rev <= docs[d].rev
      BY <1>1 DEF IInv, DocsOK
    <3> QED
      BY <1>1, <2>1, <3>1 DEF ReaderOK, Exists, DocOK
  <2>2. CASE q # r
    BY <1>1, <2>2, Unread
  <2> QED
    BY <2>1, <2>2
<1>6. ASSUME NEW q \in Requests PROVE FreshOK(q)'
  <2>1. CASE q = r
    <3> SUFFICES ASSUME Moving = {}, d = Category \/ d \in Profiles \ (own \cup excused)
                 PROVE  docs[d].agreement = docs[Category].agreement
      BY <1>1, <1>2, <2>1 DEF FreshOK
    <3> QED
      BY <1>1 DEF IInv, FollowersAgree
  <2>2. CASE q # r
    <3>1. FreshOK(q)
      BY DEF IInv
    <3> QED
      BY <1>1, <1>2, <2>2, <3>1 DEF FreshOK
  <2> QED
    BY <2>1, <2>2
<1>7. ASSUME NEW q \in Requests PROVE MoverOK(q)'
  <2> SUFFICES ASSUME Moving = {q} PROVE MoverOK(q)'
    BY <1>2 DEF MoverOK
  <2>1. q # r
    BY <1>2
  <2> QED
    BY <1>1, <1>2, <1>3, <2>1 DEF IInv, MoverOK, Matches
<1> QED
  BY <1>4, <1>5, <1>6, <1>7 DEF IInv

LEMMA ReadCategoryStep ==
  ASSUME IInv, VarsOK', NEW r \in Requests, ReadCategory(r)
  PROVE  IInv'
<1>1. /\ pc[r] = "read" /\ doc[r] \in Profiles \cup Products
      /\ pc'[r] = "ready" /\ category'[r] = docs[Category]
      /\ docs' = docs /\ own' = own /\ excused' = excused /\ late' = late
      /\ doc' = doc /\ copy' = copy /\ to' = to /\ queue' = queue
      /\ \A q \in Requests \ {r} : pc'[q] = pc[q] /\ category'[q] = category[q]
  BY DEF IInv, VarsOK, ReadCategory, history
<1>2. Moving' = Moving
  BY <1>1 DEF Moving
<1>3. Followers' = Followers
  BY <1>1 DEF Followers, Exists
<1>4. DocsOK' /\ FollowersAgree'
  BY <1>1, <1>2 DEF IInv, DocsOK, DocOK, FollowersAgree, Exists
<1>5. ASSUME NEW q \in Requests PROVE ReaderOK(q)'
  <2>1. CASE q = r
    <3>1. DocOK(Category, docs[Category])
      BY DEF IInv, DocsOK, Ids
    <3> QED
      BY <1>1, <2>1, <3>1 DEF IInv, ReaderOK, Working, Exists, Matches
  <2>2. CASE q # r
    BY <1>1, <2>2, Unread
  <2> QED
    BY <2>1, <2>2
<1>6. ASSUME NEW q \in Requests PROVE FreshOK(q)' /\ MoverOK(q)'
  <2>1. pc[q] \in {"read", "ready"} <=> pc'[q] \in {"read", "ready"}
    BY <1>1
  <2> QED
    BY <1>1, <1>2, <1>3, <2>1 DEF IInv, FreshOK, MoverOK, Matches
<1> QED
  BY <1>4, <1>5, <1>6 DEF IInv

(* A refusal.  If r was moving profiles, all of them are excepted.         *)
LEMMA FailStep ==
  ASSUME IInv, VarsOK', NEW r \in Requests, Fail(r)
  PROVE  IInv'
<1>1. /\ pc'[r] = "failed" /\ docs' = docs /\ own' = own /\ late' = late \ {r}
      /\ \A q \in Requests \ {r} : /\ pc'[q] = pc[q] /\ doc'[q] = doc[q] /\ copy'[q] = copy[q]
                                   /\ category'[q] = category[q] /\ to'[q] = to[q]
                                   /\ queue'[q] = queue[q]
  BY DEF IInv, VarsOK, Fail, Answer
<1>2. DocsOK'
  BY <1>1 DEF IInv, DocsOK, DocOK, Exists
<1>3. ASSUME NEW q \in Requests PROVE ReaderOK(q)'
  <2>1. CASE q = r
    BY <1>1, <2>1 DEF ReaderOK, Working
  <2>2. CASE q # r
    BY <1>1, <2>2, Unread
  <2> QED
    BY <2>1, <2>2
<1>4. CASE pc[r] = "moving"
  <2>1. Followers' = {}
    BY <1>1, <1>4 DEF Fail, Followers, Exists
  <2>2. FollowersAgree'
    BY <2>1 DEF FollowersAgree, Followers
  <2>3. Moving # {}
    BY <1>4 DEF Moving
  <2>4. ASSUME NEW q \in Requests PROVE FreshOK(q)' /\ MoverOK(q)'
    <3>1. FreshOK(q)'
      BY <1>1, <2>3 DEF IInv, FreshOK
    <3> QED
      BY <2>1, <3>1 DEF MoverOK
  <2> QED
    BY <1>2, <1>3, <2>2, <2>4 DEF IInv
<1>5. CASE pc[r] # "moving"
  <2>1. excused' = excused /\ Moving' = Moving /\ r \notin Moving
    BY <1>1, <1>5 DEF Fail, Moving
  <2>2. Followers' = Followers
    BY <1>1, <2>1 DEF Followers, Exists
  <2>3. FollowersAgree'
    BY <1>1, <2>1 DEF IInv, FollowersAgree, Exists
  <2>4. ASSUME NEW q \in Requests PROVE FreshOK(q)' /\ MoverOK(q)'
    <3>1. CASE q = r
      BY <1>1, <2>1, <3>1 DEF FreshOK, MoverOK
    <3>2. CASE q # r
      BY <1>1, <2>1, <2>2, <3>2 DEF IInv, FreshOK, MoverOK, Matches
    <3> QED
      BY <3>1, <3>2
  <2> QED
    BY <1>2, <1>3, <2>3, <2>4 DEF IInv
<1> QED
  BY <1>4, <1>5

(* The start of a propagation: every other request that has read something *)
(* is late from now on.  If it is alone and can succeed, it starts from the*)
(* agreement that all followers have.                                      *)
LEMMA MoveStartStep ==
  ASSUME IInv, VarsOK', NEW r \in Requests, NEW agreement \in Agreements, MoveStart(r, agreement)
  PROVE  IInv'
<1>1. /\ pc[r] = "read" /\ doc[r] = Category /\ pc'[r] = "moving" /\ to'[r] = agreement
      /\ queue'[r] = {f \in Profiles : Exists(f)}
      /\ late' = late \cup {q \in Requests : pc[q] \in {"read", "ready"}}
      /\ docs' = docs /\ own' = own /\ excused' = excused
      /\ doc' = doc /\ copy' = copy /\ category' = category
      /\ \A q \in Requests \ {r} : pc'[q] = pc[q] /\ to'[q] = to[q] /\ queue'[q] = queue[q]
  BY DEF IInv, VarsOK, MoveStart
<1>2. Moving' = Moving \cup {r} /\ r \notin Moving
  BY <1>1 DEF Moving
<1>3. Followers' = Followers
  BY <1>1 DEF Followers, Exists
<1>4. DocsOK'
  BY <1>1 DEF IInv, DocsOK, DocOK, Exists
<1>5. FollowersAgree'
  BY <1>2 DEF FollowersAgree
<1>6. ASSUME NEW q \in Requests PROVE ReaderOK(q)'
  <2>1. CASE q = r
    BY <1>1, <2>1 DEF IInv, ReaderOK, Working, Exists, Matches
  <2>2. CASE q # r
    BY <1>1, <2>2, Unread
  <2> QED
    BY <2>1, <2>2
<1>7. ASSUME NEW q \in Requests PROVE FreshOK(q)'
  BY <1>1 DEF FreshOK
<1>8. ASSUME NEW q \in Requests PROVE MoverOK(q)'
  <2> SUFFICES ASSUME Moving' = {q}, Matches(q)', NEW f \in Followers
               PROVE  docs[f].agreement = IF f \in queue'[q] THEN copy[q].agreement ELSE to'[q]
    BY <1>1, <1>3 DEF MoverOK
  <2>1. q = r /\ Moving = {}
    BY <1>2
  <2>2. f \in queue'[q]
    BY <1>1, <2>1 DEF Followers
  <2>3. docs[f].agreement = docs[Category].agreement
    BY <2>1 DEF IInv, FollowersAgree, Followers
  <2>4. Category \notin Profiles /\ Matches(r)
    BY <1>1, <2>1, DistinctAssumption DEF Matches
  <2>5. copy[r] = docs[Category]
    BY <1>1, <2>4 DEF IInv, ReaderOK, Working
  <2> QED
    BY <2>1, <2>2, <2>3, <2>5
<1> QED
  BY <1>4, <1>5, <1>6, <1>7, <1>8 DEF IInv

(* One UpdateOne of a propagation.                                         *)
LEMMA MoveProfileStep ==
  ASSUME IInv, VarsOK', NEW r \in Requests, NEW f \in Profiles, MoveProfile(r, f)
  PROVE  IInv'
<1>1. /\ pc[r] = "moving" /\ f \in queue[r] /\ queue'[r] = queue[r] \ {f}
      /\ docs' = IF docs[f].agreement = copy[r].agreement
                 THEN [docs EXCEPT ![f].agreement = to[r]] ELSE docs
      /\ own' = own /\ excused' = excused /\ late' = late
      /\ pc' = pc /\ doc' = doc /\ copy' = copy /\ category' = category /\ to' = to
      /\ \A q \in Requests \ {r} : queue'[q] = queue[q]
  BY DEF IInv, VarsOK, MoveProfile, history
<1>2. Moving' = Moving /\ r \in Moving
  BY <1>1 DEF Moving
<1>3. f \in Ids /\ f \in Trees /\ f # Category /\ f \notin Answering /\ to[r] \in Agreements
  BY <1>1, DistinctAssumption DEF Ids, Trees, IInv, ReaderOK, Working
<1>4. /\ DOMAIN docs = Ids /\ DOMAIN docs' = Ids
      /\ \A e \in Ids \ {f} : docs'[e] = docs[e]
      /\ docs'[f] = docs[f] \/ docs'[f] = [docs[f] EXCEPT !.agreement = to[r]]
  BY <1>1, <1>3 DEF IInv, DocsOK
<1>5. /\ docs'[f].rev = docs[f].rev
      /\ Exists(f) => DocOK(f, docs'[f])
  <2>1. CASE docs'[f] = docs[f]
    BY <1>3, <2>1 DEF IInv, DocsOK
  <2>2. CASE docs'[f] = [docs[f] EXCEPT !.agreement = to[r]]
    <3>1. docs'[f].rev = docs[f].rev
      BY <2>2
    <3>2. ASSUME Exists(f) PROVE DocOK(f, docs'[f])
      <4>1. /\ DocOK(f, docs[f])
            /\ {"rev", "agreement", "criteria"} \subseteq DOMAIN docs[f]
        BY <1>3, <3>2 DEF IInv, DocsOK, DocOK
      <4>2. /\ docs'[f].agreement = to[r] /\ docs'[f].criteria = docs[f].criteria
            /\ DOMAIN docs'[f] = DOMAIN docs[f]
        BY <2>2, <4>1
      <4> QED
        BY <1>3, <3>1, <4>1, <4>2 DEF DocOK
    <3> QED
      BY <3>1, <3>2
  <2> QED
    BY <1>4, <2>1, <2>2
<1>6. \A e \in Ids : docs'[e].rev = docs[e].rev /\ (Exists(e)' <=> Exists(e))
  BY <1>4, <1>5 DEF Exists
<1>7. DocsOK'
  <2>1. ASSUME NEW e \in Ids PROVE Exists(e) => DocOK(e, docs'[e])
    BY <1>4, <1>5 DEF IInv, DocsOK
  <2> QED
    BY <1>4, <1>6, <2>1 DEF IInv, DocsOK, DocOK, Ids
<1>8. FollowersAgree'
  BY <1>2 DEF FollowersAgree
<1>9. ASSUME NEW q \in Requests PROVE ReaderOK(q)'
  <2> SUFFICES ASSUME pc[q] \in Working PROVE ReaderOK(q)'
    BY <1>1 DEF ReaderOK
  <2>1. ReaderOK(q) /\ doc[q] \in Ids
    BY DEF IInv, ReaderOK
  <2>2. Matches(q)' <=> Matches(q)
    BY <1>1, <1>6, <2>1 DEF Matches
  <2>3. doc[q] \notin Profiles => docs'[doc[q]] = docs[doc[q]]
    BY <1>4, <2>1
  <2> QED
    BY <1>1, <1>6, <2>1, <2>2, <2>3 DEF ReaderOK, DocOK
<1>10. ASSUME NEW q \in Requests PROVE FreshOK(q)'
  BY <1>1, <1>2 DEF IInv, FreshOK
<1>11. ASSUME NEW q \in Requests PROVE MoverOK(q)'
  <2> SUFFICES ASSUME Moving = {q}, Matches(q)', NEW g \in Followers'
               PROVE  docs'[g].agreement = IF g \in queue'[q] THEN copy[q].agreement ELSE to[q]
    BY <1>1, <1>2 DEF MoverOK
  <2>1. q = r
    BY <1>2
  <2>2. doc[r] = Category /\ Category \in Ids
    BY <1>1 DEF IInv, ReaderOK, Working, Ids
  <2>3. Matches(r)
    BY <1>1, <1>6, <2>1, <2>2 DEF Matches
  <2>4. g \in Followers /\ g \in Ids
    BY <1>1, <1>6 DEF Followers, Ids
  <2>5. docs[g].agreement = IF g \in queue[r] THEN copy[r].agreement ELSE to[r]
    BY <2>1, <2>3, <2>4 DEF IInv, MoverOK
  <2>6. CASE g = f
    <3>1. docs[f].agreement = copy[r].agreement /\ Exists(f)
      BY <1>1, <2>4, <2>5, <2>6 DEF Followers
    <3>2. docs' = [docs EXCEPT ![f].agreement = to[r]]
      BY <1>1, <3>1
    <3>3. "agreement" \in DOMAIN docs[f]
      BY <1>3, <3>1 DEF IInv, DocsOK, DocOK
    <3>4. docs'[f].agreement = to[r]
      BY <1>3, <1>4, <3>2, <3>3
    <3> QED
      BY <1>1, <2>1, <2>6, <3>4
  <2>7. CASE g # f
    BY <1>1, <1>4, <2>1, <2>4, <2>5, <2>7
  <2> QED
    BY <2>6, <2>7
<1> QED
  BY <1>7, <1>8, <1>9, <1>10, <1>11 DEF IInv

-----------------------------------------------------------------------------
(* The edits of a tree keep it well formed.                                *)

(* What PostCriteria and PostRequirements make of a tree.                   *)
AddsCriteria(d, tree, r, classes, new) ==
  /\ WellFormed(d, tree)
  /\ \A j \in DOMAIN classes : classes[j] \in Classes
  /\ new = With(tree, [i \in {<<r, j>> : j \in DOMAIN classes} |->
                         [class |-> classes[i[2]], groups |-> << >>]])
  /\ validate_criteria_classification_uniq(new)

AddsRequirements(d, tree, c, g, r, posts, new) ==
  /\ WellFormed(d, tree) /\ c \in DOMAIN tree /\ g \in DOMAIN tree[c].groups
  /\ new = [tree EXCEPT ![c].groups[g] =
              With(@, [i \in {<<r, j>> : j \in DOMAIN posts} |-> posts[i[2]]])]
  /\ \A j \in DOMAIN posts : Accepts(d, posts[j])
  /\ validate_requirement_title_uniq(new)

LEMMA CriteriaPosted ==
  ASSUME NEW d, NEW tree, NEW r, NEW classes, NEW new, AddsCriteria(d, tree, r, classes, new)
  PROVE  WellFormed(d, new)
<1> USE DEF AddsCriteria
<1> DEFINE I == {<<r, j>> : j \in DOMAIN classes}
<1> DEFINE more == [i \in I |-> [class |-> classes[i[2]], groups |-> << >>]]
<1>1. DOMAIN new = DOMAIN tree \cup I
  BY DEF With
<1>2. \A c \in DOMAIN tree : new[c] = tree[c]
  BY <1>1 DEF With
<1>3. ASSUME NEW i \in I, i \notin DOMAIN tree
      PROVE  {"class", "groups"} \subseteq DOMAIN new[i] /\ new[i].class \in Classes /\ new[i].groups = << >>
  <2>1. new[i] = more[i]
    BY <1>1, <1>3 DEF With
  <2>2. PICK j \in DOMAIN classes : i = <<r, j>>
    OBVIOUS
  <2>3. i[2] = j
    BY <2>2
  <2>4. more[i] = [class |-> classes[j], groups |-> << >>]
    BY <2>3
  <2> QED
    BY <2>1, <2>4
<1> HIDE DEF I, more
<1>4. Classified(new)
  <2> SUFFICES ASSUME NEW c \in DOMAIN new
               PROVE  {"class", "groups"} \subseteq DOMAIN new[c] /\ new[c].class \in Classes
    BY DEF Classified
  <2>1. CASE c \in DOMAIN tree
    BY <1>2, <2>1 DEF WellFormed
  <2>2. CASE c \notin DOMAIN tree
    BY <1>1, <1>3, <2>2
  <2> QED
    BY <2>1, <2>2
<1>5. Adds(tree, new, {})
  <2> SUFFICES ASSUME NEW c, NEW g, NEW q, Place(new, c, g, q)
               PROVE  Place(tree, c, g, q) /\ new[c].groups[g][q] = tree[c].groups[g][q]
    BY AddsIf DEF AddsInPlaces
  <2>1. CASE c \in DOMAIN tree
    BY <1>2, <2>1 DEF Place
  <2>2. CASE c \notin DOMAIN tree
    <3>1. new[c].groups = << >>
      BY <1>1, <1>3, <2>2 DEF Place
    <3> QED
      BY <3>1 DEF Place
  <2> QED
    BY <2>1, <2>2
<1> QED
  BY <1>4, <1>5, StaysWellFormed

LEMMA CriterionPatched ==
  ASSUME NEW d, NEW tree, WellFormed(d, tree), NEW c \in DOMAIN tree, NEW class \in Classes,
         \A b \in DOMAIN tree \ {c} : tree[b].class # class,
         NEW new, new = [tree EXCEPT ![c].class = class]
  PROVE  WellFormed(d, new)
<1>1. {"class", "groups"} \subseteq DOMAIN tree[c]
  BY DEF WellFormed
<1>2. /\ DOMAIN new = DOMAIN tree
      /\ \A b \in DOMAIN tree \ {c} : new[b] = tree[b]
      /\ new[c].groups = tree[c].groups /\ new[c].class = class /\ DOMAIN new[c] = DOMAIN tree[c]
  BY <1>1
<1>3. Classified(new) /\ validate_criteria_classification_uniq(new)
  BY <1>2 DEF Classified, WellFormed, validate_criteria_classification_uniq
<1>4. Adds(tree, new, {})
  <2>1. ASSUME NEW b, NEW g, NEW q, Place(new, b, g, q)
        PROVE  Place(tree, b, g, q) /\ new[b].groups[g][q] = tree[b].groups[g][q]
    BY <1>2, <2>1 DEF Place
  <2>2. AddsInPlaces(tree, new, {})
    BY <2>1 DEF AddsInPlaces
  <2> QED
    BY <2>2, AddsIf
<1> QED
  BY <1>3, <1>4, StaysWellFormed

LEMMA CriterionDeleted ==
  ASSUME NEW d, NEW tree, WellFormed(d, tree), NEW c,
         NEW new, new = Keep(tree, DOMAIN tree \ {c})
  PROVE  WellFormed(d, new)
<1>1. DOMAIN new = DOMAIN tree \ {c} /\ \A b \in DOMAIN new : new[b] = tree[b]
  BY DEF Keep
<1>2. Classified(new) /\ validate_criteria_classification_uniq(new)
  BY <1>1 DEF Classified, WellFormed, validate_criteria_classification_uniq
<1>3. Adds(tree, new, {})
  <2> SUFFICES ASSUME NEW b, NEW g, NEW q, Place(new, b, g, q)
               PROVE  Place(tree, b, g, q) /\ new[b].groups[g][q] = tree[b].groups[g][q]
    BY AddsIf DEF AddsInPlaces
  <2> QED
    BY <1>1 DEF Place
<1> QED
  BY <1>2, <1>3, StaysWellFormed

LEMMA GroupPosted ==
  ASSUME NEW d, NEW tree, WellFormed(d, tree), NEW c \in DOMAIN tree, NEW id,
         NEW new, new = [tree EXCEPT ![c].groups = With(@, [g \in {id} |-> << >>])]
  PROVE  WellFormed(d, new)
<1> DEFINE G == With(tree[c].groups, [g \in {id} |-> << >>])
<1>1. "groups" \in DOMAIN tree[c]
  BY DEF WellFormed
<1>2. new = [tree EXCEPT ![c].groups = G]
  BY <1>1
<1>3. ASSUME NEW g \in DOMAIN G, NEW q \in DOMAIN G[g]
      PROVE  /\ g \in DOMAIN tree[c].groups /\ q \in DOMAIN tree[c].groups[g]
             /\ G[g][q] = tree[c].groups[g][q]
  <2>1. DOMAIN G = DOMAIN tree[c].groups \cup {id}
    BY DEF With
  <2>2. CASE g \in DOMAIN tree[c].groups
    BY <1>3, <2>1, <2>2 DEF With
  <2>3. CASE g \notin DOMAIN tree[c].groups
    <3>1. G[g] = << >>
      BY <2>1, <2>3 DEF With
    <3> QED
      BY <1>3, <3>1
  <2> QED
    BY <2>2, <2>3
<1> HIDE DEF G
<1>4. Regroups(d, tree, c, G, {}, new)
  BY <1>2, <1>3 DEF Regroups
<1> QED
  BY <1>4, Regrouped

LEMMA GroupDeleted ==
  ASSUME NEW d, NEW tree, WellFormed(d, tree), NEW c \in DOMAIN tree, NEW id,
         NEW new, new = [tree EXCEPT ![c].groups = Keep(@, DOMAIN @ \ {id})]
  PROVE  WellFormed(d, new)
<1> DEFINE G == Keep(tree[c].groups, DOMAIN tree[c].groups \ {id})
<1>1. "groups" \in DOMAIN tree[c]
  BY DEF WellFormed
<1>2. new = [tree EXCEPT ![c].groups = G]
  BY <1>1
<1>3. ASSUME NEW g \in DOMAIN G, NEW q \in DOMAIN G[g]
      PROVE  /\ g \in DOMAIN tree[c].groups /\ q \in DOMAIN tree[c].groups[g]
             /\ G[g][q] = tree[c].groups[g][q]
  BY <1>3 DEF Keep
<1> HIDE DEF G
<1>4. Regroups(d, tree, c, G, {}, new)
  BY <1>2, <1>3 DEF Regroups
<1> QED
  BY <1>4, Regrouped

(* The group g of c becomes X, with requirements of it or of more.         *)
Rewrites(d, tree, c, g, X, more, new) ==
  /\ WellFormed(d, tree) /\ c \in DOMAIN tree /\ g \in DOMAIN tree[c].groups
  /\ new = [tree EXCEPT ![c].groups[g] = X]
  /\ \A q \in DOMAIN X : \/ q \in DOMAIN tree[c].groups[g] /\ X[q] = tree[c].groups[g][q]
                         \/ X[q] \in more
  /\ \A x \in more : Accepts(d, x)
  /\ more = {} \/ validate_requirement_title_uniq(new)

LEMMA GroupChanged ==
  ASSUME NEW d, NEW tree, NEW c, NEW g, NEW X, NEW more, NEW new,
         Rewrites(d, tree, c, g, X, more, new)
  PROVE  WellFormed(d, new) /\ Adds(tree, new, more)
<1> USE DEF Rewrites
<1> DEFINE G == [tree[c].groups EXCEPT ![g] = X]
<1>1. "groups" \in DOMAIN tree[c]
  BY DEF WellFormed
<1>2. new = [tree EXCEPT ![c].groups = G]
  BY <1>1
<1>3. DOMAIN G = DOMAIN tree[c].groups /\ G[g] = X
      /\ \A h \in DOMAIN G \ {g} : G[h] = tree[c].groups[h]
  OBVIOUS
<1> HIDE DEF G
<1>4. ASSUME NEW h \in DOMAIN G, NEW q \in DOMAIN G[h]
      PROVE  \/ /\ h \in DOMAIN tree[c].groups /\ q \in DOMAIN tree[c].groups[h]
                /\ G[h][q] = tree[c].groups[h][q]
             \/ G[h][q] \in more
  BY <1>3, <1>4
<1>5. Regroups(d, tree, c, G, more, new)
  BY <1>2, <1>4 DEF Regroups
<1> QED
  BY <1>5, Regrouped

LEMMA RequirementsPosted ==
  ASSUME NEW d, NEW tree, NEW c, NEW g, NEW r, NEW posts, NEW new,
         AddsRequirements(d, tree, c, g, r, posts, new)
  PROVE  WellFormed(d, new) /\ Adds(tree, new, {posts[j] : j \in DOMAIN posts})
<1> USE DEF AddsRequirements
<1> DEFINE X == With(tree[c].groups[g], [i \in {<<r, j>> : j \in DOMAIN posts} |-> posts[i[2]]])
<1> DEFINE more == {posts[j] : j \in DOMAIN posts}
<1>1. "groups" \in DOMAIN tree[c]
  BY DEF WellFormed
<1>2. new = [tree EXCEPT ![c].groups[g] = X]
  BY <1>1
<1> DEFINE Y == [i \in {<<r, j>> : j \in DOMAIN posts} |-> posts[i[2]]]
<1>3. ASSUME NEW q \in DOMAIN X
      PROVE  (q \in DOMAIN tree[c].groups[g] /\ X[q] = tree[c].groups[g][q]) \/ X[q] \in more
  <2>1. CASE q \in DOMAIN tree[c].groups[g]
    BY <1>3, <2>1 DEF With
  <2>2. CASE q \notin DOMAIN tree[c].groups[g]
    <3>1. q \in DOMAIN Y /\ X[q] = Y[q]
      BY <1>3, <2>2 DEF With
    <3>2. PICK j \in DOMAIN posts : q = <<r, j>>
      BY <3>1
    <3>3. Y[q] = posts[j]
      BY <3>1, <3>2
    <3> QED
      BY <3>1, <3>3
  <2> QED
    BY <2>1, <2>2
<1>4. \A x \in more : Accepts(d, x)
  OBVIOUS
<1> HIDE DEF X, more
<1>5. Rewrites(d, tree, c, g, X, more, new)
  BY <1>2, <1>3, <1>4 DEF Rewrites
<1>6. WellFormed(d, new) /\ Adds(tree, new, more)
  BY <1>5, GroupChanged
<1> QED
  BY <1>6 DEF more

LEMMA RequirementPatched ==
  ASSUME NEW d, NEW tree, WellFormed(d, tree),
         NEW c \in DOMAIN tree, NEW g \in DOMAIN tree[c].groups, NEW q \in DOMAIN tree[c].groups[g],
         NEW x, NEW new, new = [tree EXCEPT ![c].groups[g][q] = x],
         Accepts(d, x), validate_requirement_title_uniq(new)
  PROVE  WellFormed(d, new) /\ Adds(tree, new, {x})
<1> DEFINE X == [tree[c].groups[g] EXCEPT ![q] = x]
<1>1. "groups" \in DOMAIN tree[c]
  BY DEF WellFormed
<1>2. new = [tree EXCEPT ![c].groups[g] = X]
  BY <1>1
<1>3. ASSUME NEW p \in DOMAIN X
      PROVE  (p \in DOMAIN tree[c].groups[g] /\ X[p] = tree[c].groups[g][p]) \/ X[p] \in {x}
  BY <1>3
<1> HIDE DEF X
<1>4. Rewrites(d, tree, c, g, X, {x}, new)
  BY <1>2, <1>3 DEF Rewrites
<1> QED
  BY <1>4, GroupChanged

LEMMA RequirementDeleted ==
  ASSUME NEW d, NEW tree, WellFormed(d, tree),
         NEW c \in DOMAIN tree, NEW g \in DOMAIN tree[c].groups, NEW q,
         NEW new, new = [tree EXCEPT ![c].groups[g] = Keep(@, DOMAIN @ \ {q})]
  PROVE  WellFormed(d, new)
<1> DEFINE X == Keep(tree[c].groups[g], DOMAIN tree[c].groups[g] \ {q})
<1>1. "groups" \in DOMAIN tree[c]
  BY DEF WellFormed
<1>2. new = [tree EXCEPT ![c].groups[g] = X]
  BY <1>1
<1>3. ASSUME NEW p \in DOMAIN X
      PROVE  p \in DOMAIN tree[c].groups[g] /\ X[p] = tree[c].groups[g][p]
  BY <1>3 DEF Keep
<1> HIDE DEF X
<1>4. Rewrites(d, tree, c, g, X, {}, new)
  BY <1>2, <1>3 DEF Rewrites
<1> QED
  BY <1>4, GroupChanged

-----------------------------------------------------------------------------
(* The steps of Next.                                                      *)

LEMMA AnswerVars ==
  ASSUME VarsOK, NEW r \in Requests, NEW answer \in {"ok", "failed"}, Answer(r, answer),
         own' \in SUBSET Profiles, excused' \in SUBSET Profiles
  PROVE  VarsOK'
BY DEF VarsOK, Answer

(* r replaces the document that it read by the next revision of new.       *)
LEMMA ReplaceStep ==
  ASSUME IInv, NEW r \in Requests, pc[r] \in {"read", "ready"}, NEW new, Replace(r, new),
         DocOK(doc[r], new), new.rev = copy[r].rev,
         own \subseteq own', own' \subseteq Profiles,
         IF doc[r] \in Profiles THEN Excuse(r, doc[r]) ELSE UNCHANGED excused,
         doc[r] \in Trees => new.agreement = copy[r].agreement \/ doc[r] \in own'
  PROVE  IInv'
<1> DEFINE x == [new EXCEPT !.rev = @ + 1]
<1>1. /\ Matches(r) /\ Answer(r, "ok")
      /\ docs' = [docs EXCEPT ![doc[r]] = x]
  BY DEF Replace
<1>2. /\ doc[r] \in Ids /\ Exists(doc[r]) /\ DocOK(doc[r], copy[r])
      /\ copy[r].rev \in Nat \ {0} /\ docs[doc[r]].rev = copy[r].rev
  BY <1>1, ReaderFacts DEF Working, Matches
<1>3. "rev" \in DOMAIN new
  BY <1>2 DEF DocOK, Ids, Trees
<1>4. /\ x.rev = copy[r].rev + 1 /\ DOMAIN x = DOMAIN new
      /\ x.agreement = new.agreement /\ x.criteria = new.criteria /\ x.responses = new.responses
      /\ x.status = new.status
  BY <1>3
<1>5. x.rev \in Nat \ {0} /\ x.rev > docs[doc[r]].rev
  BY <1>2, <1>4
<1> HIDE DEF x
<1>6. DocOK(doc[r], x)
  BY <1>4, <1>5 DEF DocOK
<1>7. excused \subseteq excused' /\ excused' \in SUBSET Profiles
  BY DEF Excuse, IInv, VarsOK
<1>8. VarsOK'
  BY <1>1, <1>7, AnswerVars DEF IInv
<1>9. ASSUME doc[r] = Category PROVE x.agreement = docs[Category].agreement
  <2>1. Category \notin Profiles /\ Category \in Trees
    BY DistinctAssumption DEF Trees
  <2>2. copy[r] = docs[Category]
    BY <1>1, <1>9, <2>1 DEF IInv, ReaderOK, Working
  <2> QED
    BY <1>4, <1>9, <2>1, <2>2
<1>10. ASSUME doc[r] \in Profiles
       PROVE  \/ doc[r] \in own' \cup excused'
              \/ Moving = {} /\ x.agreement = docs[Category].agreement
  <2>1. doc[r] \in Trees
    BY <1>10 DEF Trees
  <2>2. CASE r \in late
    BY <1>10, <2>2 DEF Excuse
  <2>3. CASE r \notin late /\ doc[r] \notin own' \cup excused'
    <3>1. FreshOK(r)
      BY DEF IInv
    <3>2. Moving = {} /\ copy[r].agreement = docs[Category].agreement
      BY <1>7, <1>10, <2>3, <3>1 DEF FreshOK
    <3> QED
      BY <1>4, <2>1, <2>3, <3>2
  <2> QED
    BY <2>2, <2>3
<1> QED
  BY <1>1, <1>2, <1>5, <1>6, <1>7, <1>8, <1>9, <1>10, PutStep

(* r saves the document that it read with other criteria.                  *)
LEMMA TreeStep ==
  ASSUME IInv, NEW r \in Requests, pc[r] \in {"read", "ready"}, doc[r] \in Trees,
         NEW new, WellFormed(doc[r], new), SaveTree(r, new)
  PROVE  IInv'
<1> DEFINE y == [copy[r] EXCEPT !.criteria = new]
<1>1. DocOK(doc[r], copy[r])
  BY ReaderFacts DEF Working
<1>2. /\ y.criteria = new /\ y.agreement = copy[r].agreement /\ y.rev = copy[r].rev
      /\ DOMAIN y = DOMAIN copy[r]
  BY <1>1 DEF DocOK
<1>3. Save(r, y)
  BY DEF SaveTree
<1> HIDE DEF y
<1>4. doc[r] \notin Answering
  BY DistinctAssumption DEF Trees
<1>5. DocOK(doc[r], y)
  BY <1>1, <1>2, <1>4 DEF DocOK
<1> QED
  BY <1>2, <1>3, <1>5, ReplaceStep DEF Save, IInv, VarsOK

(* The requests that edit criteria, groups and requirements.               *)
Edit(r) ==
  Edits(r, {"read", "ready"}) /\
     \/ \E a, b \in Classes : PostCriteria(r, <<a>>) \/ PostCriteria(r, <<a, b>>)
     \/ \E c \in DOMAIN Tree(r) :
          \/ \E class \in Classes : PatchCriterion(r, c, class)
          \/ DeleteCriterion(r, c) \/ PostGroup(r, c)
          \/ \E g \in DOMAIN Tree(r)[c].groups :
               \/ DeleteGroup(r, c, g)
               \/ \E posts \in IF doc[r] = Category THEN CategoryPosts ELSE ProfilePosts :
                    PostRequirements(r, c, g, posts)
               \/ \E q \in DOMAIN Tree(r)[c].groups[g] :
                    \/ DeleteRequirement(r, c, g, q)
                    \/ \E patch \in Patches : PatchRequirement(r, c, g, q, patch)

(* What an edit comes to: after the category was read, whatever it adds has*)
(* been compared with the category.                                        *)
Edited(r, new) ==
  /\ pc[r] \in {"read", "ready"} /\ doc[r] \in Trees
  /\ SaveTree(r, new) /\ WellFormed(doc[r], new)
  /\ pc[r] = "ready" => \E more :
       /\ Adds(Tree(r), new, more)
       /\ validate_profile_requirements(more, category[r].criteria)

LEMMA EditStep ==
  ASSUME IInv, NEW r \in Requests, Edit(r)
  PROVE  \E new : Edited(r, new)
<1>1. pc[r] \in {"read", "ready"} /\ doc[r] \in Trees
  BY DEF Edit, Edits
<1>2. WellFormed(doc[r], Tree(r))
  BY <1>1, ReaderFacts DEF Working, DocOK, Tree
<1>3. ASSUME NEW classes, \A j \in DOMAIN classes : classes[j] \in Classes, PostCriteria(r, classes)
      PROVE  \E new : Edited(r, new)
  <2> DEFINE new == With(Tree(r), [i \in {<<r, j>> : j \in DOMAIN classes} |->
                                     [class |-> classes[i[2]], groups |-> << >>]])
  <2>1. pc[r] = "read" /\ validate_criteria_classification_uniq(new) /\ SaveTree(r, new)
    BY <1>3 DEF PostCriteria, Edits
  <2>2. AddsCriteria(doc[r], Tree(r), r, classes, new)
    BY <1>2, <1>3, <2>1 DEF AddsCriteria
  <2> HIDE DEF new
  <2>3. WellFormed(doc[r], new)
    BY <2>2, CriteriaPosted
  <2> QED
    BY <1>1, <2>1, <2>3 DEF Edited
<1>4. ASSUME NEW c \in DOMAIN Tree(r), NEW class \in Classes, PatchCriterion(r, c, class)
      PROVE  \E new : Edited(r, new)
  <2> DEFINE new == [Tree(r) EXCEPT ![c].class = class]
  <2>1. /\ pc[r] = "read" /\ SaveTree(r, new)
        /\ \A d \in DOMAIN Tree(r) \ {c} : Tree(r)[d].class # class
    BY <1>4 DEF PatchCriterion, Edits
  <2>2. WellFormed(doc[r], new)
    BY <1>2, <2>1, CriterionPatched
  <2> QED
    BY <1>1, <2>1, <2>2 DEF Edited
<1>5. ASSUME NEW c \in DOMAIN Tree(r), DeleteCriterion(r, c)
      PROVE  \E new : Edited(r, new)
  <2> DEFINE new == Keep(Tree(r), DOMAIN Tree(r) \ {c})
  <2>1. pc[r] = "read" /\ SaveTree(r, new)
    BY <1>5 DEF DeleteCriterion, Edits
  <2>2. WellFormed(doc[r], new)
    BY <1>2, CriterionDeleted
  <2> QED
    BY <1>1, <2>1, <2>2 DEF Edited
<1>6. ASSUME NEW c \in DOMAIN Tree(r), PostGroup(r, c)
      PROVE  \E new : Edited(r, new)
  <2> DEFINE new == [Tree(r) EXCEPT ![c].groups = With(@, [g \in {<<r, 1>>} |-> << >>])]
  <2>1. pc[r] = "read" /\ SaveTree(r, new)
    BY <1>6 DEF PostGroup, Edits
  <2>2. WellFormed(doc[r], new)
    BY <1>2, GroupPosted
  <2> QED
    BY <1>1, <2>1, <2>2 DEF Edited
<1>7. ASSUME NEW c \in DOMAIN Tree(r), NEW g, DeleteGroup(r, c, g)
      PROVE  \E new : Edited(r, new)
  <2> DEFINE new == [Tree(r) EXCEPT ![c].groups = Keep(@, DOMAIN @ \ {g})]
  <2>1. pc[r] = "read" /\ SaveTree(r, new)
    BY <1>7 DEF DeleteGroup, Edits
  <2>2. WellFormed(doc[r], new)
    BY <1>2, GroupDeleted
  <2> QED
    BY <1>1, <2>1, <2>2 DEF Edited
<1>8. ASSUME NEW c \in DOMAIN Tree(r), NEW g \in DOMAIN Tree(r)[c].groups, NEW posts,
             PostRequirements(r, c, g, posts)
      PROVE  \E new : Edited(r, new)
  <2> DEFINE new == [Tree(r) EXCEPT ![c].groups[g] =
                       With(@, [i \in {<<r, j>> : j \in DOMAIN posts} |-> posts[i[2]]])]
             more == {posts[j] : j \in DOMAIN posts}
  <2>1. /\ \A j \in DOMAIN posts : Accepts(doc[r], posts[j])
        /\ Validated(r, more) /\ validate_requirement_title_uniq(new) /\ SaveTree(r, new)
    BY <1>8 DEF PostRequirements
  <2>2. AddsRequirements(doc[r], Tree(r), c, g, r, posts, new)
    BY <1>2, <2>1 DEF AddsRequirements
  <2> HIDE DEF new
  <2>3. WellFormed(doc[r], new) /\ Adds(Tree(r), new, more)
    BY <2>2, RequirementsPosted
  <2> HIDE DEF more
  <2> QED
    BY <1>1, <2>1, <2>3 DEF Edited, Validated
<1>9. ASSUME NEW c \in DOMAIN Tree(r), NEW g \in DOMAIN Tree(r)[c].groups, NEW q,
             DeleteRequirement(r, c, g, q)
      PROVE  \E new : Edited(r, new)
  <2> DEFINE new == [Tree(r) EXCEPT ![c].groups[g] = Keep(@, DOMAIN @ \ {q})]
  <2>1. pc[r] = "read" /\ SaveTree(r, new)
    BY <1>9 DEF DeleteRequirement, Edits
  <2>2. WellFormed(doc[r], new)
    BY <1>2, RequirementDeleted
  <2> QED
    BY <1>1, <2>1, <2>2 DEF Edited
<1>10. ASSUME NEW c \in DOMAIN Tree(r), NEW g \in DOMAIN Tree(r)[c].groups,
              NEW q \in DOMAIN Tree(r)[c].groups[g], NEW patch, PatchRequirement(r, c, g, q, patch)
       PROVE  \E new : Edited(r, new)
  <2> DEFINE x   == Patched(Tree(r)[c].groups[g][q], patch)
             new == [Tree(r) EXCEPT ![c].groups[g][q] = x]
  <2>1. /\ Accepts(doc[r], x)
        /\ Validated(r, {x}) /\ validate_requirement_title_uniq(new) /\ SaveTree(r, new)
    BY <1>10 DEF PatchRequirement
  <2>2. WellFormed(doc[r], new) /\ Adds(Tree(r), new, {x})
    BY <1>2, <2>1, RequirementPatched
  <2> HIDE DEF new, x
  <2> QED
    BY <1>1, <2>1, <2>2 DEF Edited, Validated
<1>11. ASSUME NEW a \in Classes, NEW b \in Classes
       PROVE  /\ \A j \in DOMAIN <<a>> : <<a>>[j] \in Classes
              /\ \A j \in DOMAIN <<a, b>> : <<a, b>>[j] \in Classes
  OBVIOUS
<1> QED
  BY <1>3, <1>4, <1>5, <1>6, <1>7, <1>8, <1>9, <1>10, <1>11 DEF Edit

(* A new product or product request, a new profile.                        *)
LEMMA InsertStep ==
  ASSUME IInv, NEW r \in Requests, NEW d \in Answering, NEW responses \in Responses,
         InsertReady(r, d), Insert(r, d, responses)
  PROVE  IInv'
<1> DEFINE x == [rev |-> 1, responses |-> responses, status |-> "active"]
<1>1. /\ pc[r] = "read" /\ ~ Exists(d) /\ docs' = [docs EXCEPT ![d] = x] /\ Answer(r, "ok")
      /\ own' = own /\ excused' = excused
  BY DEF InsertReady, Insert
<1>2. d \in Ids /\ d # Category /\ d \notin Profiles /\ d \notin Trees
  BY DistinctAssumption DEF Ids, Trees
<1>3. DocOK(d, x)
  BY <1>2 DEF DocOK, Statuses
<1> HIDE DEF x
<1>4. VarsOK'
  BY <1>1, AnswerVars DEF IInv, VarsOK
<1> QED
  BY <1>1, <1>2, <1>3, <1>4, PutStep

(* The three requests that insert.                                         *)
Inserts(r, d) ==
  \/ d \in Products /\ \E responses \in Responses : CreateProduct(r, d, responses)
  \/ d \in ProductRequests /\ \E responses \in Responses : SubmitProduct(r, d, responses)
  \/ d \in Products /\ \E q \in ProductRequests : AcceptProduct(r, d, q)

LEMMA Inserted ==
  ASSUME IInv, NEW r \in Requests, NEW d, Inserts(r, d)
  PROVE  /\ d \in Answering /\ InsertReady(r, d)
         /\ \E responses \in Responses :
              /\ Insert(r, d, responses)
              /\ \/ validate_product_req_responses_to_category(Tree(r), responses, {}, {})
                 \/ /\ d \in Products
                    /\ \E q \in ProductRequests : Exists(q) /\ responses = docs[q].responses
<1>1. ASSUME NEW q \in ProductRequests, Exists(q) PROVE docs[q].responses \in Responses
  BY <1>1 DEF IInv, DocsOK, DocOK, Ids, Answering
<1> QED
  BY <1>1 DEF Inserts, CreateProduct, SubmitProduct, AcceptProduct, Answering

LEMMA CreateProfileStep ==
  ASSUME IInv, NEW r \in Requests, NEW f \in Profiles, NEW agreement \in Agreements \cup {Nil},
         CreateProfile(r, f, agreement)
  PROVE  IInv'
<1> DEFINE x == [rev |-> 1, criteria |-> << >>,
                 agreement |-> IF agreement = Nil THEN copy[r].agreement ELSE agreement]
<1>1. /\ pc[r] = "read" /\ doc[r] = Category /\ ~ Exists(f)
      /\ docs' = [docs EXCEPT ![f] = x] /\ Answer(r, "ok") /\ Excuse(r, f)
      /\ own' = IF agreement = Nil THEN own ELSE own \cup {f}
  BY DEF CreateProfile
<1>2. f \in Ids /\ f # Category /\ f \notin Answering /\ f \in Trees /\ Category \in Trees
  BY DistinctAssumption DEF Ids, Trees
<1>3. copy[r].agreement \in Agreements
  BY <1>1, <1>2, ReaderFacts DEF Working, DocOK
<1>4. WellFormed(f, << >>)
  <2>1. Slots(<< >>) = {}
    BY DEF Slots
  <2> QED
    BY <2>1 DEF WellFormed, validate_requirement_title_uniq, validate_criteria_classification_uniq
<1>5. DocOK(f, x)
  BY <1>2, <1>3, <1>4 DEF DocOK
<1>6. agreement = Nil => x.agreement = copy[r].agreement
  OBVIOUS
<1> HIDE DEF x
<1>7. own \subseteq own' /\ own' \subseteq Profiles /\ excused \subseteq excused' /\ excused' \subseteq Profiles
  BY <1>1 DEF IInv, VarsOK, Excuse
<1>8. VarsOK'
  BY <1>1, <1>7, AnswerVars DEF IInv
<1>9. ASSUME f \notin own' \cup excused'
      PROVE  Moving = {} /\ x.agreement = docs[Category].agreement
  <2>1. agreement = Nil /\ r \notin late
    BY <1>1, <1>9 DEF Excuse
  <2>2. FreshOK(r)
    BY DEF IInv
  <2> QED
    BY <1>1, <1>6, <2>1, <2>2 DEF FreshOK
<1> QED
  BY <1>1, <1>2, <1>5, <1>7, <1>8, <1>9, PutStep

(* A profile or a product is saved with another agreement or other         *)
(* responses, or with nothing that is modelled.                            *)
LEMMA PatchProfileStep ==
  ASSUME IInv, NEW r \in Requests, NEW agreement \in Agreements, PatchProfile(r, agreement)
  PROVE  IInv'
<1> DEFINE y == [copy[r] EXCEPT !.agreement = agreement]
<1>1. /\ pc[r] = "read" /\ doc[r] \in Profiles /\ Replace(r, y)
      /\ own' = own \cup {doc[r]} /\ Excuse(r, doc[r])
  BY DEF PatchProfile
<1>2. DocOK(doc[r], copy[r]) /\ doc[r] \in Trees /\ doc[r] \notin Answering
  BY <1>1, ReaderFacts, DistinctAssumption DEF Working, Trees
<1>3. /\ y.agreement = agreement /\ y.criteria = copy[r].criteria /\ y.rev = copy[r].rev
      /\ DOMAIN y = DOMAIN copy[r]
  BY <1>2 DEF DocOK
<1> HIDE DEF y
<1>4. DocOK(doc[r], y)
  BY <1>2, <1>3 DEF DocOK
<1>5. own \subseteq own' /\ own' \subseteq Profiles
  BY <1>1 DEF IInv, VarsOK
<1> QED
  BY <1>1, <1>3, <1>4, <1>5, ReplaceStep

LEMMA PatchProductStep ==
  ASSUME IInv, NEW r \in Requests, NEW responses \in Responses, NEW status \in Statuses,
         PatchProduct(r, responses, status)
  PROVE  IInv'
<1> DEFINE y == [copy[r] EXCEPT !.responses = responses, !.status = status]
<1>1. pc[r] = "ready" /\ doc[r] \in Products /\ Save(r, y)
  BY DEF PatchProduct
<1>2. DocOK(doc[r], copy[r]) /\ doc[r] \notin Trees /\ doc[r] \in Answering
  BY <1>1, ReaderFacts, DistinctAssumption DEF Working, Trees, Answering
<1>3. {"rev", "responses", "status"} \subseteq DOMAIN copy[r]
  BY <1>2 DEF DocOK
<1>4. y.responses = responses /\ y.status = status /\ y.rev = copy[r].rev /\ DOMAIN y = DOMAIN copy[r]
  BY <1>3
<1> HIDE DEF y
<1>5. DocOK(doc[r], y)
  BY <1>2, <1>4 DEF DocOK
<1> QED
  BY <1>1, <1>2, <1>4, <1>5, ReplaceStep DEF Save, IInv, VarsOK

LEMMA TouchStep ==
  ASSUME IInv, NEW r \in Requests, Touch(r)
  PROVE  IInv'
<1>1. PICK y : y = copy[r]
  OBVIOUS
<1>2. pc[r] = "read" /\ Save(r, y)
  BY <1>1 DEF Touch, Edits
<1>3. DocOK(doc[r], y)
  BY <1>1, <1>2, ReaderFacts DEF Working
<1> QED
  BY <1>1, <1>2, <1>3, ReplaceStep DEF Save, IInv, VarsOK

LEMMA IInvStep == IInv /\ [Next]_vars => IInv'
<1> SUFFICES ASSUME IInv, [Next]_vars PROVE IInv'
  OBVIOUS
<1>1. ASSUME NEW r \in Requests, NEW d \in Ids, Read(r, d) PROVE IInv'
  <2>1. VarsOK'
    BY <1>1 DEF IInv, VarsOK, Read
  <2> QED
    BY <1>1, <2>1, ReadStep
<1>2. ASSUME NEW r \in Requests, ReadCategory(r) PROVE IInv'
  <2>1. VarsOK'
    BY <1>2 DEF IInv, VarsOK, ReadCategory, history
  <2> QED
    BY <1>2, <2>1, ReadCategoryStep
<1>3. ASSUME NEW r \in Requests, Fail(r) PROVE IInv'
  <2>1. VarsOK'
    <3>1. own' \in SUBSET Profiles /\ excused' \in SUBSET Profiles /\ Answer(r, "failed")
      BY <1>3 DEF IInv, VarsOK, Fail
    <3> QED
      BY <3>1, AnswerVars DEF IInv
  <2> QED
    BY <1>3, <2>1, FailStep
<1>4. ASSUME NEW r \in Requests, MoveEnd(r) PROVE IInv'
  <2>1. VarsOK'
    <3>1. own' \in SUBSET Profiles /\ excused' \in SUBSET Profiles /\ Answer(r, "ok")
      BY <1>4 DEF IInv, VarsOK, MoveEnd, Save, Replace, Excuse
    <3> QED
      BY <3>1, AnswerVars DEF IInv
  <2> QED
    BY <1>4, <2>1, MoveEndStep
<1>5. ASSUME NEW r \in Requests, NEW agreement \in Agreements, MoveStart(r, agreement) PROVE IInv'
  <2>1. VarsOK'
    BY <1>5 DEF IInv, VarsOK, MoveStart
  <2> QED
    BY <1>5, <2>1, MoveStartStep
<1>6. ASSUME NEW r \in Requests, NEW f \in Profiles, MoveProfile(r, f) PROVE IInv'
  <2>1. VarsOK'
    BY <1>6 DEF IInv, VarsOK, MoveProfile, history
  <2> QED
    BY <1>6, <2>1, MoveProfileStep
<1>7. ASSUME NEW r \in Requests, Edit(r) PROVE IInv'
  BY <1>7, EditStep, TreeStep DEF Edited
<1>8. CASE UNCHANGED vars
  <2>1. VarsOK' /\ DocsOK' /\ FollowersAgree'
    BY <1>8 DEF vars, reqVars, history, IInv, VarsOK, DocsOK, DocOK, FollowersAgree, Moving, Exists
  <2>2. ASSUME NEW r \in Requests PROVE ReaderOK(r)' /\ FreshOK(r)' /\ MoverOK(r)'
    BY <1>8 DEF vars, reqVars, history, IInv, ReaderOK, FreshOK, MoverOK, Moving, Matches, Exists, Followers
  <2> QED
    BY <2>1, <2>2 DEF IInv
<1>9. ASSUME NEW r \in Requests, NEW d, Inserts(r, d)
      PROVE  IInv'
  BY <1>9, Inserted, InsertStep
<1>10. ASSUME NEW d \in Trees \cup Products PROVE d \in Ids
  BY DEF Trees, Ids, Answering
<1> QED
  BY <1>1, <1>2, <1>3, <1>4, <1>5, <1>6, <1>7, <1>8, <1>9, <1>10, TouchStep, PatchProfileStep,
     PatchProductStep, CreateProfileStep DEF Next, Edit, Inserts

LEMMA Inductive == Spec => []IInv
<1> QED
  BY InitIInv, IInvStep, PTL DEF Spec

-----------------------------------------------------------------------------
(* Type correctness; among it, that the criteria of every stored document  *)
(* are well formed, whatever edits were made to them.                      *)
THEOREM TypeCorrect == Spec => []TypeOK
<1>1. IInv => TypeOK
  BY DEF IInv, TypeOK, VarsOK, DocsOK, DocOK
<1> QED
  BY <1>1, Inductive, PTL

(* A profile without an agreement of its own has that of its category when *)
(* no PATCH of the category is handing one on.                             *)
THEOREM FollowersTheorem == Spec => []FollowersAgree
<1>1. IInv => FollowersAgree
  BY DEF IInv
<1> QED
  BY <1>1, Inductive, PTL

(* What ArchivedNotAnsweredAnew says of a step and of one document.        *)
ArchivedFor(d) ==
  /\ OnMarket(docs'[d]) => \A t \in Answered(docs'[d]) \ Answered(docs[d]) :
       \/ \E r \in Requests : StoresOffered(r, t)
       \/ /\ d \in Products /\ ~ Exists(d)
          /\ \E q \in ProductRequests : Exists(q) /\ docs'[d].responses = docs[q].responses
  /\ Exists(d) /\ ~ OnMarket(docs[d]) => ~ OnMarket(docs'[d])

(* A step writes such a document only by an insertion or by PatchProduct.  *)
LEMMA ArchivedStep ==
  ASSUME IInv, [Next]_vars, NEW d \in Answering
  PROVE  ArchivedFor(d)
<1> SUFFICES ASSUME docs'[d] # docs[d] PROVE ArchivedFor(d)
  BY DEF ArchivedFor
<1>1. d \in Ids /\ d # Category /\ d \notin Profiles /\ d \notin Trees /\ DOMAIN docs = Ids
  BY DistinctAssumption DEF Ids, Trees, IInv, DocsOK
<1>2. ASSUME NEW r \in Requests, InsertReady(r, d), NEW responses, Insert(r, d, responses),
             \/ validate_product_req_responses_to_category(Tree(r), responses, {}, {})
             \/ /\ d \in Products
                /\ \E q \in ProductRequests : Exists(q) /\ responses = docs[q].responses
      PROVE  ArchivedFor(d)
  <2>1. /\ docs'[d] = [rev |-> 1, responses |-> responses, status |-> "active"]
        /\ pc[r] = "read" /\ doc[r] = Category /\ pc'[r] = "ok" /\ ~ Exists(d)
    BY <1>1, <1>2 DEF InsertReady, Insert, Answer, IInv, VarsOK
  <2>2. docs'[d] # Absent /\ docs'[d].responses = responses
    BY <2>1 DEF Absent
  <2>3. Answered(docs'[d]) = DOMAIN responses
    BY <2>2 DEF Answered
  <2>4. CategoryOf(r).criteria = Tree(r)
    BY <2>1 DEF CategoryOf, Tree
  <2>5. ASSUME NEW t \in DOMAIN responses,
               validate_product_req_responses_to_category(Tree(r), responses, {}, {})
        PROVE  StoresOffered(r, t)
    BY <2>1, <2>4, <2>5 DEF StoresOffered, validate_product_req_responses_to_category
  <2> QED
    BY <1>2, <2>1, <2>2, <2>3, <2>5 DEF ArchivedFor
<1>3. ASSUME NEW r \in Requests, NEW responses, NEW status, PatchProduct(r, responses, status)
      PROVE  ArchivedFor(d)
  <2> DEFINE y == [copy[r] EXCEPT !.responses = responses, !.status = status]
             x == [y EXCEPT !.rev = @ + 1]
  <2>1. /\ pc[r] = "ready" /\ doc[r] \in Products /\ pc'[r] = "ok" /\ Matches(r)
        /\ docs' = [docs EXCEPT ![doc[r]] = x] /\ copy[r].status = "active"
        /\ status = "active" /\ responses # copy[r].responses =>
             validate_product_req_responses_to_category(
               category[r].criteria, responses, DOMAIN copy[r].responses, {})
    BY <1>3 DEF PatchProduct, Save, Replace, Answer, IInv, VarsOK
  <2>2. doc[r] = d
    BY <1>1, <2>1
  <2>3. DocOK(d, copy[r]) /\ Exists(d)
    BY <2>1, <2>2, ReaderFacts DEF Working
  <2>4. copy[r] = docs[d]
    BY <1>1, <2>1, <2>2 DEF IInv, ReaderOK, Working
  <2>5. docs[d] # Absent
    BY <2>3 DEF Exists, Absent
  <2>6. OnMarket(docs[d]) /\ Answered(docs[d]) = DOMAIN copy[r].responses
    BY <2>1, <2>4, <2>5 DEF OnMarket, Answered
  <2>7. docs'[d] = x /\ x.responses = responses /\ x.status = status
    <3>1. {"rev", "responses", "status"} \subseteq DOMAIN copy[r]
      BY <2>3 DEF DocOK
    <3>2. y.responses = responses /\ y.status = status
      BY <3>1
    <3> QED
      BY <1>1, <2>1, <2>2, <3>2
  <2>8. CategoryOf(r) = category[r]
    BY <1>1, <2>2 DEF CategoryOf
  <2> HIDE DEF x, y
  <2>9. ASSUME OnMarket(docs'[d]), NEW t \in Answered(docs'[d]) \ Answered(docs[d])
        PROVE  StoresOffered(r, t)
    <3>1. status = "active" /\ t \in DOMAIN responses
      BY <2>7, <2>9 DEF OnMarket, Answered
    <3>2. t \notin DOMAIN copy[r].responses
      BY <2>6, <2>9
    <3>3. validate_product_req_responses_to_category(
            category[r].criteria, responses, DOMAIN copy[r].responses, {})
      BY <2>1, <3>1, <3>2
    <3> QED
      BY <2>1, <2>8, <3>1, <3>2, <3>3 DEF StoresOffered, validate_product_req_responses_to_category
  <2> QED
    BY <2>6, <2>9 DEF ArchivedFor
<1>4. ASSUME NEW r \in Requests, NEW e, Inserts(r, e)
      PROVE  ArchivedFor(d)
  <2>1. /\ InsertReady(r, e)
        /\ \E responses \in Responses :
             /\ Insert(r, e, responses)
             /\ \/ validate_product_req_responses_to_category(Tree(r), responses, {}, {})
                \/ /\ e \in Products
                   /\ \E q \in ProductRequests : Exists(q) /\ responses = docs[q].responses
    BY <1>4, Inserted
  <2>2. e = d
    BY <1>1, <2>1 DEF Insert
  <2> QED
    BY <1>2, <2>1, <2>2
<1>5. ASSUME NEW r \in Requests, NEW y, doc[r] \in Trees, Replace(r, y) PROVE FALSE
  BY <1>1, <1>5 DEF Replace
<1>6. ASSUME NEW r \in Requests, Edit(r) PROVE FALSE
  BY <1>5, <1>6, EditStep DEF Edited, SaveTree, Save
<1>7. ASSUME NEW r \in Requests, Touch(r) \/ MoveEnd(r) PROVE FALSE
  <2>1. doc[r] \in Trees
    BY <1>7 DEF Touch, Edits, MoveEnd, IInv, ReaderOK, Working, Trees
  <2> QED
    BY <1>5, <1>7, <2>1 DEF Touch, MoveEnd, Save
<1>8. ASSUME NEW r \in Requests, NEW agreement, PatchProfile(r, agreement) PROVE FALSE
  BY <1>5, <1>8 DEF PatchProfile, Trees
<1>9. ASSUME NEW r \in Requests, NEW f \in Profiles, NEW agreement, CreateProfile(r, f, agreement)
      PROVE  FALSE
  BY <1>1, <1>9 DEF CreateProfile
<1>10. ASSUME NEW r \in Requests, NEW f \in Profiles, MoveProfile(r, f) PROVE FALSE
  BY <1>1, <1>10 DEF MoveProfile
<1>11. ASSUME \/ UNCHANGED vars
              \/ \E r \in Requests, e \in Trees \cup Products : Read(r, e)
              \/ \E r \in Requests : ReadCategory(r) \/ Fail(r)
              \/ \E r \in Requests, agreement \in Agreements : MoveStart(r, agreement)
       PROVE  FALSE
  BY <1>11 DEF vars, Read, ReadCategory, Fail, MoveStart
<1> QED
  BY <1>3, <1>4, <1>6, <1>7, <1>8, <1>9, <1>10, <1>11 DEF Next, Edit, Inserts

(* A product on the market, or a product request, answers a requirement    *)
(* anew only if it was not archived in the category that the request read, *)
(* unless the product is an accepted request's; and what was taken off the *)
(* market, whatever it answers, does not come back.                        *)
THEOREM ArchivedTheorem == Spec => ArchivedNotAnsweredAnew
<1>1. IInv /\ [Next]_vars =>
        [\A d \in Answering :
           /\ OnMarket(docs'[d]) => \A t \in Answered(docs'[d]) \ Answered(docs[d]) :
                \/ \E r \in Requests : StoresOffered(r, t)
                \/ /\ d \in Products /\ ~ Exists(d)
                   /\ \E q \in ProductRequests : Exists(q) /\ docs'[d].responses = docs[q].responses
           /\ Exists(d) /\ ~ OnMarket(docs[d]) => ~ OnMarket(docs'[d])]_vars
  BY ArchivedStep DEF ArchivedFor
<1> QED
  BY <1>1, Inductive, PTL DEF Spec, ArchivedNotAnsweredAnew

-----------------------------------------------------------------------------
(* What validate_profile_requirement asks of a profile's requirement is    *)
(* enough for it to accept no response that the category's would refuse.   *)
(* This is about every requirement and every response, not about a probe.  *)
(* Left out are the pattern and the lists of moments that no one compares. *)
Compared(requirement, parent, response) ==
  /\ ProfileRequirement(requirement) /\ CategoryRequirement(parent)
  /\ validate_profile_requirement(requirement, parent)
  /\ ~ Has(parent, "pattern")
  /\ ~ (parent.dataType = "datetime" /\ Has(requirement, "expectedValues"))
  /\ IsResponse(response) /\ validate_req_response(requirement, response)

THEOREM NarrowingTheorem ==
  \A requirement, parent, response :
    Compared(requirement, parent, response) => validate_req_response(parent, response)
<1> SUFFICES ASSUME NEW r, NEW parent, NEW response, Compared(r, parent, response)
             PROVE  validate_req_response(parent, response)
  OBVIOUS
<1>1. /\ Fields(r) /\ check_types(r) /\ validate_available_values(r)
      /\ Fields(parent) /\ check_types(parent) /\ validate_available_values(parent)
      /\ CategoryFields(parent) /\ CategoryItems(parent) /\ validate_number_requirements(parent)
      /\ validate_profile_requirement(r, parent)
      /\ IsResponse(response) /\ validate_req_response(r, response)
      /\ ~ Has(parent, "pattern") /\ ~ (parent.dataType = "datetime" /\ Has(r, "expectedValues"))
  BY DEF Compared, ProfileRequirement, CategoryRequirement, BaseValid
<1>2. PICK values : values = IF Has(response, "value") THEN <<response.value>> ELSE response.values
  OBVIOUS
<1>3. /\ values \in Seq(Value) /\ validate_req_response_values(r, values)
      /\ IF Has(r, "expectedValues") THEN ~ Has(response, "value") ELSE ~ Has(response, "values")
      /\ Has(response, "value") <=> ~ Has(response, "values")
  BY <1>1, <1>2 DEF IsResponse, validate_req_response, Has
<1>4. r.dataType = parent.dataType
  BY <1>1 DEF validate_profile_requirement
<1>5. ASSUME NEW f \in {"minValue", "maxValue"}, Has(parent, f)
      PROVE  /\ parent[f] \in Value /\ Numeric(parent[f]) /\ r.dataType \in {"integer", "number"}
             /\ ~ Has(parent, "expectedValue") /\ ~ Has(parent, "expectedValues")
  <2>1. /\ parent[f] \in Value /\ parent[f].type \in {"int", "float"}
        /\ IsA(parent[f], parent.dataType) /\ parent.dataType \in DOMAIN TYPEMAP
    BY <1>1, <1>5 DEF Fields, CategoryFields, check_types, Has
  <2>2. parent.dataType \in {"integer", "number"}
    BY <2>1 DEF IsA, TYPEMAP
  <2> QED
    BY <1>1, <1>4, <1>5, <2>1, <2>2 DEF Numeric, validate_available_values, Has
<1>6. ASSUME NEW f \in {"minValue", "maxValue", "expectedValue"}, Has(r, f),
             r.dataType \in {"integer", "number"}
      PROVE  r[f] \in Value /\ Numeric(r[f])
  <2>1. r[f] \in Value /\ IsA(r[f], r.dataType)
    BY <1>1, <1>6 DEF Fields, check_types, Has
  <2> QED
    BY <1>6, <2>1 DEF IsA, TYPEMAP, Numeric
<1>7. Has(parent, "minValue") \/ Has(parent, "maxValue") =>
        \/ /\ Has(r, "expectedValue")
           /\ Has(parent, "minValue") => r.expectedValue.n >= parent.minValue.n
           /\ Has(parent, "maxValue") => r.expectedValue.n <= parent.maxValue.n
        \/ /\ Has(parent, "minValue") => Has(r, "minValue") /\ r.minValue.n >= parent.minValue.n
           /\ Has(parent, "maxValue") => Has(r, "maxValue") /\ r.maxValue.n <= parent.maxValue.n
  <2> SUFFICES ASSUME Has(parent, "minValue") \/ Has(parent, "maxValue"), ~ Has(r, "expectedValue")
               PROVE  /\ Has(parent, "minValue") => Has(r, "minValue") /\ r.minValue.n >= parent.minValue.n
                      /\ Has(parent, "maxValue") => Has(r, "maxValue") /\ r.maxValue.n <= parent.maxValue.n
    BY <1>1 DEF validate_profile_requirement
  <2>1. validate_requirement_values_range(r, parent, "minValue", "maxValue")
    BY <1>1 DEF validate_profile_requirement
  <2> QED
    BY <1>5, <1>6, <2>1 DEF validate_requirement_values_range
<1>8. IF Has(parent, "expectedValues") THEN ~ Has(response, "value") ELSE ~ Has(response, "values")
  <2>1. CASE Has(parent, "expectedValues")
    <3>1. parent.expectedValues # {}
      BY <1>1, <2>1 DEF CategoryItems
    <3>2. Has(r, "expectedValues")
      BY <1>1, <2>1, <3>1 DEF validate_profile_requirement
    <3> QED
      BY <1>3, <2>1, <3>2
  <2>2. CASE ~ Has(parent, "expectedValues")
    <3>1. CASE Has(parent, "expectedValue")
      BY <1>1, <1>3, <2>2, <3>1 DEF validate_profile_requirement, validate_available_values, Has
    <3>2. CASE Has(parent, "minValue") \/ Has(parent, "maxValue")
      BY <1>1, <1>3, <1>7, <2>2, <3>2 DEF validate_available_values, Has
    <3>3. CASE ~ (Has(parent, "expectedValue") \/ Has(parent, "minValue") \/ Has(parent, "maxValue"))
      <4>1. parent.dataType \in {"boolean", "datetime"}
        BY <1>1, <2>2, <3>3 DEF CategoryItems, validate_number_requirements, Fields, TYPEMAP
      <4> QED
        BY <1>1, <1>3, <1>4, <2>2, <4>1 DEF validate_profile_requirement, Has
    <3> QED
      BY <3>1, <3>2, <3>3
  <2> QED
    BY <2>1, <2>2
<1>9. ASSUME NEW i \in DOMAIN values
      PROVE  /\ IsA(values[i], parent.dataType)
             /\ ~ (parent.dataType = "number" /\ values[i].type = "bool")
             /\ Has(parent, "expectedValue") => Same(values[i], parent.expectedValue)
             /\ Has(parent, "minValue") => values[i].n >= parent.minValue.n
             /\ Has(parent, "maxValue") => values[i].n <= parent.maxValue.n
             /\ \A f \in {"pattern", "expectedValues"} \cap DOMAIN parent : values[i] \in parent[f]
  <2>1. PICK v : v = values[i]
    OBVIOUS
  <2>2. v \in Value
    BY <1>3, <2>1
  <2>3. /\ IsA(v, r.dataType) /\ ~ (r.dataType = "number" /\ v.type = "bool")
        /\ Has(r, "expectedValue") => Same(v, r.expectedValue)
        /\ Has(r, "minValue") => v.n >= r.minValue.n
        /\ Has(r, "maxValue") => v.n <= r.maxValue.n
        /\ Has(r, "expectedValues") => v \in r.expectedValues
    BY <1>3, <2>1 DEF validate_req_response_values, Has
  <2>4. Has(parent, "expectedValue") => Same(v, parent.expectedValue)
    BY <1>1, <2>3 DEF validate_profile_requirement, Same
  <2>5. Has(parent, "expectedValues") => v \in parent.expectedValues
    BY <1>1, <2>3 DEF validate_profile_requirement, CategoryItems
  <2>6. Has(parent, "minValue") => v.n >= parent.minValue.n
    <3> SUFFICES ASSUME Has(parent, "minValue") PROVE v.n >= parent.minValue.n
      OBVIOUS
    <3>1. parent.minValue.n \in Int /\ v.n \in Int /\ r.dataType \in {"integer", "number"}
      BY <1>5, <2>2 DEF Value
    <3>2. CASE Has(r, "expectedValue") /\ r.expectedValue.n >= parent.minValue.n
      BY <2>3, <3>1, <3>2 DEF Same
    <3>3. CASE Has(r, "minValue") /\ r.minValue.n >= parent.minValue.n
      <4>1. r.minValue.n \in Int
        BY <1>6, <3>1, <3>3 DEF Value
      <4> QED
        BY <2>3, <3>1, <3>3, <4>1
    <3> QED
      BY <1>7, <3>2, <3>3
  <2>7. Has(parent, "maxValue") => v.n <= parent.maxValue.n
    <3> SUFFICES ASSUME Has(parent, "maxValue") PROVE v.n <= parent.maxValue.n
      OBVIOUS
    <3>1. parent.maxValue.n \in Int /\ v.n \in Int /\ r.dataType \in {"integer", "number"}
      BY <1>5, <2>2 DEF Value
    <3>2. CASE Has(r, "expectedValue") /\ r.expectedValue.n <= parent.maxValue.n
      BY <2>3, <3>1, <3>2 DEF Same
    <3>3. CASE Has(r, "maxValue") /\ r.maxValue.n <= parent.maxValue.n
      <4>1. r.maxValue.n \in Int
        BY <1>6, <3>1, <3>3 DEF Value
      <4> QED
        BY <2>3, <3>1, <3>3, <4>1
    <3> QED
      BY <1>7, <3>2, <3>3
  <2> QED
    BY <1>1, <1>4, <2>1, <2>3, <2>4, <2>5, <2>6, <2>7 DEF Has
<1>10. /\ Has(parent, "expectedMinItems") => Len(values) >= parent.expectedMinItems.n
       /\ Has(parent, "expectedMaxItems") => Len(values) <= parent.expectedMaxItems.n
  <2> SUFFICES ASSUME Has(parent, "expectedMinItems") \/ Has(parent, "expectedMaxItems")
               PROVE  /\ Has(parent, "expectedMinItems") => Len(values) >= parent.expectedMinItems.n
                      /\ Has(parent, "expectedMaxItems") => Len(values) <= parent.expectedMaxItems.n
    OBVIOUS
  <2>1. Has(parent, "expectedValues") /\ parent.expectedValues # {}
    BY <1>1 DEF CategoryItems, Has
  <2>2. validate_requirement_values_range(r, parent, "expectedMinItems", "expectedMaxItems")
    BY <1>1, <2>1 DEF validate_profile_requirement
  <2>3. ASSUME NEW x, NEW f \in {"expectedMinItems", "expectedMaxItems"}, Fields(x), Has(x, f)
        PROVE  x[f].n \in Int /\ Numeric(x[f])
    BY <2>3 DEF Fields, Has, Value, Numeric
  <2>4. Len(values) \in Int
    BY <1>3
  <2>5. /\ Has(r, "expectedMinItems") => Len(values) >= r.expectedMinItems.n
        /\ Has(r, "expectedMaxItems") => Len(values) <= r.expectedMaxItems.n
    BY <1>3 DEF validate_req_response_values
  <2> QED
    BY <1>1, <2>2, <2>3, <2>4, <2>5 DEF validate_requirement_values_range
<1>11. validate_req_response_values(parent, values)
  BY <1>3, <1>9, <1>10 DEF validate_req_response_values
<1>12. DOMAIN response # {}
  BY <1>1 DEF validate_req_response
<1> QED
  BY <1>2, <1>8, <1>11, <1>12 DEF validate_req_response

LEMMA TitledIn ==
  ASSUME NEW tree, NEW title \in Titles(tree)
  PROVE  SlotOf(tree, title) \in Slots(tree)
BY DEF Titles, SlotOf

(* A requirement that was compared with the category narrows it.           *)
LEMMA NarrowerIf ==
  ASSUME NEW tree, WellFormed(Category, tree), NEW x, ProfileRequirement(x),
         x.title \in Titles(tree), validate_profile_requirement(x, Titled(tree, x.title))
  PROVE  Narrower(x, Titled(tree, x.title))
<1>1. PICK parent : parent = Titled(tree, x.title)
  OBVIOUS
<1>2. Accepts(Category, parent)
  BY <1>1, TitledIn DEF WellFormed, Titled
<1>3. CategoryRequirement(parent)
  BY <1>2, DistinctAssumption DEF Accepts
<1>4. validate_profile_requirement(x, parent)
  BY <1>1
<1>5. ~ Flag(parent, "isArchived")
  BY <1>4 DEF validate_profile_requirement
<1>6. PICK plain : plain = Unpatterned(parent)
  OBVIOUS
<1>7. /\ DOMAIN plain = DOMAIN parent \ {"pattern"}
      /\ \A f \in DOMAIN plain : plain[f] = parent[f]
  BY <1>6 DEF Unpatterned, Keep
<1>8. ASSUME NEW response \in Probes, validate_req_response(x, response),
             ~ (parent.dataType = "datetime" /\ Has(x, "expectedValues"))
      PROVE  validate_req_response(plain, response)
  <2>1. CategoryRequirement(plain)
    BY <1>3, <1>7 DEF CategoryRequirement, BaseValid, Fields, check_types, validate_available_values,
       validate_max_min_range, validate_unit_exist_to_data_type, validate_data_schema, CategoryFields,
       CategoryItems, validate_number_requirements, Has
  <2>2. plain.dataType = parent.dataType
    BY <1>3, <1>7 DEF CategoryRequirement, BaseValid, Fields
  <2>3. validate_profile_requirement(x, plain)
    BY <1>4, <1>7, <2>2 DEF validate_profile_requirement, validate_requirement_values_range, SameField,
       Flag, Has
  <2>4. ~ Has(plain, "pattern")
    BY <1>7 DEF Has
  <2>5. IsResponse(response)
    BY ProbesAssumption
  <2> QED
    BY <1>8, <2>1, <2>2, <2>3, <2>4, <2>5, NarrowingTheorem DEF Compared
<1> QED
  BY <1>1, <1>5, <1>6, <1>8 DEF Narrower

(* Once it has read the category, a request on a profile stores only by an *)
(* edit.                                                                   *)
LEMMA NarrowerStep ==
  ASSUME IInv, [Next]_vars, NEW r \in Requests,
         pc[r] = "ready", pc'[r] = "ok", doc[r] \in Profiles,
         NEW s \in Slots(docs'[doc[r]].criteria)
  PROVE  LET new == docs'[doc[r]].criteria
             parents == category[r].criteria IN
         \/ s \in Slots(Tree(r)) /\ At(new, s) = At(Tree(r), s)
         \/ At(new, s).title \in Titles(parents) /\ Narrower(At(new, s), Titled(parents, At(new, s).title))
<1>1. pc \in [Requests -> {"idle", "read", "ready", "moving", "ok", "failed"}]
  BY DEF IInv, VarsOK
<1>2. doc[r] \in Ids /\ doc[r] \in Trees /\ doc[r] \notin Products /\ DOMAIN docs = Ids
  BY DistinctAssumption DEF Ids, Trees, Answering, IInv, DocsOK
<1>3. ASSUME NEW q \in Requests, Answer(q, "ok") PROVE q = r
  BY <1>1, <1>3 DEF Answer
<1>4. Edit(r)
  <2>1. ASSUME NEW q \in Requests, Edit(q) PROVE q = r
    BY <1>3, <2>1, EditStep DEF Edited, SaveTree, Save, Replace
  <2>2. ~ UNCHANGED vars
    BY DEF vars, reqVars
  <2>3. ASSUME NEW q \in Requests PROVE ~ Touch(q) /\ ~ MoveEnd(q) /\ ~ ReadCategory(q) /\ ~ Fail(q)
    BY <1>1, <1>3 DEF Touch, Edits, MoveEnd, Save, Replace, ReadCategory, Fail, Answer
  <2>4. ASSUME NEW q \in Requests, NEW d, NEW a PROVE ~ Read(q, d) /\ ~ MoveStart(q, a) /\ ~ MoveProfile(q, d)
    BY <1>1 DEF Read, MoveStart, MoveProfile
  <2>5. ASSUME NEW q \in Requests, NEW d, NEW a
        PROVE  /\ ~ PatchProfile(q, a) /\ ~ CreateProfile(q, d, a)
               /\ ~ CreateProduct(q, d, a) /\ ~ SubmitProduct(q, d, a) /\ ~ AcceptProduct(q, d, a)
    BY <1>3 DEF PatchProfile, Replace, CreateProfile, CreateProduct, SubmitProduct, AcceptProduct,
       InsertReady, Insert
  <2>6. ASSUME NEW q \in Requests, NEW a, NEW b PROVE ~ PatchProduct(q, a, b)
    BY <1>2, <1>3 DEF PatchProduct, Save, Replace
  <2> QED
    BY <2>1, <2>2, <2>3, <2>4, <2>5, <2>6 DEF Next, Edit
<1>5. PICK new : Edited(r, new)
  BY <1>4, EditStep
<1>6. PICK more : Adds(Tree(r), new, more) /\ validate_profile_requirements(more, category[r].criteria)
  BY <1>5 DEF Edited
<1>7. DocOK(doc[r], copy[r]) /\ DocOK(Category, category[r])
  BY ReaderFacts DEF Working, IInv, ReaderOK
<1>8. docs'[doc[r]].criteria = new
  <2>1. {"rev", "criteria"} \subseteq DOMAIN copy[r]
    BY <1>2, <1>7 DEF DocOK
  <2>2. docs' = [docs EXCEPT ![doc[r]] = [[copy[r] EXCEPT !.criteria = new] EXCEPT !.rev = @ + 1]]
    BY <1>5 DEF Edited, SaveTree, Save, Replace
  <2> QED
    BY <1>2, <2>1, <2>2
<1>9. PICK parents : parents = category[r].criteria /\ WellFormed(Category, parents)
  BY <1>7 DEF DocOK, Trees
<1>10. PICK x : x = At(new, s)
  OBVIOUS
<1>11. CASE s \in Slots(Tree(r)) /\ At(new, s) = At(Tree(r), s)
  BY <1>8, <1>11
<1>12. CASE x \in more
  <2>1. x.title \in Titles(parents) /\ validate_profile_requirement(x, Titled(parents, x.title))
    BY <1>6, <1>9, <1>12 DEF validate_profile_requirements
  <2>2. ProfileRequirement(x)
    BY <1>5, <1>8, <1>10 DEF Edited, WellFormed, Accepts
  <2>3. Narrower(x, Titled(parents, x.title))
    BY <1>9, <2>1, <2>2, NarrowerIf
  <2> QED
    BY <1>8, <1>9, <1>10, <2>1, <2>3
<1> QED
  BY <1>6, <1>8, <1>10, <1>11, <1>12 DEF Adds

(* Whatever a request stores in a profile, having read the category, asks  *)
(* no more than the category accepts, and nothing that was archived there. *)
THEOREM NarrowerTheorem == Spec => ProfileNarrower
<1>1. IInv /\ [Next]_vars =>
        [\A r \in Requests :
           LET new == docs'[doc[r]].criteria
               parents == category[r].criteria IN
           /\ pc[r] = "ready" /\ pc'[r] = "ok" /\ doc[r] \in Profiles
           => \A s \in Slots(new) :
                \/ s \in Slots(Tree(r)) /\ At(new, s) = At(Tree(r), s)
                \/ At(new, s).title \in Titles(parents) /\ Narrower(At(new, s), Titled(parents, At(new, s).title))]_vars
  BY NarrowerStep
<1> QED
  BY <1>1, Inductive, PTL DEF Spec, ProfileNarrower
=============================================================================
