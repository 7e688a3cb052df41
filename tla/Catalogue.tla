------------------------------ MODULE Catalogue ------------------------------
(***************************************************************************)
(* A category, its profiles and its products: the requests that edit the   *)
(* criteria of the first two (handlers/base_criteria.py, profile.py,       *)
(* category.py), the answers of the products and of the product requests   *)
(* that become products, and the agreementID that a PATCH of the category  *)
(* hands on to the profiles (state/category.py).                           *)
(*                                                                         *)
(* A request reads the document it is about; requests on a profile's       *)
(* requirement or on a product then read the category, against which they  *)
(* validate; then the document is replaced, if its _rev is still the one   *)
(* read.  The category may change in between.  update_profiles_agreement_id*)
(* writes to the profiles by UpdateOne's, which leave their _rev alone.    *)
(*                                                                         *)
(* What a request may contain is in the module Requirements.  Ids are named*)
(* after the request that made them (uuid4).  Revisions are numbers: the   *)
(* documents all have one and none is deleted (see Documents).             *)
(***************************************************************************)
EXTENDS Requirements

CONSTANTS Category,      \* the _id of the category
          Profiles,      \* _id's of its profiles
          Products,      \* _id's of its products
          ProductRequests, \* _id's of contributors' requests for a product
          Requests,      \* API requests; each one is handled once
          Agreements,    \* agreements that validate_agreement accepts
          Classes,       \* classifications of criteria
          CategoryPosts, \* lists of requirements posted to a category
          ProfilePosts,  \* lists of requirements posted to a profile
          Patches,       \* bodies of a PATCH of a requirement
          Responses,     \* requirementResponses, functions from titles
          Probes,        \* responses by which requirements are compared
          FirstCriteria, \* criteria of the category at the start
          FirstProfiles, \* criteria of the profiles that are there at the start
          Nil

Answering == Products \cup ProductRequests  \* the documents that have responses
Ids   == {Category} \cup Profiles \cup Answering
Trees == {Category} \cup Profiles           \* those that have criteria

(* Of a product; what is said of "inactive" goes for "hidden" too.         *)
Statuses == {"active", "inactive"}

(* What the models say of a requirement of the document d.                 *)
Accepts(d, requirement) ==
  IF d \in Profiles THEN ProfileRequirement(requirement) ELSE CategoryRequirement(requirement)

(* A document's criteria are well formed: the requirements are what the    *)
(* models accept, titles and classifications are unique in it.  Everything *)
(* that compares a profile or a product with its category goes by titles.  *)
WellFormed(d, tree) ==
  /\ \A c \in DOMAIN tree : {"class", "groups"} \subseteq DOMAIN tree[c] /\ tree[c].class \in Classes
  /\ \A s \in Slots(tree) : Accepts(d, At(tree, s))
  /\ validate_requirement_title_uniq(tree)
  /\ validate_criteria_classification_uniq(tree)

ASSUME DistinctAssumption ==
  /\ Category \notin Profiles \cup Answering
  /\ Profiles \cap Answering = {} /\ Products \cap ProductRequests = {}
  /\ Nil \notin Ids \cup Agreements \cup Requests
ASSUME FirstAssumption ==
  /\ \A tree \in FirstCriteria : WellFormed(Category, tree)
  /\ \A f \in Profiles, tree \in FirstProfiles : WellFormed(f, tree)
ASSUME ProbesAssumption == \A response \in Probes : IsResponse(response)

VARIABLES docs,      \* docs[d]: the stored document, or Absent
          pc,        \* where each request is
          doc,       \* the document it read first
          copy,      \* what it read there
          category,  \* the category it read after that, or Nil
          to,        \* the agreement it gives the category, or Nil
          queue,     \* the profiles for which it has an UpdateOne to send
          own,       \* history: profiles that were given an agreement of their own
          late,      \* history: requests that read before a propagation ended
          excused    \* history: profiles that may differ from the category

reqVars == <<pc, doc, copy, category, to, queue>>
history == <<own, late, excused>>
vars    == <<docs, reqVars, history>>

Absent    == [rev |-> 0]
Exists(d) == docs[d].rev > 0

Moving == {r \in Requests : pc[r] = "moving"}

Init ==
  /\ \E tree \in FirstCriteria, agreement \in Agreements,
        trees \in [Profiles -> FirstProfiles \cup {Nil}], answers \in [Answering -> Responses \cup {Nil}] :
       docs = [d \in Ids |->
         IF d = Category THEN [rev |-> 1, agreement |-> agreement, criteria |-> tree]
         ELSE IF d \in Profiles
         THEN IF trees[d] = Nil THEN Absent ELSE [rev |-> 1, agreement |-> agreement, criteria |-> trees[d]]
         ELSE IF answers[d] = Nil THEN Absent
              ELSE [rev |-> 1, responses |-> answers[d], status |-> "active"]]
  /\ pc = [r \in Requests |-> "idle"]
  /\ doc = [r \in Requests |-> Nil]
  /\ copy = [r \in Requests |-> Nil]
  /\ category = [r \in Requests |-> Nil]
  /\ to = [r \in Requests |-> Nil]
  /\ queue = [r \in Requests |-> {}]
  /\ own = {} /\ late = {} /\ excused = {}

-----------------------------------------------------------------------------
Answer(r, answer) ==
  /\ pc' = [pc EXCEPT ![r] = answer]
  /\ doc' = [doc EXCEPT ![r] = Nil]
  /\ copy' = [copy EXCEPT ![r] = Nil]
  /\ category' = [category EXCEPT ![r] = Nil]
  /\ to' = [to EXCEPT ![r] = Nil]
  /\ queue' = [queue EXCEPT ![r] = {}]
  /\ late' = late \ {r}

(* read_object.  What is read while a propagation is on may be older than  *)
(* what the propagation does.                                              *)
Read(r, d) ==
  /\ pc[r] = "idle"
  /\ Exists(d)
  /\ pc' = [pc EXCEPT ![r] = "read"]
  /\ doc' = [doc EXCEPT ![r] = d]
  /\ copy' = [copy EXCEPT ![r] = docs[d]]
  /\ late' = IF Moving = {} THEN late ELSE late \cup {r}
  /\ UNCHANGED <<docs, category, to, queue, own, excused>>

(* The body of a request on a profile or a product reads the category.     *)
ReadCategory(r) ==
  /\ pc[r] = "read"
  /\ doc[r] \in Profiles \cup Products
  /\ pc' = [pc EXCEPT ![r] = "ready"]
  /\ category' = [category EXCEPT ![r] = docs[Category]]
  /\ UNCHANGED <<docs, doc, copy, to, queue, history>>

(* Mutant: the filter has only the _id.                                    *)
MatchesById(r) == Exists(doc[r])

(* The filter of find_one_and_replace.                                     *)
Matches(r) == docs[doc[r]].rev = copy[r].rev

(* update_object, at the end of read_and_update_*.                         *)
Replace(r, new) ==
  /\ Matches(r)
  /\ docs' = [docs EXCEPT ![doc[r]] = [new EXCEPT !.rev = @ + 1]]
  /\ Answer(r, "ok")

(* A request that writes a profile having read before a propagation ended. *)
Excuse(r, f) == excused' = IF r \in late THEN excused \cup {f} ELSE excused

Save(r, new) ==
  /\ Replace(r, new)
  /\ IF doc[r] \in Profiles THEN Excuse(r, doc[r]) ELSE UNCHANGED excused
  /\ UNCHANGED own

(* A validation fails, or update_object finds nothing (409).  The profiles *)
(* that a PATCH of the category has moved by then stay moved.              *)
Fail(r) ==
  /\ pc[r] \in {"read", "ready", "moving"}
  /\ excused' = IF pc[r] = "moving" THEN excused \cup {f \in Profiles : Exists(f)} ELSE excused
  /\ Answer(r, "failed")
  /\ UNCHANGED <<docs, own>>

-----------------------------------------------------------------------------
(* Criteria, groups and requirements.                                      *)
Edits(r, states) == pc[r] \in states /\ doc[r] \in Trees
Tree(r)          == copy[r].criteria
SaveTree(r, new) == Save(r, [copy[r] EXCEPT !.criteria = new])
Keep(f, keys)    == [x \in keys |-> f[x]]
With(f, more)    == [x \in DOMAIN f \cup DOMAIN more |-> IF x \in DOMAIN f THEN f[x] ELSE more[x]]

(* POST of a list of criteria.                                             *)
PostCriteria(r, classes) ==
  LET new == With(Tree(r), [i \in {<<r, j>> : j \in DOMAIN classes} |->
                              [class |-> classes[i[2]], groups |-> << >>]]) IN
  /\ Edits(r, {"read"})
  /\ validate_criteria_classification_uniq(new)
  /\ SaveTree(r, new)

(* PATCH of a criterion, whose classification is compared with the others  *)
(* of the old document.                                                    *)
PatchCriterion(r, c, class) ==
  /\ Edits(r, {"read"})
  /\ c \in DOMAIN Tree(r)
  /\ \A d \in DOMAIN Tree(r) \ {c} : Tree(r)[d].class # class
  /\ SaveTree(r, [Tree(r) EXCEPT ![c].class = class])

(* DELETE is there for profiles only.                                      *)
DeleteCriterion(r, c) ==
  /\ Edits(r, {"read"}) /\ doc[r] \in Profiles
  /\ c \in DOMAIN Tree(r)
  /\ SaveTree(r, Keep(Tree(r), DOMAIN Tree(r) \ {c}))

(* POST of a requirement group: a second one only for the localization.    *)
PostGroup(r, c) ==
  /\ Edits(r, {"read"})
  /\ c \in DOMAIN Tree(r)
  /\ Tree(r)[c].class # Localization => DOMAIN Tree(r)[c].groups = {}
  /\ SaveTree(r, [Tree(r) EXCEPT ![c].groups = With(@, [g \in {<<r, 1>>} |-> << >>])])

(* PATCH of what is left out: the description of a group, the title or the *)
(* images of a category or a profile.                                      *)
Touch(r) == Edits(r, {"read"}) /\ Save(r, copy[r])

DeleteGroup(r, c, g) ==
  /\ Edits(r, {"read"}) /\ doc[r] \in Profiles
  /\ c \in DOMAIN Tree(r) /\ g \in DOMAIN Tree(r)[c].groups
  /\ SaveTree(r, [Tree(r) EXCEPT ![c].groups = Keep(@, DOMAIN @ \ {g})])

(* requirement_validations: a profile's are compared with the category's.  *)
Validated(r, requirements) ==
  IF doc[r] \in Profiles
  THEN /\ pc[r] = "ready"
       /\ validate_profile_requirements(requirements, category[r].criteria)
  ELSE pc[r] = "read"

(* POST of a list of requirements.                                         *)
PostRequirements(r, c, g, posts) ==
  LET new == [Tree(r) EXCEPT ![c].groups[g] =
                With(@, [i \in {<<r, j>> : j \in DOMAIN posts} |-> posts[i[2]]])] IN
  /\ Edits(r, {"read", "ready"})
  /\ c \in DOMAIN Tree(r) /\ g \in DOMAIN Tree(r)[c].groups
  /\ \A i \in DOMAIN posts : Accepts(doc[r], posts[i])
  /\ Validated(r, {posts[i] : i \in DOMAIN posts})
  /\ validate_requirement_title_uniq(new)
  /\ SaveTree(r, new)

(* requirement.update(data), then delete_sent_none_values: patch.set has   *)
(* the fields that were sent with a value, patch.drop those sent as None.  *)
Patched(requirement, patch) ==
  Keep(With(patch.set, requirement), (DOMAIN patch.set \cup DOMAIN requirement) \ patch.drop)

(* Mutant of PatchRequirement: the titles are not compared again.          *)
PatchRequirementTitled(r, c, g, q, patch) ==
  LET requirement == Patched(Tree(r)[c].groups[g][q], patch) IN
  /\ Edits(r, {"read", "ready"})
  /\ c \in DOMAIN Tree(r) /\ g \in DOMAIN Tree(r)[c].groups /\ q \in DOMAIN Tree(r)[c].groups[g]
  /\ doc[r] \in Profiles => ~ Has(patch.set, "isArchived")
  /\ Accepts(doc[r], requirement)
  /\ Validated(r, {requirement})
  /\ SaveTree(r, [Tree(r) EXCEPT ![c].groups[g][q] = requirement])

(* PATCH of a requirement, which is validated as a whole again.            *)
PatchRequirement(r, c, g, q, patch) ==
  LET requirement == Patched(Tree(r)[c].groups[g][q], patch)
      new == [Tree(r) EXCEPT ![c].groups[g][q] = requirement] IN
  /\ Edits(r, {"read", "ready"})
  /\ c \in DOMAIN Tree(r) /\ g \in DOMAIN Tree(r)[c].groups /\ q \in DOMAIN Tree(r)[c].groups[g]
  /\ doc[r] \in Profiles => ~ Has(patch.set, "isArchived")
  /\ Accepts(doc[r], requirement)
  /\ Validated(r, {requirement})
  /\ validate_requirement_title_uniq(new)
  /\ SaveTree(r, new)

DeleteRequirement(r, c, g, q) ==
  /\ Edits(r, {"read"}) /\ doc[r] \in Profiles
  /\ c \in DOMAIN Tree(r) /\ g \in DOMAIN Tree(r)[c].groups /\ q \in DOMAIN Tree(r)[c].groups[g]
  /\ SaveTree(r, [Tree(r) EXCEPT ![c].groups[g] = Keep(@, DOMAIN @ \ {q})])

-----------------------------------------------------------------------------
(* A new product or product request; the request has read the category.    *)
InsertReady(r, d) == pc[r] = "read" /\ doc[r] = Category /\ ~ Exists(d)

Insert(r, d, responses) ==
  /\ docs' = [docs EXCEPT ![d] = [rev |-> 1, responses |-> responses, status |-> "active"]]
  /\ Answer(r, "ok")
  /\ UNCHANGED <<own, excused>>

(* POST /products, once the category is read.                              *)
CreateProduct(r, p, responses) ==
  /\ InsertReady(r, p)
  /\ validate_product_req_responses_to_category(Tree(r), responses, {}, {})
  /\ Insert(r, p, responses)

(* POST of a product request: its product is validated as a product is.    *)
SubmitProduct(r, q, responses) ==
  /\ InsertReady(r, q)
  /\ validate_product_req_responses_to_category(Tree(r), responses, {}, {})
  /\ Insert(r, q, responses)

(* The acceptance of a product request reads the category too, but on_     *)
(* accept compares nothing with it.  That it is given once, Crowdsourcing  *)
(* has.                                                                    *)
AcceptProduct(r, p, q) ==
  /\ InsertReady(r, p)
  /\ Exists(q)
  /\ Insert(r, p, docs[q].responses)

(* PATCH /products/{id}, on_patch: not of a product that is off the market;*)
(* one that takes it off, or changes nothing, is not validated.            *)
PatchProduct(r, responses, status) ==
  /\ pc[r] = "ready" /\ doc[r] \in Products
  /\ copy[r].status = "active"
  /\ status = "active" /\ responses # copy[r].responses =>
       validate_product_req_responses_to_category(
         category[r].criteria, responses, DOMAIN copy[r].responses, {})
  /\ Save(r, [copy[r] EXCEPT !.responses = responses, !.status = status])

(* POST /profiles: with the agreement of the category as read, or with one *)
(* of its own.                                                             *)
CreateProfile(r, f, agreement) ==
  /\ pc[r] = "read" /\ doc[r] = Category
  /\ ~ Exists(f)
  /\ docs' = [docs EXCEPT ![f] =
       [rev |-> 1, criteria |-> << >>,
        agreement |-> IF agreement = Nil THEN copy[r].agreement ELSE agreement]]
  /\ own' = IF agreement = Nil THEN own ELSE own \cup {f}
  /\ Excuse(r, f)
  /\ Answer(r, "ok")

(* PATCH /profiles/{id} with an agreement.                                 *)
PatchProfile(r, agreement) ==
  /\ pc[r] = "read" /\ doc[r] \in Profiles
  /\ Replace(r, [copy[r] EXCEPT !.agreement = agreement])
  /\ own' = own \cup {doc[r]}
  /\ Excuse(r, doc[r])

-----------------------------------------------------------------------------
(* PATCH of the category with another agreement: update_profiles_agreement_*)
(* id finds the profiles, sends an UpdateOne for each, and only then are   *)
(* tags validated and the category replaced.                               *)
MoveStart(r, agreement) ==
  /\ pc[r] = "read" /\ doc[r] = Category
  /\ agreement # copy[r].agreement
  /\ pc' = [pc EXCEPT ![r] = "moving"]
  /\ to' = [to EXCEPT ![r] = agreement]
  /\ queue' = [queue EXCEPT ![r] = {f \in Profiles : Exists(f)}]
  /\ late' = late \cup {q \in Requests : pc[q] \in {"read", "ready"}}
  /\ UNCHANGED <<docs, doc, copy, category, own, excused>>

(* The next UpdateOne: its filter has the agreement the category had.      *)
MoveProfile(r, f) ==
  /\ pc[r] = "moving"
  /\ f \in queue[r]
  /\ queue' = [queue EXCEPT ![r] = @ \ {f}]
  /\ docs' = IF docs[f].agreement = copy[r].agreement
             THEN [docs EXCEPT ![f].agreement = to[r]] ELSE docs
  /\ UNCHANGED <<pc, doc, copy, category, to, history>>

MoveEnd(r) ==
  /\ pc[r] = "moving"
  /\ queue[r] = {}
  /\ Save(r, [copy[r] EXCEPT !.agreement = to[r]])

Next ==
  \/ \E r \in Requests, d \in Trees \cup Products : Read(r, d)
  \/ \E r \in Requests : ReadCategory(r) \/ Touch(r) \/ Fail(r) \/ MoveEnd(r)
  \/ \E r \in Requests, agreement \in Agreements : MoveStart(r, agreement) \/ PatchProfile(r, agreement)
  \/ \E r \in Requests, f \in Profiles :
       \/ MoveProfile(r, f)
       \/ \E agreement \in Agreements \cup {Nil} : CreateProfile(r, f, agreement)
  \/ \E r \in Requests, responses \in Responses :
       \/ \E status \in Statuses : PatchProduct(r, responses, status)
       \/ \E p \in Products : CreateProduct(r, p, responses)
       \/ \E q \in ProductRequests : SubmitProduct(r, q, responses)
  \/ \E r \in Requests, p \in Products, q \in ProductRequests : AcceptProduct(r, p, q)
  \/ \E r \in Requests : Edits(r, {"read", "ready"}) /\
       \/ \E a, b \in Classes : PostCriteria(r, <<a>>) \/ PostCriteria(r, <<a, b>>)
       \/ \E c \in DOMAIN Tree(r) :
            \/ \E class \in Classes : PatchCriterion(r, c, class)
            \/ DeleteCriterion(r, c) \/ PostGroup(r, c)
            \/ \E g \in DOMAIN Tree(r)[c].groups :
                 \/ DeleteGroup(r, c, g)
                 \/ \E posts \in IF doc[r] = Category THEN CategoryPosts ELSE ProfilePosts :
                      PostRequirements(r, c, g, posts)
                 \/ \E q \in DOMAIN Tree(r)[c].groups[g] :
                      \/ DeleteRequirement(r, c, g, q)
                      \/ \E patch \in Patches : PatchRequirement(r, c, g, q, patch)

Spec == Init /\ [][Next]_vars

-----------------------------------------------------------------------------
(* Type invariant.                                                         *)
TypeOK ==
  /\ \A d \in Ids : docs[d].rev \in Nat
  /\ \A d \in Ids : Exists(d) =>
       /\ d \in Trees => docs[d].agreement \in Agreements
       /\ d \in Trees => WellFormed(d, docs[d].criteria)
       /\ d \in Answering => docs[d].responses \in Responses /\ docs[d].status \in Statuses
  /\ pc \in [Requests -> {"idle", "read", "ready", "moving", "ok", "failed"}]
  /\ doc \in [Requests -> Ids \cup {Nil}]
  /\ to \in [Requests -> Agreements \cup {Nil}]
  /\ queue \in [Requests -> SUBSET Profiles]
  /\ own \in SUBSET Profiles /\ excused \in SUBSET Profiles /\ late \in SUBSET Requests

(* A profile narrows its category: whatever answer a requirement accepts   *)
(* that a request stored in a profile, the category's requirement accepts  *)
(* it too, as the request read it; and it was not archived there.  So no   *)
(* product is asked by a profile for what its category refuses.  Two things*)
(* are compared by no validator: the category's pattern, and that a moment *)
(* of the category is one value when the profile has a list of them.       *)
Unpatterned(requirement) == Keep(requirement, DOMAIN requirement \ {"pattern"})

Narrower(requirement, parent) ==
  /\ ~ Flag(parent, "isArchived")
  /\ \A response \in Probes : validate_req_response(requirement, response) =>
       \/ validate_req_response(Unpatterned(parent), response)
       \/ parent.dataType = "datetime" /\ Has(requirement, "expectedValues")

ProfileNarrower ==
  [][\A r \in Requests :
       LET new == docs'[doc[r]].criteria
           parents == category[r].criteria IN
       /\ pc[r] = "ready" /\ pc'[r] = "ok" /\ doc[r] \in Profiles
       => \A s \in Slots(new) :
            \/ s \in Slots(Tree(r)) /\ At(new, s) = At(Tree(r), s)
            \/ At(new, s).title \in Titles(parents) /\ Narrower(At(new, s), Titled(parents, At(new, s).title))]_vars

(* A requirement that is archived gets no new answers: a title that a      *)
(* product on the market had not answered, it answers only by a request    *)
(* that read a category in which it was not archived.  The code has two    *)
(* ways around this, which are excepted: a PATCH that takes the product off*)
(* the market may store any answers, but no PATCH puts such a product back;*)
(* and a product request that is accepted brings the answers that were     *)
(* offered by the category as it was when the request was submitted.       *)
OnMarket(x) == x # Absent /\ x.status = "active"
Answered(x) == IF x = Absent THEN {} ELSE DOMAIN x.responses

CategoryOf(r) == IF doc[r] = Category THEN copy[r] ELSE category[r]
StoresOffered(r, t) ==
  /\ pc[r] = "ready" \/ (pc[r] = "read" /\ doc[r] = Category)
  /\ pc'[r] = "ok"
  /\ t \in Titles(CategoryOf(r).criteria)
  /\ ~ Flag(Titled(CategoryOf(r).criteria, t), "isArchived")

ArchivedNotAnsweredAnew ==
  [][\A d \in Answering :
       /\ OnMarket(docs'[d]) => \A t \in Answered(docs'[d]) \ Answered(docs[d]) :
            \/ \E r \in Requests : StoresOffered(r, t)
            \/ /\ d \in Products /\ ~ Exists(d)
               /\ \E q \in ProductRequests : Exists(q) /\ docs'[d].responses = docs[q].responses
       /\ Exists(d) /\ ~ OnMarket(docs[d]) => ~ OnMarket(docs'[d])]_vars

(* A profile that was given no agreement of its own has that of its        *)
(* category whenever no PATCH is handing one on, with two exceptions that  *)
(* the code cannot exclude: a PATCH failed after it had moved profiles, or *)
(* a request wrote the profile that had read before a PATCH was done.      *)
FollowersAgree ==
  Moving = {} =>
    \A f \in Profiles \ (own \cup excused) :
      Exists(f) => docs[f].agreement = docs[Category].agreement
=============================================================================
