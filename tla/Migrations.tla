----------------------------- MODULE Migrations -----------------------------
(***************************************************************************)
(* What the scripts of catalog/migrations change in a document.  There is  *)
(* no state here: Migrating runs a script beside the API.                  *)
(*                                                                         *)
(* w is the database: w[d] is the document d, a record whose DOMAIN is the *)
(* fields it has.  cs_N(w, d) is the UpdateOne that the script cs_N sends  *)
(* for d when it reads w: the fields to set and to unset.  dateModified is *)
(* left to Migrating, as are the order and the transactions.               *)
(*                                                                         *)
(* A criterion is a record of its class and its requirements: it has one   *)
(* group.  A requirement is named by a title or by an id, of the record    *)
(* type Name.  The id's and texts that a script lists are constants.       *)
(***************************************************************************)
EXTENDS Integers, FiniteSets, Sequences, TLC

CONSTANTS Listed,     \* id's that a script lists: of categories or profiles
          Target,     \* id of the category it moves documents to
          NewClass,   \* the classification it gives
          Iso,        \* values that are country codes
          UnitNames,  \* UnitNames[code]: the standard's name of a unit
          ThisYear,   \* the year in which it runs
          Latin,      \* raw titles that are written like an id
          None

Py(type, n)     == [type |-> type, n |-> n]
Name(of, raw)   == [of |-> of, raw |-> raw]   \* of: "title", "" or, hashed, a profile
Has(r, f)       == f \in DOMAIN r
Get(r, f, else) == IF Has(r, f) THEN r[f] ELSE else
Drop(r, fields) == [f \in DOMAIN r \ fields |-> r[f]]
Items           == {"expectedValues", "expectedMinItems", "expectedMaxItems"}
Limits          == {"minValue", "maxValue"}

Put(set)          == [set |-> set, unset |-> {}]
NoChange          == Put(<< >>)
PutIf(cond, set)  == IF cond THEN Put(set) ELSE NoChange
Empty(change)     == DOMAIN change.set = {} /\ change.unset = {}
Apply(r, change)  == Drop(change.set @@ r, change.unset)

(* Only 15349 stores None for criteria.                                    *)
Criteria(r) ==
  LET given == Get(r, "criteria", << >>) IN IF given = None THEN << >> ELSE given
Requirements(r) ==
  UNION {{c.requirements[i] : i \in DOMAIN c.requirements} : c \in {Criteria(r)[i] : i \in DOMAIN Criteria(r)}}

(* Every requirement r of a criterion c that Sel picks becomes F(r); and   *)
(* the same of responses.  The scripts send nothing when none is picked.   *)
OnRequirements(doc, Sel(_, _), F(_)) ==
  LET New(c) == [c EXCEPT !.requirements =
                   [i \in DOMAIN @ |-> IF Sel(c, @[i]) THEN F(@[i]) ELSE @[i]]]
  IN IF \E i \in DOMAIN Criteria(doc) :
          \E j \in DOMAIN doc.criteria[i].requirements :
             Sel(doc.criteria[i], doc.criteria[i].requirements[j])
     THEN Put([criteria |-> [i \in DOMAIN doc.criteria |-> New(doc.criteria[i])]])
     ELSE NoChange

OnResponses(doc, Sel(_), F(_)) ==
  LET old == Get(doc, "responses", << >>) IN
  PutIf(\E i \in DOMAIN old : Sel(old[i]),
        [responses |-> [i \in DOMAIN old |-> IF Sel(old[i]) THEN F(old[i]) ELSE old[i]]])

(* The document that d's field names, without any field when there is none;*)
(* and the requirements of d's category of some data types.                *)
Named(w, d, field) ==
  IF Has(w[d], field) /\ w[d][field] \in DOMAIN w THEN w[w[d][field]] ELSE << >>
CategoryOf(w, d) == Named(w, d, "relatedCategory")
Offered(w, d, dataTypes) == {r \in Requirements(CategoryOf(w, d)) : r.dataType \in dataTypes}
Titles(reqs) == {r.title : r \in reqs}
Numbers == {"number", "integer"}
Local(doc) == \E i \in DOMAIN Criteria(doc) : doc.criteria[i].class = "LOC"
ProductsOf(w, d) ==
  {p \in DOMAIN w : /\ w[p].kind = "product"
                    /\ d \in {Get(w[p], "relatedCategory", "")} \cup Get(w[p], "relatedProfiles", {})}

(* str(v), and what int, float and bool make of v unless they raise.       *)
(* A string is the text of a number, of a Boolean or of neither ("text");  *)
(* floats are whole.                                                       *)
Text       == [int |-> "strInt", float |-> "strFloat", bool |-> "strBool"]
IsText(v)  == v.type \notin DOMAIN Text
AsStr(v)   == IF IsText(v) THEN v ELSE Py(Text[v.type], v.n)
Parses(dataType, v) ==
  CASE dataType = "integer" -> v.type \in {"int", "float", "bool", "strInt"}
    [] dataType = "number"  -> v.type \in {"int", "float", "bool", "strInt", "strFloat"}
    [] OTHER                -> TRUE
Cast(dataType, v) ==
  CASE dataType = "integer" -> Py("int", v.n)
    [] dataType = "number"  -> Py("float", v.n)
    [] dataType = "string"  -> AsStr(v)
    [] dataType = "boolean" -> Py("bool", IF ~ IsText(v) /\ v.n = 0 THEN 0 ELSE 1)
Instance(dataType, v) ==
  CASE dataType = "integer" -> v.type \in {"int", "bool"}
    [] dataType = "number"  -> v.type = "float"
    [] dataType = "string"  -> IsText(v)
    [] dataType = "boolean" -> v.type = "bool"

-----------------------------------------------------------------------------
(* Scripts that set or unset a field.                                      *)
cs_18454(w, d) == PutIf(w[d].status = "general", [status |-> "hidden"])
cs_13713(w, d) == PutIf(w[d].status # "hidden", [status |-> "hidden"])
cs_20828_hide(w, d) == PutIf(d \in Listed, [status |-> "hidden"])
cs_15522(w, d) == PutIf(~ Has(w[d], "dateCreated"), [dateCreated |-> w[d].dateModified])
cs_18754(w, d) == PutIf(w[d].owner = "cpb", [token |-> "new"])
cs_18827(w, d) == [set |-> << >>, unset |-> {"categories"}]
cs_17676(w, d) ==
  IF Has(w[d], "description") THEN [set |-> << >>, unset |-> {"description"}] ELSE NoChange
cs_17177(w, d) ==
  PutIf(/\ Has(w[d], "vendor") /\ w[d].status # "hidden"
        /\ Len(Get(w[d], "documents", << >>)) < 3, [status |-> "hidden"])
cs_16982(w, d) ==
  PutIf(/\ Has(w[d], "vendor") /\ w[d].status # "hidden"
        /\ w[d].dateCreated = ThisYear, [status |-> "hidden"])
cs_18012(w, d) ==
  LET year == w[d].dateCreated IN
  PutIf(Has(w[d], "vendor") /\ w[d].status # "inactive",
        [expirationDate |-> year,
         status |-> IF w[d].status = "hidden" \/ year < ThisYear THEN "inactive" ELSE w[d].status])
cs_20838(w, d) ==
  PutIf(/\ Has(w[d], "vendor") /\ w[d].status = "active"
        /\ w[d].expirationDate = ThisYear, [expirationDate |-> ThisYear + 1])

(* All files but the signature count; the one added says why.              *)
cs_20824(w, d) ==
  LET files == Get(w[d], "documents", << >>) IN
  PutIf(/\ Has(w[d], "vendor") /\ w[d].status = "active" /\ w[d].dateCreated < ThisYear
        /\ Cardinality({i \in DOMAIN files : files[i] # "sign.p7s"}) < 6,
        [status |-> "inactive", documents |-> Append(files, "reason"), expirationDate |-> ThisYear])

cs_16302(w, d) ==
  PutIf(w[d].owner = "owner" /\ Has(w[d], "unit") /\ w[d].unit.code = "RM",
        [unit |-> [code |-> "PK", name |-> UnitNames["PK"]]])
cs_20083(w, d) ==
  LET class == w[d].classification IN
  PutIf(class.id = NewClass /\ Has(class, "schema"),
        [classification |-> Drop([scheme |-> class.schema] @@ class, {"schema"})])
cs_21351(w, d) ==
  LET tags == Get(w[d], "tags", {}) IN
  PutIf(Local(w[d]) /\ "LOCAL" \notin tags, [tags |-> tags \cup {"LOCAL"}])
cs_13101(w, d) ==
  IF Has(w[d], "relatedProfile")
  THEN [set |-> [relatedProfiles |-> {w[d].relatedProfile}], unset |-> {"relatedProfile"}]
  ELSE NoChange

(* Only dateModified is set: of all documents; of those that share theirs. *)
cs_12110(w, d) == [set |-> << >>, unset |-> {"code"}]
Shares(w, d)   == \E e \in DOMAIN w \ {d} : /\ w[e].kind = w[d].kind
                                            /\ w[e].dateModified = w[d].dateModified

(* Scripts that copy from or move to a related document.                   *)
cs_16903(w, d) ==
  IF w[d].kind = "category"
  THEN IF Has(w[d], "procuringEntity")
       THEN [set |-> [marketAdministrator |-> w[d].procuringEntity], unset |-> {"procuringEntity"}]
       ELSE NoChange
  ELSE PutIf(~ Has(w[d], "marketAdministrator") /\ Has(CategoryOf(w, d), "marketAdministrator"),
             [marketAdministrator |-> CategoryOf(w, d).marketAdministrator])

(* Tables of one row: of products, and of all that belongs to a category.  *)
Reclassified(category) == PutIf(category \in Listed, [classification |-> [id |-> NewClass]])
OwnCategory(w, d)      == IF w[d].kind = "category" THEN d ELSE w[d].relatedCategory
cs_20491(w, d) == Reclassified(w[d].relatedCategory)
cs_20538(w, d) == Reclassified(OwnCategory(w, d))
cs_20827(w, d) == Reclassified(OwnCategory(w, d))
cs_21185(w, d) == Reclassified(OwnCategory(w, d))

(* An UpdateOne for all the listed categories hides one of them.  A        *)
(* category of the table has got the new class before the products that    *)
(* move to it are read.                                                    *)
cs_20381(w, d) ==
  IF w[d].kind = "product"
  THEN PutIf(w[d].relatedCategory \in Listed,
             [relatedCategory |-> CHOOSE c \in DOMAIN w : /\ w[c].kind = "category"
                                                          /\ w[c].classification.id = NewClass])
  ELSE LET hide == {c \in Listed \cap DOMAIN w : w[c].kind = "category"} IN
       IF hide # {} /\ d = (CHOOSE c \in hide : TRUE) THEN Put([status |-> "hidden"])
       ELSE PutIf(d = Target, [classification |-> [id |-> NewClass]])
cs_20828_patch(w, d) ==
  IF w[d].kind = "category" THEN PutIf(d = Target, [title |-> "compressors"])
  ELSE PutIf(w[d].relatedCategory \in Listed, [relatedCategory |-> Target])

(* Active products leave the old category: some are listed with their new  *)
(* one, others go by their class.                                          *)
cs_19049(w, d) ==
  IF w[d].status # "active" \/ w[d].relatedCategory # "old" THEN NoChange
  ELSE IF d \in Listed
  THEN PutIf(Target \in DOMAIN w,
             [relatedCategory |-> Target, classification |-> w[Target].classification])
  ELSE Put([relatedCategory |-> Target])

(* The first agreements found, the class being widened until there are any;*)
(* found[i] is what the external API has for the i-th.                     *)
cs_11945(w, d) ==
  LET found == w[d].agreements
      first == {i \in DOMAIN found : found[i] # {} /\ \A j \in 1..(i - 1) : found[j] = {}}
  IN PutIf(/\ ~ Has(w[d], "agreementID") /\ w[d].status # "general"
           /\ \E i \in first : Cardinality(found[i]) = 1,
           [agreementID |-> CHOOSE a \in UNION {found[i] : i \in first} : TRUE])

-----------------------------------------------------------------------------
(* Scripts that work on a profile and its products, or on a category and   *)
(* its profiles, in a transaction; g is the profile or the category.       *)
cs_13762(w, g, d) == PutIf(Has(w[g], "agreementID"), [agreementID |-> w[g].agreementID])
cs_13265(w, g, d) == Put([relatedCategory |-> w[g].relatedCategory])

Hash(g, id) == IF id.of = "" THEN [id EXCEPT !.of = g] ELSE id
cs_12095(w, g, d) ==
  LET Old(c, r)   == r.id.of = ""
      New(r)      == [r EXCEPT !.id = Hash(g, @)]
      OldName(r)  == r.requirement.of = ""
      NewName(r)  == [r EXCEPT !.requirement = Hash(g, @)]
  IN IF d = g THEN OnRequirements(w[d], Old, New)
     ELSE IF \E r \in Requirements(w[g]) : r.id.of = "" THEN OnResponses(w[d], OldName, NewName)
     ELSE NoChange

(* The first of anyOf, allOf and oneOf that is not empty.                  *)
cs_12300(w, g, d) ==
  LET given(r)  == SelectSeq(<<"anyOf", "allOf", "oneOf">>, LAMBDA f : Get(r, f, {}) # {})
      Old(c, r) == given(r) # << >>
      New(r)    == Drop([expectedValues |-> r[given(r)[1]]] @@ r, {given(r)[1]})
      Asked(r)  == \E q \in Requirements(w[g]) : q.id = r.requirement /\ given(q) # << >>
      Listing(r) == Drop([values |-> {r.value}] @@ r, {"value"})
  IN IF d = g THEN OnRequirements(w[d], Old, New) ELSE OnResponses(w[d], Asked, Listing)

(* An id becomes the title; one that the profile has not goes.  A title    *)
(* that is written like an id (check_uuid) is taken for one, and goes too. *)
cs_13182(w, g, d) ==
  LET known(r)  == {q \in Requirements(w[g]) : q.id = r.requirement}
      Stays(r)  == known(r) # {} \/ (r.requirement.of = "title" /\ r.requirement.raw \notin Latin)
      Titled(r) == IF known(r) = {} THEN r
                   ELSE [r EXCEPT !.requirement = (CHOOSE q \in known(r) : TRUE).title]
      old       == w[d].responses
      new       == SelectSeq(old, Stays)
  IN PutIf(/\ Requirements(w[g]) # {}
           /\ \E i \in DOMAIN old : known(old[i]) # {} \/ ~ Stays(old[i]),
           [responses |-> [i \in DOMAIN new |-> Titled(new[i])]])

-----------------------------------------------------------------------------
(* Scripts that rewrite requirements.                                      *)
cs_17864(w, d) ==
  LET Old(c, r) == ~ Has(r, "isArchived")
      New(r)    == [isArchived |-> FALSE] @@ r
  IN OnRequirements(w[d], Old, New)
cs_17793(w, d) ==
  LET Old(c, r) == Has(r, "unit") /\ r.dataType \in {"boolean", "string"}
      New(r)    == Drop(r, {"unit"})
  IN OnRequirements(w[d], Old, New)
cs_17332(w, d) ==
  LET Old(c, r) == Get(r, "expectedValues", {}) # {}
      New(r)    == [expectedMinItems |-> 1] @@
                   Drop(r, IF Get(r, "expectedMaxItems", 1) # 1 THEN {"expectedMaxItems"} ELSE {})
  IN IF d \in Listed THEN NoChange ELSE OnRequirements(w[d], Old, New)
cs_19077(w, d) ==
  LET Old(c, r) == /\ Get(r, "expectedValues", {}) # {} /\ r.dataType = "string"
                   /\ Get(r, "expectedMinItems", 0) = 0
      New(r)    == [expectedMinItems |-> 1] @@ r
  IN OnRequirements(w[d], Old, New)
cs_18810(w, d) ==
  LET Old(c, r) == /\ c.class = "LOC" /\ Has(r, "expectedValues")
                   /\ r.expectedValues \subseteq Iso
      New(r)    == [dataSchema |-> "ISO 3166"] @@ r
  IN OnRequirements(w[d], Old, New)
cs_20866(w, d) ==
  LET Old(c, r) == c.class = "LOC" /\ Has(r, "minValue")
      New(r)    == [r EXCEPT !.minValue = Py("float", 30)]
  IN IF w[d].status = "active" THEN OnRequirements(w[d], Old, New) ELSE NoChange

(* 13375 for the profiles of an owner, and 15349 for a category, where the *)
(* criteria become None when they have no minimum, and its profiles.  From *)
(* such a category it does not get any further again: see Raises.          *)
NewMinimum(w, d) ==
  LET Old(c, r) == Has(r, "minValue")
      New(r)    == [minValue |-> Py("int", 20), description |-> "2024"] @@ r
  IN OnRequirements(w[d], Old, New)
cs_13375(w, d) ==
  IF w[d].owner = "local" /\ w[d].status = "active" THEN NewMinimum(w, d) ELSE NoChange
cs_15349(w, d) ==
  IF w[d].kind = "category"
  THEN IF d \notin Listed THEN NoChange
       ELSE IF Empty(NewMinimum(w, d)) THEN Put([criteria |-> None]) ELSE NewMinimum(w, d)
  ELSE IF w[d].relatedCategory \in Listed /\ w[d].status = "active" THEN NewMinimum(w, d)
  ELSE NoChange

(* Titles with a standard become requirements to be met: of profiles; of   *)
(* categories and, in responses, of products.                              *)
StandardsMet(w, d) ==
  LET Old(c, r) == r.title.raw = "standard"
      New(r)    == [expectedValue |-> Py("bool", 1), dataType |-> "boolean"] @@ Drop(r, Items)
  IN IF OwnCategory(w, d) \in Listed THEN OnRequirements(w[d], Old, New) ELSE NoChange
cs_16542(w, d) == StandardsMet(w, d)
cs_16303(w, d) ==
  LET Old(r) == r.requirement.raw = "standard"
      Yes(r) == [value |-> Py("bool", 1)] @@ Drop(r, {"values"})
  IN CASE w[d].kind = "category" -> StandardsMet(w, d)
       [] w[d].kind = "product" /\ w[d].relatedCategory \in Listed -> OnResponses(w[d], Old, Yes)
       [] OTHER -> NoChange

cs_15202(w, d) ==
  LET Old(c, r)  == Has(r, "expectedValue")
      New(r)     == Drop([expectedValues |-> {r.expectedValue}] @@ r, {"expectedValue"})
      Single(r)  == Has(r, "value")
      Listing(r) == Drop([values |-> {r.value}] @@ r, {"value"})
  IN IF w[d].kind = "product" THEN OnResponses(w[d], Single, Listing)
     ELSE OnRequirements(w[d], Old, New)

(* The localization criterion, anew, without the id's that it is given.    *)
LocalOrigin == [title |-> Name("title", "local"), dataType |-> "number", minValue |-> Py("float", 25)]
LocalCriterion == [class |-> "LOC", requirements |-> <<LocalOrigin>>]

cs_16971(w, d) ==
  CASE w[d].kind = "category" -> PutIf(d \in Listed, [criteria |-> <<LocalCriterion>>])
    [] w[d].kind = "profile"  -> PutIf(w[d].relatedCategory \in Listed, [criteria |-> <<LocalCriterion>>])
    [] OTHER -> PutIf(w[d].relatedCategory \in Listed,
                      [responses |-> [w[d].responses EXCEPT ![1].requirement = LocalOrigin.title]])

(* The wording of the technical criteria.                                  *)
cs_16972(w, d) ==
  LET New(c) == IF c.class = "TECH" THEN [wording |-> "new"] @@ c ELSE c
      old    == w[d].criteria
  IN PutIf(/\ OwnCategory(w, d) \notin Listed
           /\ \E i \in DOMAIN old : New(old[i]) # old[i],
           [criteria |-> [i \in DOMAIN old |-> New(old[i])]])

(* All criteria become one; one of several requirements, which must have an*)
(* expectedValue each, becomes a requirement of any of their values.       *)
squash_profile_criteria(w, d) ==
  LET old  == w[d].criteria
      Reqs(c) == {c.requirements[i] : i \in DOMAIN c.requirements}
      Fails(c) == Len(c.requirements) > 1 /\ \E r \in Reqs(c) : ~ Has(r, "expectedValue")
      One(c) == IF Len(c.requirements) = 1 THEN c.requirements[1]
                ELSE Drop([anyOf |-> {r.expectedValue : r \in Reqs(c)}] @@ c.requirements[1],
                          {"expectedValue"})
  IN IF \E i \in DOMAIN old : Fails(old[i]) THEN NoChange
     ELSE Put([criteria |-> IF old = << >> THEN << >>
                            ELSE <<[class |-> "TECH", requirements |-> [i \in DOMAIN old |-> One(old[i])]]>>])

-----------------------------------------------------------------------------
(* The unit that the category gives to a requirement of that title.        *)
OfferedUnits(w, d, title, dataTypes) ==
  {r.unit : r \in {q \in Offered(w, d, dataTypes) : q.title = title /\ Has(q, "unit")}}

cs_18606(w, d) ==
  LET units(r)  == OfferedUnits(w, d, r.title, Numbers)
      Old(c, r) == r.dataType \in Numbers /\ ~ Has(r, "unit") /\ units(r) # {}
      New(r)    == [unit |-> CHOOSE u \in units(r) : TRUE] @@ r
  IN OnRequirements(w[d], Old, New)

(* The category's unit, or else the standard's name of the own one.        *)
cs_18855(w, d) ==
  LET Better(own, offered) ==
        IF offered # {} THEN CHOOSE u \in offered : TRUE
        ELSE IF own.code \in DOMAIN UnitNames THEN [own EXCEPT !.name = UnitNames[own.code]] ELSE own
      units(r)   == OfferedUnits(w, d, r.title, {"number", "integer", "string", "boolean"})
      Fits(r, offered) == IF Has(r, "unit") THEN Better(r.unit, offered) = r.unit ELSE offered = {}
      New(r)     == [unit |-> Better(Get(r, "unit", {}), units(r))] @@ r
      Old(c, r)  == r.dataType \in Numbers /\ ~ Fits(r, units(r))
      category   == IF Has(CategoryOf(w, d), "unit") THEN {CategoryOf(w, d).unit} ELSE {}
  IN Put(OnRequirements(w[d], Old, New).set @@
         (IF Fits(w[d], category) THEN << >>
          ELSE [unit |-> Better(Get(w[d], "unit", {}), category)]))

-----------------------------------------------------------------------------
(* Scripts that bring responses to the form their requirement asks for: a  *)
(* list for a string, a value for the rest.                                *)
Asked(w, d, r, dataTypes) == r.requirement \in Titles(Offered(w, d, dataTypes))

cs_18906(w, d) ==
  LET Old(r) == Asked(w, d, r, {"string"}) /\ Has(r, "value")
      New(r) == Drop([values |-> {AsStr(r.value)}] @@ r, {"value"})
  IN OnResponses(w[d], Old, New)

(* Mutant: the value is deleted with the list.                             *)
cs_18834Both(w, d) ==
  LET Old(r) == /\ Asked(w, d, r, {"boolean"}) /\ Has(r, "values")
                /\ \E v \in r.values : r.values = {v} /\ ~ IsText(v) /\ v.n \in {0, 1}
      New(r) == Drop(r, {"value", "values"})
  IN OnResponses(w[d], Old, New)

(* [1] and [1.0] are equal to [True].                                      *)
cs_18834(w, d) ==
  LET Old(r) == /\ Asked(w, d, r, {"boolean"}) /\ Has(r, "values")
                /\ \E v \in r.values : r.values = {v} /\ ~ IsText(v) /\ v.n \in {0, 1}
      New(r) == Drop([value |-> Py("bool", (CHOOSE v \in r.values : TRUE).n)] @@ r, {"values"})
  IN OnResponses(w[d], Old, New)

cs_18917(w, d) ==
  LET Old(r) == /\ Asked(w, d, r, Numbers) /\ Has(r, "values")
                /\ Cardinality(r.values) = 1 \/ (r.values = {} /\ Has(r, "value"))
      New(r) == Drop((IF r.values = {} THEN << >> ELSE [value |-> CHOOSE v \in r.values : TRUE]) @@ r,
                     {"values"})
  IN OnResponses(w[d], Old, New)

-----------------------------------------------------------------------------
(* 17668: requirements get the one form that their data type allows.  What *)
(* products answer decides where a requirement says nothing.               *)
Answers(w, d, r) ==
  UNION {UNION {IF Has(a, "value") THEN {a.value} ELSE Get(a, "values", {}) :
                  a \in {x \in {w[p].responses[i] : i \in DOMAIN w[p].responses} :
                           x.requirement = r.title}} : p \in ProductsOf(w, d)}

Strings(r, values) ==
  [dataType |-> "string", expectedMinItems |-> 1, expectedValues |-> {AsStr(v) : v \in values}] @@ r
ListOf(r)     == Strings(r, r.expectedValues)
LimitsOf(r)   == Drop(Strings(r, {r[f] : f \in Limits \cap DOMAIN r}), Limits)
ValueOf(r)    == Drop(Strings(r, {r.expectedValue}), {"expectedValue"})
WithMinimum(r) == [minValue |-> Get(r, "minValue", Py("int", 0))] @@ r
convert_field_to_float(r, f) ==
  IF Has(r, f) /\ ~ IsText(r[f]) THEN [r EXCEPT ![f] = Py("float", @.n), !.dataType = "number"] ELSE r
LeastAnswer(w, d, r, dataType) ==
  LET least == {Cast(dataType, v) : v \in Answers(w, d, r)}
      found == {m \in least : \A v \in least : m.n <= v.n}
  IN [minValue |-> IF found = {} THEN Py("int", 0) ELSE CHOOSE m \in found : TRUE] @@ Drop(r, Items)
Listing(r) == Get(r, "expectedValues", {}) # {}

update_integer(w, d, r) ==
  CASE Listing(r) -> ListOf(r)
    [] ~ Listing(r) /\ Has(r, "maxValue") ->
         IF r.maxValue.type = "float"
         THEN LET number == [r EXCEPT !.dataType = "number"] IN
              IF Has(r, "minValue") THEN convert_field_to_float(number, "minValue") ELSE WithMinimum(number)
         ELSE IF IsText(r.maxValue) THEN LimitsOf(r) ELSE WithMinimum(r)
    [] ~ Listing(r) /\ ~ Has(r, "maxValue") /\ Has(r, "minValue") ->
         IF r.minValue.type = "float" THEN [r EXCEPT !.dataType = "number"] ELSE r
    [] ~ Listing(r) /\ {"maxValue", "minValue"} \cap DOMAIN r = {} /\ Has(r, "expectedValue") ->
         (CASE r.expectedValue.type = "float" -> [r EXCEPT !.dataType = "number"]
            [] r.expectedValue.type = "int"   -> r
            [] OTHER                          -> ValueOf(r))
    [] OTHER -> LeastAnswer(w, d, r, "integer")

update_number(w, d, r) ==
  CASE Listing(r) -> ListOf(r)
    [] ~ Listing(r) /\ Has(r, "maxValue") ->
         IF IsText(r.maxValue) THEN LimitsOf(r)
         ELSE LET max == convert_field_to_float(r, "maxValue") IN
              IF Has(r, "minValue") THEN convert_field_to_float(max, "minValue") ELSE WithMinimum(max)
    [] ~ Listing(r) /\ ~ Has(r, "maxValue") /\ Has(r, "minValue") -> convert_field_to_float(r, "minValue")
    [] ~ Listing(r) /\ {"maxValue", "minValue"} \cap DOMAIN r = {} /\ Has(r, "expectedValue") ->
         IF IsText(r.expectedValue) \/ r.expectedValue.type = "bool" THEN ValueOf(r)
         ELSE convert_field_to_float(r, "expectedValue")
    [] OTHER -> LeastAnswer(w, d, r, "number")

update_string(w, d, r) ==
  LET answers == Answers(w, d, r) IN
  CASE Listing(r) -> ListOf(r)
    [] ~ Listing(r) /\ Has(r, "expectedValue") -> ValueOf(r)
    [] ~ Listing(r) /\ ~ Has(r, "expectedValue") /\ Limits \cap DOMAIN r # {} ->
         IF answers = {} THEN LimitsOf(r) ELSE Drop(Strings(r, answers), Limits)
    [] OTHER -> IF answers = {} THEN [dataType |-> "boolean"] @@ Drop(r, Items) ELSE Strings(r, answers)

update_boolean(r) ==
  IF Has(r, "expectedValues")
  THEN CASE Cardinality(r.expectedValues) = 1 /\ \A v \in r.expectedValues : v.type = "bool" ->
              [expectedValue |-> CHOOSE v \in r.expectedValues : TRUE] @@ Drop(r, Items)
         [] /\ \A v \in r.expectedValues : ~ IsText(v)
            /\ {v.n : v \in r.expectedValues} = {0, 1} ->
              Drop(r, Items)
         [] OTHER -> IF r.expectedValues = {} THEN r ELSE ListOf(r)
  ELSE IF Has(r, "expectedValue") /\ r.expectedValue.type # "bool" THEN ValueOf(r) ELSE r

Standard(w, d, r) ==
  LET limited == IF {"expectedValue", "expectedValues"} \cap DOMAIN r # {} THEN Drop(r, Limits) ELSE r
      formed  == CASE r.dataType = "integer" -> update_integer(w, d, limited)
                   [] r.dataType = "number"  -> update_number(w, d, limited)
                   [] r.dataType = "string"  -> update_string(w, d, limited)
                   [] r.dataType = "boolean" -> update_boolean(limited)
  IN IF formed.dataType \in {"string", "boolean"} THEN Drop(formed, {"unit"}) ELSE formed

(* == of two requirements: 1, 1.0 and True are equal.                      *)
Equal(r, q) ==
  LET Plain(v) == IF IsText(v) THEN v ELSE Py("int", v.n) IN
  /\ DOMAIN r = DOMAIN q
  /\ \A f \in DOMAIN r :
       CASE f \in Limits \cup {"expectedValue"} -> Plain(r[f]) = Plain(q[f])
         [] f = "expectedValues" -> {Plain(v) : v \in r[f]} = {Plain(v) : v \in q[f]}
         [] OTHER                -> r[f] = q[f]

(* A requirement that the category has not goes; but by itself that does   *)
(* not count as an update.                                                 *)
cs_17668(w, d) ==
  LET alone(r) == /\ Has(w[d], "relatedCategory") /\ w[d].relatedCategory \in DOMAIN w
                  /\ r.title \notin Titles(Requirements(CategoryOf(w, d)))
      Stays(r) == ~ alone(r)
      New(c)   == LET kept == SelectSeq(c.requirements, Stays) IN
                  [c EXCEPT !.requirements = [i \in DOMAIN kept |-> Standard(w, d, kept[i])]]
  IN PutIf(\E r \in Requirements(w[d]) : ~ alone(r) /\ ~ Equal(Standard(w, d, r), r),
           [criteria |-> [i \in DOMAIN w[d].criteria |-> New(w[d].criteria[i])]])

(* A requirement without limits and an answer that is no number: the       *)
(* exception is caught around the loop, which ends.                        *)
Breaks(w, d) ==
  \E r \in Requirements(w[d]) :
    /\ r.dataType \in Numbers /\ ~ Listing(r)
    /\ {"maxValue", "minValue", "expectedValue"} \cap DOMAIN r = {}
    /\ \E v \in Answers(w, d, r) : ~ Parses(r.dataType, v)

(* Responses to no requirement, or which cannot be of its type, go; if all *)
(* would go the empty list is taken for "nothing to do".                   *)
cs_17668_products(w, d) ==
  LET typeOf(a)  == (CHOOSE r \in Requirements(CategoryOf(w, d)) : r.title = a.requirement).dataType
      given(a)   == IF Has(a, "value") THEN {a.value} ELSE Get(a, "values", {})
      Right(a)   == \A v \in given(a) : Instance(typeOf(a), v)
      Stays(a)   == /\ a.requirement \in Titles(Requirements(CategoryOf(w, d)))
                    /\ Right(a) \/ \A v \in given(a) : Parses(typeOf(a), v)
      Typed(a)   == CASE Right(a) -> a
                      [] ~ Right(a) /\ Has(a, "value") -> [a EXCEPT !.value = Cast(typeOf(a), @)]
                      [] OTHER -> [a EXCEPT !.values = {Cast(typeOf(a), v) : v \in @}]
      old        == w[d].responses
      kept       == SelectSeq(old, Stays)
      new        == [i \in DOMAIN kept |-> Typed(kept[i])]
  IN PutIf(w[d].relatedCategory \in DOMAIN w /\ new # old /\ new # << >>, [responses |-> new])

-----------------------------------------------------------------------------
(* 17989: a profile's requirement gets the data type of the category's.    *)
(* "updated" is not set where a string becomes a number: such a change is  *)
(* stored only along with another.                                         *)
Compared(w, d, r) ==
  LET same    == {q \in Requirements(CategoryOf(w, d)) : q.title = r.title}
      theirs  == CHOOSE q \in same : TRUE
      type    == theirs.dataType
      Fields  == {"maxValue", "minValue", "expectedValue"} \cap DOMAIN r
      order   == <<"maxValue", "minValue", "expectedValue">>
      done    == {order[i] : i \in {j \in 1..3 : \A k \in 1..j :   \* up to the first that fails
                                     order[k] \in Fields => Parses(type, r[order[k]])}} \cap Fields
      value   == CHOOSE v \in Get(r, "expectedValues", {}) : TRUE
      result(q, updated) == [req |-> q, updated |-> updated]
  IN CASE same = {} -> result(r, FALSE)
       [] same # {} /\ type = r.dataType -> result(r, FALSE)
       [] same # {} /\ type \in Numbers /\ r.dataType = "string" ->
            IF Cardinality(Get(r, "expectedValues", {})) = 1 /\ Parses(type, value)
            THEN result([expectedValue |-> Cast(type, value), dataType |-> type] @@ Drop(r, Items), FALSE)
            ELSE result(r, FALSE)
       [] same # {} /\ type = "boolean" /\ r.dataType = "string" ->
            result((IF Has(theirs, "expectedValue") THEN [expectedValue |-> theirs.expectedValue]
                    ELSE << >>) @@ [dataType |-> type] @@ Drop(r, Items), TRUE)
       [] same # {} /\ type = "string" /\ r.dataType # "string" ->
            (CASE Listing(r) -> result(ListOf(r), TRUE)
               [] ~ Listing(r) /\ Has(r, "expectedValue") -> result(ValueOf(r), TRUE)
               [] ~ Listing(r) /\ ~ Has(r, "expectedValue") /\ Fields # {} -> result(LimitsOf(r), TRUE)
               [] OTHER -> result(r, FALSE))
       [] same # {} /\ type \in Numbers /\ r.dataType \in Numbers \ {type} ->
            IF done = {} THEN result(r, FALSE)
            ELSE result([f \in DOMAIN r |-> IF f \in done THEN Cast(type, r[f])
                                            ELSE IF f = "dataType" THEN type ELSE r[f]], TRUE)
       [] OTHER -> result(r, FALSE)

(* Then its unit: none for a string or a Boolean, else the category's.     *)
WithUnit(w, d, x) ==
  LET units == OfferedUnits(w, d, x.req.title, {"number", "integer", "string", "boolean"}) IN
  IF x.req.dataType \notin Numbers
  THEN [req |-> Drop(x.req, {"unit"}), updated |-> x.updated \/ Has(x.req, "unit")]
  ELSE IF ~ Has(x.req, "unit") /\ units # {}
  THEN [req |-> [unit |-> CHOOSE u \in units : TRUE] @@ x.req, updated |-> TRUE]
  ELSE x

cs_17989(w, d) ==
  LET found      == Has(w[d], "relatedCategory") /\ w[d].relatedCategory \in DOMAIN w
      Checked(r) == WithUnit(w, d, Compared(w, d, r))
      New(r)     == Checked(r).req
      All(c, r)  == TRUE
  IN IF found /\ \E r \in Requirements(w[d]) : Checked(r).updated
     THEN OnRequirements(w[d], All, New) ELSE NoChange

-----------------------------------------------------------------------------
(* 18143, in four passes: special categories get a new localization        *)
(* criterion; profiles are hidden, or move to the category that is listed  *)
(* for them; products move to a category by their class or with their      *)
(* profile.                                                                *)
cs_18143_categories(w, d) ==
  LET old == Get(w[d], "criteria", << >>) IN
  PutIf(w[d].classification.id = NewClass,
        [criteria |-> IF Local(w[d])
                      THEN [i \in DOMAIN old |-> IF old[i].class = "LOC" THEN LocalCriterion ELSE old[i]]
                      ELSE Append(old, LocalCriterion)])

(* The first requirement of the first localization criterion.              *)
LocalMinimum(doc) ==
  LET criteria == Get(doc, "criteria", << >>)
      locals   == {i \in DOMAIN criteria : criteria[i].class = "LOC"}
      first    == CHOOSE i \in locals : \A j \in locals : i <= j
  IN IF locals = {} THEN << >>
     ELSE [criteria |-> [criteria EXCEPT ![first].requirements[1] =
                           [minValue |-> Py("float", 25)] @@ @]]

cs_18143_profiles(w, d) ==
  LET special == w[d].classification.id = NewClass
  IN IF d \in Listed THEN Put([status |-> "hidden"])
     ELSE PutIf(Target \in DOMAIN w,
       (IF special /\ Has(w[Target], "agreementID") THEN [agreementID |-> w[Target].agreementID] ELSE << >>)
       @@ LocalMinimum(w[d]) @@ [relatedCategory |-> Target])

cs_18143_classes(w, d) ==
  LET target == {c \in DOMAIN w : /\ w[c].kind = "category" /\ w[c].classification.id = NewClass} IN
  PutIf(w[d].classification.id = "old",
        (IF target = {} THEN << >> ELSE [relatedCategory |-> CHOOSE c \in target : TRUE])
        @@ [classification |-> [id |-> NewClass]])

cs_18143_products(w, d) ==
  LET profiles == w[d].relatedProfiles \cap DOMAIN w IN
  PutIf(profiles # {}, [relatedCategory |-> w[CHOOSE f \in profiles : TRUE].relatedCategory])

-----------------------------------------------------------------------------
(* Scripts that insert copies of a category with other classes: 18006 of   *)
(* the one it names, 19979 and 20381 (part 3) of any of some class.        *)
cs_18006(category) ==
  [status |-> "active", unit |-> [code |-> "H87", name |-> "pieces"],
   classification |-> [id |-> NewClass]] @@ LocalMinimum(category) @@ category
cs_19979(category) == [classification |-> [id |-> NewClass]] @@ category
cs_20381_copies(category) == [classification |-> [id |-> NewClass]] @@ category
=============================================================================
